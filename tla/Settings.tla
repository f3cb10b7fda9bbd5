------------------------------ MODULE Settings ------------------------------
(***************************************************************************)
(* The settings of the signed-in user: the calendars that are connected,   *)
(* the notification preferences, which are saved at each change, and the   *)
(* password.  To connect a calendar the browser leaves for the provider    *)
(* and comes back to a page that is loaded anew.                           *)
(***************************************************************************)
EXTENDS Requests

CONSTANTS Item, Value

\* Item: the calendars; Value: what the preferences may be.
Loads(inst, ops) == {Call(None, inst, None, op, None, None) : op \in ops}

Loaded(inst) ==
  [inst |-> inst, loading |-> TRUE, employee |-> None, offered |-> {},
   prefs |-> None, prefsLoading |-> TRUE, saving |-> FALSE,
   password |-> FALSE, changing |-> FALSE]

AtMount == {"employee", "config", "prefs"}

Init ==
  /\ page = "settings"
  /\ \E offered \in SUBSET Item, connected \in SUBSET Item, p \in Value :
       /\ connected \subseteq offered
       /\ server = [offered |-> offered, connected |-> connected, prefs |-> p]
  /\ ui = Loaded(0)
  /\ calls = Loads(0, AtMount)
  /\ made = 0
  /\ faults = 0
  /\ clean = TRUE

Mine(c) == c.inst = ui.inst

-----------------------------------------------------------------------------
(* The employee of the user and the calendars                              *)

\* The two requests of the first load are waited for together; the one after
\* a change of the connections is not.
EmployeeAnswered(c) ==
  /\ c.op \in {"employee", "again"} /\ c.at # "out"
  /\ ui' = IF Mine(c)
             THEN [ui EXCEPT
                    !.employee = IF c.at = "ok" THEN c.answer ELSE None,
                    !.loading = @ /\ c.op = "employee" /\ Waiting(ui.inst, {"config"})]
             ELSE ui
  /\ Ends(c)
  /\ UNCHANGED <<page, server, made, faults, clean>>

ConfigAnswered(c) ==
  /\ c.op = "config" /\ c.at # "out"
  /\ ui' = IF Mine(c)
             THEN [ui EXCEPT
                    !.offered = IF c.at = "ok" THEN c.answer ELSE @,
                    !.loading = @ /\ Waiting(ui.inst, {"employee"})]
             ELSE ui
  /\ Ends(c)
  /\ UNCHANGED <<page, server, made, faults, clean>>

\* The calendars of the employee that the page shows.
Listed == IF ui.loading \/ ui.employee = None THEN {} ELSE ui.offered

Connect(i) ==
  /\ i \in Listed \ ui.employee
  /\ Start(ui.inst, i, "connect", None, None)
  /\ UNCHANGED <<page, server, ui, faults, clean>>

\* The browser leaves with the answer, and what the page still waited for is
\* lost; the user consents or not, and the page is loaded anew.
Connected(c) ==
  /\ c.op = "connect" /\ c.at = "ok"
  /\ \E consents \in BOOLEAN :
       IF Mine(c)
         THEN /\ ui' = Loaded(ui.inst + 1)
              /\ server' = IF consents THEN [server EXCEPT !.connected = @ \cup {c.item}] ELSE server
              /\ calls' = {d \in calls : d.at = "out" /\ d.op \in {"save", "disconnect", "password"}}
                            \cup Loads(ui.inst + 1, AtMount)
                            \cup Loads(ui.inst + 1, IF consents THEN {"again"} ELSE {})
         ELSE UNCHANGED <<ui, server>> /\ Ends(c)
  /\ UNCHANGED <<page, made, faults, clean>>

ConnectFails(c) ==
  /\ c.op = "connect" /\ c.at = "no"
  /\ Ends(c)
  /\ UNCHANGED <<page, server, ui, made, faults, clean>>

Disconnect(i) ==
  /\ i \in Listed \cap ui.employee
  /\ Start(ui.inst, i, "disconnect", None, None)
  /\ UNCHANGED <<page, server, ui, faults, clean>>

\* Only what was carried out is asked for again.
Disconnected(c) ==
  /\ c.op = "disconnect" /\ c.at # "out"
  /\ calls' = (calls \ {c}) \cup IF Mine(c) /\ c.at = "ok" THEN Loads(ui.inst, {"again"}) ELSE {}
  /\ UNCHANGED <<page, server, ui, made, faults, clean>>

-----------------------------------------------------------------------------
(* The notification preferences                                            *)

PrefsAnswered(c) ==
  /\ c.op = "prefs" /\ c.at # "out"
  /\ ui' = IF Mine(c)
             THEN [ui EXCEPT !.prefs = IF c.at = "ok" THEN c.answer ELSE @, !.prefsLoading = FALSE]
             ELSE ui
  /\ Ends(c)
  /\ UNCHANGED <<page, server, made, faults, clean>>

\* A change shows at once and is saved with all the others; nothing can be
\* changed while it is.
ChangePrefs(p) ==
  /\ ~ui.prefsLoading /\ ui.prefs # None /\ ~ui.saving
  /\ p # ui.prefs
  /\ ui' = [ui EXCEPT !.prefs = p, !.saving = TRUE]
  /\ Start(ui.inst, None, "save", p, None)
  /\ UNCHANGED <<page, server, faults, clean>>

\* After a failure the page keeps what it shows.
Saved(c) ==
  /\ c.op = "save" /\ c.at # "out"
  /\ ui' = IF Mine(c)
             THEN [ui EXCEPT !.prefs = IF c.at = "ok" THEN c.answer ELSE @, !.saving = FALSE]
             ELSE ui
  /\ clean' = (clean /\ c.at = "ok")
  /\ Ends(c)
  /\ UNCHANGED <<page, server, made, faults>>

-----------------------------------------------------------------------------
(* The password                                                            *)

\* A form with two equal new passwords that are long enough.
TypePassword ==
  /\ ~ui.password
  /\ ui' = [ui EXCEPT !.password = TRUE]
  /\ UNCHANGED <<page, server, calls, made, faults, clean>>

ChangePassword ==
  /\ ui.password /\ ~ui.changing
  /\ ui' = [ui EXCEPT !.changing = TRUE]
  /\ Start(ui.inst, None, "password", None, None)
  /\ UNCHANGED <<page, server, faults, clean>>

PasswordChanged(c) ==
  /\ c.op = "password" /\ c.at # "out"
  /\ ui' = IF Mine(c)
             THEN [ui EXCEPT !.password = @ /\ c.at = "no", !.changing = FALSE]
             ELSE ui
  /\ Ends(c)
  /\ UNCHANGED <<page, server, made, faults, clean>>

-----------------------------------------------------------------------------
(* The backend                                                             *)

\* What changes while an answer about it is on its way, or what the page that
\* was left had asked for, is not seen by the page.
Overtaken == \E d \in calls : d.op \in {"employee", "again"} /\ d.at = "ok"

Serve(c) ==
  /\ c.at = "out"
  /\ LET s == CASE c.op = "disconnect" -> [server EXCEPT !.connected = @ \ {c.item}]
                [] c.op = "save" -> [server EXCEPT !.prefs = c.value]
                [] OTHER -> server
     IN /\ server' = s
        /\ Answered(c, CASE c.op \in {"employee", "again"} -> s.connected
                         [] c.op = "config" -> s.offered
                         [] c.op \in {"prefs", "save"} -> s.prefs
                         [] OTHER -> None)
  /\ clean' = (clean /\ (server' # server => Mine(c))
                     /\ (server'.connected # server.connected => ~Overtaken))
  /\ UNCHANGED <<page, ui, made, faults>>

Refuse(c) ==
  /\ c.at = "out"
  /\ Fault(c)
  /\ UNCHANGED <<page, server, ui, made, clean>>

-----------------------------------------------------------------------------
Next ==
  \/ TypePassword \/ ChangePassword
  \/ \E i \in Item : Connect(i) \/ Disconnect(i)
  \/ \E p \in Value : ChangePrefs(p)
  \/ \E c \in calls :
       \/ EmployeeAnswered(c) \/ ConfigAnswered(c) \/ PrefsAnswered(c)
       \/ Connected(c) \/ ConnectFails(c) \/ Disconnected(c)
       \/ Saved(c) \/ PasswordChanged(c)
       \/ Serve(c) \/ Refuse(c)

Spec == Init /\ [][Next]_vars

-----------------------------------------------------------------------------
(* Properties                                                              *)

\* Every variable keeps its type.
TypeOK ==
  /\ page = "settings"
  /\ server \in [offered : SUBSET Item, connected : SUBSET Item, prefs : Value]
  /\ ui \in [inst : Nat, loading : BOOLEAN, employee : (SUBSET Item) \cup {None},
             offered : SUBSET Item, prefs : Value \cup {None}, prefsLoading : BOOLEAN,
             saving : BOOLEAN, password : BOOLEAN, changing : BOOLEAN]
  /\ \A c \in calls : c.item \in Item \cup {None} /\ c.inst \in 0..ui.inst
  /\ made \in 0..MaxCalls[page] /\ faults \in 0..MaxFaults
  /\ clean \in BOOLEAN

\* Unless an answer was overtaken or a save failed (clean), a page that waits
\* for nothing shows the connections and the preferences as they are.
SettingsSettle ==
  clean /\ calls = {} =>
    /\ ui.employee # None => ui.employee = server.connected
    /\ ui.prefs # None => ui.prefs = server.prefs

\* No control waits for an answer that will not come.
NoStuckSetting ==
  /\ ui.loading => Waiting(ui.inst, {"employee", "config"})
  /\ ui.prefsLoading => Waiting(ui.inst, {"prefs"})
  /\ ui.saving => Waiting(ui.inst, {"save"})
  /\ ui.changing => Waiting(ui.inst, {"password"})
=============================================================================
