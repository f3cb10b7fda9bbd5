------------------------------- MODULE Session -------------------------------
(***************************************************************************)
(* The session of one account in its browsers.  The tabs of a browser      *)
(* share the cookies: an access token, which is good until it expires or   *)
(* the password changes, and a refresh token, which is good for one        *)
(* exchange.  A request takes the cookies there are when it goes out; its  *)
(* answer sets them when it comes.  A call that was denied waits for one   *)
(* refresh that the whole tab shares and is made once more.  A refresh     *)
(* token that comes again more than thirty seconds after its exchange is   *)
(* taken for stolen, and every session of the account ends.                *)
(***************************************************************************)
EXTENDS Requests, Sequences, FiniteSets

CONSTANT Tab

\* server: the refresh tokens in the order of their issue, each good ("live"),
\* used within the last seconds ("recent") or before ("old"); the version of
\* the password, which is the access token; whether a theft was assumed; and
\* the number of the token that the last change of the password issued.
Live == {i \in DOMAIN server.tokens : server.tokens[i] = "live"}

NoCookies == [access |-> None, refresh |-> None]

\* Everyone starts signed in, with one browser or with two.
Init ==
  /\ page = "session"
  /\ \E first \in Tab : \E of \in {[t \in Tab |-> first], [t \in Tab |-> t]} :
       LET jars == {of[t] : t \in Tab}
           token == CHOOSE f \in [jars -> 1..Cardinality(jars)] :
                      \A j, k \in jars : f[j] = f[k] => j = k
       IN /\ server = [tokens |-> [i \in 1..Cardinality(jars) |-> "live"],
                       version |-> 0, alarm |-> FALSE]
          /\ ui = [of |-> of,
                   jar |-> [j \in jars |-> [access |-> 0, refresh |-> token[j]]],
                   tab |-> [t \in Tab |-> [at |-> "app", user |-> TRUE, loading |-> FALSE]]]
  /\ calls = {}
  /\ made = 0
  /\ faults = 0
  /\ clean = TRUE

Cookies(t) == ui.jar[ui.of[t]]

Ask(t, op) == Call(made, t, ui.of[t], op, Cookies(t).access, Cookies(t).refresh)

Denies(c, why) == Replace(c, [c EXCEPT !.at = why])

\* The answer of a call sets cookies of the tab's browser.
Store(u, c, cookies) == [u EXCEPT !.jar[c.item] = cookies]

Refreshing(t) == Waiting(t, {"refresh"})

\* The answers of these set the cookies; that of a logout clears them.
Sets == {"refresh", "change", "login"}
InFlight == \E c \in calls : c.op \in Sets \cup {"logout"}

-----------------------------------------------------------------------------
(* A tab                                                                   *)

\* The page is loaded: handlers are gone, requests under way are aborted,
\* which the server does not notice; then the application asks who is there.
Orphans(t) ==
  {c \in calls : c.inst = t /\ c.op \in Sets \cup {"logout"} /\ c.at \in {"out", "ok"}}

Load(u, t, at) ==
  /\ ui' = [u EXCEPT !.tab[t] = [at |-> at, user |-> FALSE, loading |-> TRUE]]
  /\ calls' = {c \in calls : c.inst # t} \cup {[c EXCEPT !.inst = None] : c \in Orphans(t)}
              \cup {[Ask(t, "me") EXCEPT !.value = u.jar[u.of[t]].access]}
  /\ clean' = (clean /\ Orphans(t) = {})

Reload(t) ==
  /\ ui.tab[t].at = "app" /\ ~ui.tab[t].loading
  /\ Counts
  /\ Load(ui, t, "app")
  /\ UNCHANGED <<page, server, faults>>

\* /auth/me is never refreshed: without an access token the tab is signed out.
MeAnswered(c) ==
  /\ c.op = "me" /\ c.at # "out"
  /\ LET t == c.inst IN
       IF c.at = "ok"
         THEN /\ ui' = [ui EXCEPT !.tab[t] = [at |-> "app", user |-> TRUE, loading |-> FALSE]]
              /\ Ends(c) /\ UNCHANGED clean
       ELSE IF c.at = "denied" /\ ui.tab[t].at = "app"
         THEN Load(ui, t, "login")
       ELSE /\ ui' = [ui EXCEPT !.tab[t] = [at |-> "login", user |-> FALSE, loading |-> FALSE]]
            /\ Ends(c) /\ UNCHANGED clean
  /\ UNCHANGED <<page, server, made, faults>>

\* A call of some page, or the form that changes the password.
Send(t, op) ==
  /\ ui.tab[t].user
  /\ Counts
  /\ calls' = calls \cup {Ask(t, op)}
  /\ UNCHANGED <<page, server, ui, faults, clean>>

\* With a refresh under way in the tab, the call waits for that one.
Denied(c) ==
  /\ c.op \in {"get", "change"} /\ c.at = "denied" /\ c.step = 1
  /\ c.inst # None
  /\ calls' = (calls \ {c}) \cup {[c EXCEPT !.at = "wait"]}
              \cup IF Refreshing(c.inst) THEN {} ELSE {Ask(c.inst, "refresh")}
  /\ UNCHANGED <<page, server, ui, made, faults, clean>>

Waiters(t) == {c \in calls : c.inst = t /\ c.at = "wait"}

\* The calls that waited go out again, with the new cookies; the tab may have
\* been signed out while they waited, and another one may have signed in.
Refreshed(c) ==
  /\ c.op = "refresh" /\ c.at = "ok" /\ c.inst # None
  /\ ui' = Store(ui, c, c.answer)
  /\ calls' = (calls \ ({c} \cup Waiters(c.inst)))
              \cup {[d EXCEPT !.at = "out", !.step = 2, !.value = c.answer.access,
                              !.prev = c.answer.refresh] : d \in Waiters(c.inst)}
  /\ clean' = (clean /\ ui.tab[c.inst].user)
  /\ UNCHANGED <<page, server, made, faults>>

\* The calls that waited fail, and the tab goes to the login page.
NotRefreshed(c) ==
  /\ c.op = "refresh" /\ c.at \in {"no", "denied", "reused"} /\ c.inst # None
  /\ LET u == IF c.at = "reused" THEN Store(ui, c, NoCookies) ELSE ui
     IN IF ui.tab[c.inst].at = "app"
          THEN Load(u, c.inst, "login")
          ELSE ui' = u /\ calls' = calls \ ({c} \cup Waiters(c.inst)) /\ UNCHANGED clean
  /\ UNCHANGED <<page, server, made, faults>>

\* The second time a call is denied, it fails without more.
Done(c) ==
  /\ c.op \in {"get", "change"} /\ c.at \in {"ok", "no", "denied"} /\ c.inst # None
  /\ c.at = "denied" => c.step = 2
  /\ ui' = IF c.op = "change" /\ c.at = "ok" THEN Store(ui, c, c.answer) ELSE ui
  /\ Ends(c)
  /\ UNCHANGED <<page, server, made, faults, clean>>

LogIn(t) ==
  /\ ui.tab[t].at = "login" /\ ~ui.tab[t].loading
  /\ ~Waiting(t, {"login"})
  /\ Counts
  /\ calls' = calls \cup {Ask(t, "login")}
  /\ UNCHANGED <<page, server, ui, faults, clean>>

LoggedIn(c) ==
  /\ c.op = "login" /\ c.at \in {"ok", "no"} /\ c.inst # None
  /\ ui' = IF c.at = "no" THEN ui
           ELSE [Store(ui, c, c.answer) EXCEPT !.tab[c.inst] = [at |-> "app", user |-> TRUE, loading |-> FALSE]]
  /\ Ends(c)
  /\ UNCHANGED <<page, server, made, faults, clean>>

LogOut(t) ==
  /\ ui.tab[t].user /\ ~Waiting(t, {"logout"})
  /\ Counts
  /\ calls' = calls \cup {Ask(t, "logout")}
  /\ clean' = (clean /\ ~\E c \in calls : c.op \in Sets)
  /\ UNCHANGED <<page, server, ui, faults>>

\* An error is ignored; the cookies stay then.
LoggedOut(c) ==
  /\ c.op = "logout" /\ c.at \in {"ok", "no"} /\ c.inst # None
  /\ LET u == IF c.at = "ok" THEN Store(ui, c, c.answer) ELSE ui
     IN ui' = [u EXCEPT !.tab[c.inst] = [at |-> "login", user |-> FALSE, loading |-> FALSE]]
  /\ Ends(c)
  /\ clean' = (clean /\ c.at = "ok" /\ ~\E d \in calls : d.op \in Sets)
  /\ UNCHANGED <<page, server, made, faults>>

\* An answer to a page that is gone may still set the cookies.
Orphaned(c) ==
  /\ c.inst = None /\ c.at # "out"
  /\ \/ c.answer # None /\ ui' = Store(ui, c, c.answer)
     \/ UNCHANGED ui
  /\ Ends(c)
  /\ UNCHANGED <<page, server, made, faults, clean>>

-----------------------------------------------------------------------------
(* The server                                                              *)

\* An access token expires, and its cookie with it.
Expire(j) ==
  /\ ui.jar[j].access # None
  /\ ui' = [ui EXCEPT !.jar[j].access = None]
  /\ UNCHANGED <<page, server, calls, made, faults, clean>>

\* Thirty seconds pass.
GraceEnds ==
  /\ \E i \in DOMAIN server.tokens : server.tokens[i] = "recent"
  /\ server' = [server EXCEPT !.tokens = [i \in DOMAIN @ |-> IF @[i] = "live" THEN "live" ELSE "old"]]
  /\ clean' = (clean /\ ~InFlight)
  /\ UNCHANGED <<page, ui, calls, made, faults>>

Revoked(tokens) == [i \in DOMAIN tokens |-> IF tokens[i] = "live" THEN "recent" ELSE tokens[i]]

\* A new pair of tokens, given that the server is s by now.
Issues(s, c) ==
  /\ server' = [s EXCEPT !.tokens = Append(@, "live")]
  /\ Answered(c, [access |-> s.version, refresh |-> Len(s.tokens) + 1])

\* Mutant: there is no time of grace.
RefreshWithoutGrace(c) ==
  CASE c.prev = None -> Denies(c, "denied") /\ UNCHANGED server
    [] c.prev \in Live ->
         Issues([server EXCEPT !.tokens[c.prev] = "recent"], c)
    [] OTHER ->
         /\ Denies(c, "reused")
         /\ server' = [server EXCEPT !.tokens = Revoked(@), !.alarm = TRUE]

\* The token is claimed by one exchange; who comes too late within the time of
\* grace is turned away, and later it is taken for a thief.
ServeRefresh(c) ==
  CASE c.prev = None -> Denies(c, "denied") /\ UNCHANGED server
    [] c.prev \in Live ->
         Issues([server EXCEPT !.tokens[c.prev] = "recent"], c)
    [] c.prev \notin Live \cup {None} /\ server.tokens[c.prev] = "recent" ->
         Denies(c, "denied") /\ UNCHANGED server
    [] OTHER ->
         /\ Denies(c, "reused")
         /\ server' = [server EXCEPT !.tokens = Revoked(@), !.alarm = TRUE]

\* All refresh tokens are revoked, and the browser that changed the password
\* gets a new one.
ServeChange(c) ==
  /\ c.value = server.version
  /\ Issues([server EXCEPT !.version = @ + 1, !.tokens = Revoked(@)], c)
  /\ clean' = (clean /\ Cardinality(Live \cup {d.prev : d \in calls}) < 2)

\* Mutant: logging out leaves the cookies.
LogOutKeepingCookies(c) ==
  /\ Answered(c, [access |-> c.value, refresh |-> c.prev])
  /\ server' = IF c.prev = None THEN server
               ELSE [server EXCEPT !.tokens[c.prev] = "recent"]

ServeLogOut(c) ==
  /\ Answered(c, NoCookies)
  /\ server' = IF c.prev = None THEN server
               ELSE [server EXCEPT !.tokens[c.prev] = "recent"]

Serve(c) ==
  /\ c.at = "out"
  /\ CASE c.op = "refresh" -> ServeRefresh(c) /\ UNCHANGED clean
       [] c.op = "logout" -> ServeLogOut(c) /\ UNCHANGED clean
       [] c.op = "login" -> Issues(server, c) /\ UNCHANGED clean
       [] c.op = "change" /\ c.value = server.version -> ServeChange(c)
       [] c.op \in {"get", "me"} /\ c.value = server.version ->
            Answered(c, None) /\ UNCHANGED <<server, clean>>
       [] OTHER -> Denies(c, "denied") /\ UNCHANGED <<server, clean>>
  /\ UNCHANGED <<page, ui, made, faults>>

\* A request or an answer is lost.
Lose(c) ==
  /\ c.at \in {"out", "ok"}
  /\ Fault(c)
  /\ clean' = (clean /\ (c.op = "get" \/ (c.at = "out" /\ c.op # "me")))
  /\ UNCHANGED <<page, server, ui, made>>

-----------------------------------------------------------------------------
Next ==
  \/ GraceEnds
  \/ \E j \in DOMAIN ui.jar : Expire(j)
  \/ \E t \in Tab :
       Reload(t) \/ Send(t, "get") \/ Send(t, "change") \/ LogIn(t) \/ LogOut(t)
  \/ \E c \in calls :
       \/ MeAnswered(c) \/ Denied(c) \/ Refreshed(c) \/ NotRefreshed(c) \/ Done(c)
       \/ LoggedIn(c) \/ LoggedOut(c) \/ Orphaned(c) \/ Serve(c) \/ Lose(c)

Spec == Init /\ [][Next]_vars

-----------------------------------------------------------------------------
(* Properties                                                              *)

Cookie == Nat \cup {None}

\* Every variable keeps its type.
TypeOK ==
  /\ page = "session"
  /\ server.tokens \in Seq({"live", "recent", "old"})
  /\ server.version \in Nat /\ server.alarm \in BOOLEAN
  /\ \A t \in Tab : ui.of[t] \in DOMAIN ui.jar
  /\ \A j \in DOMAIN ui.jar : ui.jar[j] \in [access : Cookie, refresh : Cookie]
  /\ ui.tab \in [Tab -> [at : {"app", "login"}, user : BOOLEAN, loading : BOOLEAN]]
  /\ \A c \in calls : c.inst \in Tab \cup {None} /\ c.step \in 1..2
  /\ made \in 0..MaxCalls[page] /\ faults \in 0..MaxFaults
  /\ clean \in BOOLEAN

\* The browsers of an account do not raise the alarm of a stolen token by
\* themselves, however many tabs refresh at a time, unless the answer that set
\* a cookie was lost, a refresh took longer than the time of grace, or a
\* password changed while the account had another session (clean).
NoFalseAlarm == clean => ~server.alarm

\* When nothing is under way, a browser with no tab signed in holds no access
\* token that the server takes, unless a logout crossed another answer that sets
\* cookies, or an answer was lost or came to a tab that was gone or signed out
\* by then (clean).
SignedOutIsOut ==
  \A j \in DOMAIN ui.jar :
    clean /\ calls = {} /\ (\A t \in Tab : ui.of[t] = j => ~ui.tab[t].user)
      => ui.jar[j].access # server.version

\* A call waits for a refresh only while there is one.
NoStuckCall == \A c \in calls : c.at = "wait" => Refreshing(c.inst)
=============================================================================
