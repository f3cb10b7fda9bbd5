------------------------ MODULE ClientServer_proofs ------------------------
(***************************************************************************)
(* Proofs about Client, continued: what a page shows and holds against     *)
(* what the server has, for any number of tabs, calls and things.  A       *)
(* browser in which nobody is signed in can do nothing in anybody's name,  *)
(* no stolen token is suspected, status, flags and the boxes of a checklist*)
(* settle, once everything is answered a page shows what there is, and every*)
(* variable keeps the type that the page gives it.                         *)
(*                                                                         *)
(* The argument for the alarm: a refresh token that a browser holds is     *)
(* live, or was exchanged by a call whose answer is still to come and will *)
(* replace it; so no token that is taken to the server can have been used  *)
(* up before the time of grace.  Nobody else brings it, as every token     *)
(* belongs to one browser, and the token of an answer to nobody yet.       *)
(*                                                                         *)
(* The argument for signing out: while the access token of a browser is    *)
(* good, one of its tabs is signed in or is being loaded and asks with     *)
(* that token who is there.                                                *)
(*                                                                         *)
(* The argument for a status: what a dialog shows is what its last write   *)
(* will make it, or else what the server has; and what a refused write     *)
(* goes back to is shown for an earlier one, or there for good.            *)
(*                                                                         *)
(* The argument for a box: what the newest load brought is the server's    *)
(* but for the boxes that were turned over since, whose handlers load      *)
(* again; so a click while nothing loads asks for the opposite of what     *)
(* the server has.                                                         *)
(*                                                                         *)
(* The argument for a page: at any time what it shows is what the server   *)
(* has, or a fetch of it failed, or one is under way that has not been     *)
(* carried out, or a change was carried out whose handler will fetch.      *)
(***************************************************************************)
EXTENDS Client_proofs

-----------------------------------------------------------------------------
(* Tokens                                                                  *)

-----------------------------------------------------------------------------
(* Shape                                                                   *)

LEMMA ShapeStays ==
  ASSUME SessionShape, server' \in Servers, ui' \in Uis, ui'.of = ui.of,
         \A c \in calls' : GoodCall(c), made' \in Nat
  PROVE  SessionShape' /\ Jar' = Jar
  BY DEF Uis, Jar, SessionCalls, GoodCall, Stores, SessionShape, Servers

\* The cookies of a browser are set.
LEMMA StoreShape ==
  ASSUME SessionShape, NEW c \in calls, NEW cookies \in Pair
  PROVE  /\ Browser!Store(ui, c, cookies) \in Uis
         /\ Browser!Store(ui, c, cookies).of = ui.of
         /\ Browser!Store(ui, c, cookies).tab = ui.tab
         /\ Browser!Store(ui, c, cookies).jar = [ui.jar EXCEPT ![c.item] = cookies]
  BY DEF SessionShape, GoodCall, SessionCalls, Uis, Browser!Store

\* The state of a tab changes.
LEMMA TabShape ==
  ASSUME NEW u \in Uis, NEW t \in Item, NEW s \in TabState
  PROVE  /\ [u EXCEPT !.tab[t] = s] \in Uis
         /\ [u EXCEPT !.tab[t] = s].of = u.of
         /\ [u EXCEPT !.tab[t] = s].jar = u.jar
         /\ [u EXCEPT !.tab[t] = s].tab = [u.tab EXCEPT ![t] = s]
  BY DEF Uis

\* A call is answered, or sent again.
LEMMA ReplyShape ==
  ASSUME SessionShape, NEW c \in calls, NEW d \in SessionCalls,
         d.inst = c.inst, d.op = c.op, d.item = c.item, Stores(d) => d.answer \in Pair
  PROVE  GoodCall(d)
  BY DEF SessionShape, GoodCall

LEMMA AskShape ==
  ASSUME SessionShape, NEW t \in Item, NEW op \in SessionOps
  PROVE  /\ ui.of[t] \in Jar /\ ui.jar[ui.of[t]] \in Pair
         /\ GoodCall(Browser!Ask(t, op))
         /\ Browser!Ask(t, op) =
              [id |-> made, inst |-> t, item |-> ui.of[t], op |-> op,
               value |-> ui.jar[ui.of[t]].access, prev |-> ui.jar[ui.of[t]].refresh,
               step |-> 1, at |-> "out", answer |-> None]
  BY DEF SessionShape, Uis, Pair, Browser!Ask, Browser!Call, Browser!Cookies, SessionCalls, Some,
     GoodCall, Stores

\* A tab is loaded.
LEMMA LoadShape ==
  ASSUME SessionShape, NEW u \in Uis, u.of = ui.of, NEW t \in Item, NEW at \in {"app", "login"},
         Browser!Load(u, t, at)
  PROVE  /\ ui' \in Uis /\ ui'.of = ui.of /\ ui'.jar = u.jar
         /\ ui'.tab = [u.tab EXCEPT ![t] = [at |-> at, user |-> FALSE, loading |-> TRUE]]
         /\ \A c \in calls' : GoodCall(c)
<1>1. [at |-> at, user |-> FALSE, loading |-> TRUE] \in TabState
  BY DEF TabState
<1>2. ASSUME NEW c \in Browser!Orphans(t) PROVE GoodCall([c EXCEPT !.inst = None])
  BY DEF Browser!Orphans, SessionShape, GoodCall, SessionCalls, Some, Browser!Sets, Stores
<1>3. GoodCall([Browser!Ask(t, "me") EXCEPT !.value = u.jar[u.of[t]].access])
  <2>1. u.jar[u.of[t]] \in Pair
    BY DEF Uis
  <2>2. u.jar[u.of[t]].access \in Some(Nat)
    BY <2>1 DEF Pair
  <2> DEFINE ask == Browser!Ask(t, "me")
  <2>3. /\ GoodCall(ask) /\ ask.at = "out" /\ ask \in SessionCalls
    BY AskShape DEF SessionOps, GoodCall
  <2> USE <2>3
  <2> HIDE DEF ask
  <2>4. [ask EXCEPT !.value = u.jar[u.of[t]].access] \in SessionCalls
    BY <2>2 DEF SessionCalls
  <2>5. /\ [ask EXCEPT !.value = u.jar[u.of[t]].access].inst = ask.inst
        /\ [ask EXCEPT !.value = u.jar[u.of[t]].access].item = ask.item
        /\ [ask EXCEPT !.value = u.jar[u.of[t]].access].op = ask.op
        /\ [ask EXCEPT !.value = u.jar[u.of[t]].access].at = ask.at
    BY DEF SessionCalls
  <2>6. GoodCall([ask EXCEPT !.value = u.jar[u.of[t]].access])
    BY <2>4, <2>5 DEF GoodCall, Stores
  <2> QED
    BY <2>6 DEF ask
<1>4. \A c \in calls : GoodCall(c)
  BY DEF SessionShape
<1>5. \A c \in calls' : GoodCall(c)
  BY <1>2, <1>3, <1>4 DEF Browser!Load
<1>6. ui' = [u EXCEPT !.tab[t] = [at |-> at, user |-> FALSE, loading |-> TRUE]]
  BY DEF Browser!Load
<1> QED
  BY <1>1, <1>5, <1>6, TabShape, Zenon

\* The tokens of the server, whatever happens to them.
LEMMA TokensShape ==
  ASSUME NEW tokens \in Seq(Ages)
  PROVE  /\ DOMAIN tokens = 1..Len(tokens) /\ Len(tokens) \in Nat
         /\ Append(tokens, "live") \in Seq(Ages)
         /\ Len(Append(tokens, "live")) = Len(tokens) + 1
         /\ \A i \in 1..Len(tokens) : Append(tokens, "live")[i] = tokens[i]
         /\ Append(tokens, "live")[Len(tokens) + 1] = "live"
         /\ Browser!Revoked(tokens) \in Seq(Ages) /\ Len(Browser!Revoked(tokens)) = Len(tokens)
         /\ \A i : \A age \in Ages :
              /\ [tokens EXCEPT ![i] = age] \in Seq(Ages)
              /\ Len([tokens EXCEPT ![i] = age]) = Len(tokens)
         /\ [i \in DOMAIN tokens |-> IF tokens[i] = "live" THEN "live" ELSE "old"] \in Seq(Ages)
         /\ Len([i \in DOMAIN tokens |-> IF tokens[i] = "live" THEN "live" ELSE "old"]) = Len(tokens)
<1>1. Len(tokens) \in Nat /\ DOMAIN tokens = 1..Len(tokens) /\ \A i \in 1..Len(tokens) : tokens[i] \in Ages
  OBVIOUS
<1> USE <1>1
<1>2. ASSUME NEW s \in [1..Len(tokens) -> Ages]
      PROVE  s \in Seq(Ages) /\ Len(s) = Len(tokens)
  BY SeqDef
<1>3. Browser!Revoked(tokens) \in [1..Len(tokens) -> Ages]
  BY DEF Browser!Revoked, Ages
<1>4. \A i : \A age \in Ages : [tokens EXCEPT ![i] = age] \in [1..Len(tokens) -> Ages]
  BY Zenon
<1>5. [i \in DOMAIN tokens |-> IF tokens[i] = "live" THEN "live" ELSE "old"] \in [1..Len(tokens) -> Ages]
  BY DEF Ages
<1>6. "live" \in Ages
  BY DEF Ages
<1>7. /\ Append(tokens, "live") \in Seq(Ages)
      /\ Len(Append(tokens, "live")) = Len(tokens) + 1
      /\ \A i \in 1..Len(tokens) : Append(tokens, "live")[i] = tokens[i]
      /\ Append(tokens, "live")[Len(tokens) + 1] = "live"
  BY <1>6
<1> QED
  BY <1>2, <1>3, <1>4, <1>5, <1>7

\* The page's notion of cardinality is the usual one.
LEMMA SameCardinality == ASSUME NEW S PROVE Browser!Cardinality(S) = Cardinality(S)
  BY DEF Browser!Cardinality, Cardinality

\* A finite set can be numbered.
LEMMA Numbering ==
  ASSUME NEW S, IsFiniteSet(S)
  PROVE  /\ Browser!Cardinality(S) \in Nat
         /\ \E f \in [S -> 1..Browser!Cardinality(S)] : \A j, k \in S : f[j] = f[k] => j = k
<1>1. Browser!Cardinality(S) \in Nat /\ ExistsBijection(1..Browser!Cardinality(S), S)
  BY FS_CardinalityType, SameCardinality
<1>2. PICK b \in [1..Browser!Cardinality(S) -> S] : \A s \in S : \E i \in 1..Browser!Cardinality(S) : b[i] = s
  BY <1>1 DEF ExistsBijection, Bijection, Surjection
<1> DEFINE f == [s \in S |-> CHOOSE i \in 1..Browser!Cardinality(S) : b[i] = s]
<1>3. \A s \in S : f[s] \in 1..Browser!Cardinality(S) /\ b[f[s]] = s
  BY <1>2
<1>4. f \in [S -> 1..Browser!Cardinality(S)]
  BY <1>3
<1>5. \A j, k \in S : f[j] = f[k] => j = k
  BY <1>3
<1> QED
  BY <1>1, <1>4, <1>5, Zenon

\* What a browser holds at first.
LEMMA FirstTokens ==
  ASSUME NEW S, IsFiniteSet(S),
         NEW token, token = CHOOSE f \in [S -> 1..Browser!Cardinality(S)] :
                              \A j, k \in S : f[j] = f[k] => j = k
  PROVE  /\ token \in [S -> 1..Browser!Cardinality(S)]
         /\ \A j, k \in S : token[j] = token[k] => j = k
         /\ Browser!Cardinality(S) \in Nat
         /\ [i \in 1..Browser!Cardinality(S) |-> "live"] \in Seq(Ages)
         /\ Len([i \in 1..Browser!Cardinality(S) |-> "live"]) = Browser!Cardinality(S)
  BY Numbering, SeqDef DEF Ages

LEMMA SessionStarts == Browser!Init => SessionInv
<1> SUFFICES ASSUME Browser!Init PROVE SessionInv
  OBVIOUS
<1>1. PICK first \in Item :
        \E of \in {[t \in Item |-> first], [t \in Item |-> t]} :
          LET jars == {of[t] : t \in Item}
              token == CHOOSE f \in [jars -> 1..Browser!Cardinality(jars)] :
                         \A j, k \in jars : f[j] = f[k] => j = k
          IN /\ server = [tokens |-> [i \in 1..Browser!Cardinality(jars) |-> "live"],
                          version |-> 0, alarm |-> FALSE]
             /\ ui = [of |-> of,
                      jar |-> [j \in jars |-> [access |-> 0, refresh |-> token[j]]],
                      tab |-> [t \in Item |-> [at |-> "app", user |-> TRUE, loading |-> FALSE]]]
  BY Zenon DEF Browser!Init
<1>2. PICK of \in {[t \in Item |-> first], [t \in Item |-> t]} :
          LET jars == {of[t] : t \in Item}
              token == CHOOSE f \in [jars -> 1..Browser!Cardinality(jars)] :
                         \A j, k \in jars : f[j] = f[k] => j = k
          IN /\ server = [tokens |-> [i \in 1..Browser!Cardinality(jars) |-> "live"],
                          version |-> 0, alarm |-> FALSE]
             /\ ui = [of |-> of,
                      jar |-> [j \in jars |-> [access |-> 0, refresh |-> token[j]]],
                      tab |-> [t \in Item |-> [at |-> "app", user |-> TRUE, loading |-> FALSE]]]
  BY <1>1, Zenon
<1> DEFINE jars == {of[t] : t \in Item}
           token == CHOOSE f \in [jars -> 1..Browser!Cardinality(jars)] :
                      \A j, k \in jars : f[j] = f[k] => j = k
           tokens == [i \in 1..Browser!Cardinality(jars) |-> "live"]
<1>3. /\ server = [tokens |-> tokens, version |-> 0, alarm |-> FALSE]
      /\ ui = [of |-> of, jar |-> [j \in jars |-> [access |-> 0, refresh |-> token[j]]],
               tab |-> [t \in Item |-> [at |-> "app", user |-> TRUE, loading |-> FALSE]]]
  BY <1>2
<1>4. jars \subseteq Item /\ of \in [Item -> jars] /\ \A j \in jars : \E t \in Item : of[t] = j
  OBVIOUS
<1>5. IsFiniteSet(jars)
  BY <1>4, FS_Subset, ItemsAreFinite
<1> HIDE DEF jars
<1>6. /\ token \in [jars -> 1..Browser!Cardinality(jars)]
      /\ \A j, k \in jars : token[j] = token[k] => j = k
      /\ Browser!Cardinality(jars) \in Nat
      /\ tokens \in Seq(Ages) /\ Len(tokens) = Browser!Cardinality(jars)
  BY <1>5, FirstTokens, Zenon
<1>7. \A i \in 1..Browser!Cardinality(jars) : tokens[i] = "live"
  OBVIOUS
<1> HIDE DEF token, tokens
<1>8. calls = {} /\ made = 0 /\ clean
  BY DEF Browser!Init
<1> USE <1>8
<1>9. /\ Jar = jars /\ ui.of = of /\ server.tokens = tokens /\ server.version = 0 /\ ~server.alarm
      /\ \A j \in jars : ui.jar[j].access = 0 /\ ui.jar[j].refresh = token[j]
      /\ \A t \in Item : ui.tab[t].user /\ ~ui.tab[t].loading
  BY <1>3 DEF Jar
<1> USE <1>9
<1>10. SessionShape
  BY <1>3, <1>6, <1>4 DEF Servers, Pair, Some, TabState, Uis, SessionShape
<1>11. TabsAsk
  BY DEF TabsAsk
<1>12. AccessInv
  BY <1>4 DEF AccessInv, AtMost, Claimed
<1>13. Owned
  BY <1>6 DEF tokens, Owned, Token
<1>14. Fresh
  BY <1>6, <1>7 DEF tokens, Browser!Live, Fresh
<1>15. IsFiniteSet(calls)
  BY FS_EmptySet
<1> QED
  BY <1>10, <1>11, <1>12, <1>13, <1>14, <1>15 DEF SessionInv

\* A call is answered.
LEMMA DeniesShape ==
  ASSUME SessionShape, NEW c \in calls, NEW at \in {"no", "denied", "reused", "wait"}
  PROVE  [c EXCEPT !.at = at] \in SessionCalls /\ GoodCall([c EXCEPT !.at = at])
  BY ReplyShape DEF SessionShape, GoodCall, SessionCalls, Stores

LEMMA AnsweredShape ==
  ASSUME SessionShape, NEW c \in calls, NEW at \in {"ok", "no"}, NEW what \in Pair \cup {None},
         c.op \in {"get", "me"} \/ at = "no" \/ what \in Pair
  PROVE  GoodCall([c EXCEPT !.at = at, !.answer = what])
<1>1. c \in SessionCalls
  BY DEF SessionShape, GoodCall
<1> DEFINE d == [c EXCEPT !.at = at, !.answer = what]
<1>2. d \in SessionCalls
  BY <1>1, Zenon DEF SessionCalls
<1>3. d.inst = c.inst /\ d.item = c.item /\ d.op = c.op /\ d.at = at /\ d.answer = what
  BY <1>1 DEF SessionCalls
<1> HIDE DEF d
<1>4. Stores(d) => d.answer \in Pair
  BY <1>3 DEF Stores, Browser!Sets
<1>5. GoodCall(d)
  BY <1>2, <1>3, <1>4, ReplyShape
<1> QED
  BY <1>5 DEF d

\* A pair of tokens is issued.
LEMMA IssuesShape ==
  ASSUME SessionShape, NEW s \in Servers, NEW c \in calls, Browser!Issues(s, c)
  PROVE  /\ server' \in Servers
         /\ server' = [s EXCEPT !.tokens = Append(s.tokens, "live")]
         /\ [access |-> s.version, refresh |-> Len(s.tokens) + 1] \in Pair
         /\ calls' = (calls \ {c}) \cup
                     {[c EXCEPT !.at = "ok", !.answer = [access |-> s.version, refresh |-> Len(s.tokens) + 1]]}
         /\ \A d \in calls' : GoodCall(d)
<1>1. s.tokens \in Seq(Ages) /\ s.version \in Nat
  BY DEF Servers
<1>2. server' = [s EXCEPT !.tokens = Append(s.tokens, "live")]
  BY DEF Browser!Issues
<1>3. Append(s.tokens, "live") \in Seq(Ages) /\ Len(s.tokens) \in Nat
  BY <1>1, TokensShape, Zenon
<1>4. server' \in Servers
  BY <1>2, <1>3, Zenon DEF Servers
<1>5. [access |-> s.version, refresh |-> Len(s.tokens) + 1] \in Pair
  BY <1>1, <1>3 DEF Pair, Some
<1>6. calls' = (calls \ {c}) \cup
               {[c EXCEPT !.at = "ok", !.answer = [access |-> s.version, refresh |-> Len(s.tokens) + 1]]}
  BY DEF Browser!Issues, Browser!Answered, Browser!Replace
<1>7. GoodCall([c EXCEPT !.at = "ok", !.answer = [access |-> s.version, refresh |-> Len(s.tokens) + 1]])
  BY <1>5, AnsweredShape, Zenon
<1> QED
  BY <1>2, <1>4, <1>5, <1>6, <1>7 DEF SessionShape

\* What the server can do with a call.
LEMMA ServeCases ==
  ASSUME NEW c \in calls, Browser!Serve(c)
  PROVE  \/ /\ calls' = (calls \ {c}) \cup {[c EXCEPT !.at = "denied"]}
            /\ server' = server
            /\ c.op \in {"get", "me"} => c.value # server.version
         \/ /\ c.op = "refresh" /\ c.prev # None
            /\ c.prev \notin Browser!Live /\ server.tokens[c.prev] # "recent"
            /\ calls' = (calls \ {c}) \cup {[c EXCEPT !.at = "reused"]}
            /\ server' = [server EXCEPT !.tokens = Browser!Revoked(server.tokens), !.alarm = TRUE]
         \/ /\ c.op = "refresh" /\ c.prev \in Browser!Live
            /\ Browser!Issues([server EXCEPT !.tokens[c.prev] = "recent"], c)
         \/ /\ c.op = "logout"
            /\ calls' = (calls \ {c}) \cup {[c EXCEPT !.at = "ok", !.answer = Browser!NoCookies]}
            /\ server' = IF c.prev = None THEN server
                         ELSE [server EXCEPT !.tokens[c.prev] = "recent"]
         \/ c.op = "login" /\ Browser!Issues(server, c)
         \/ c.op = "change" /\ Browser!ServeChange(c)
         \/ /\ c.op \in {"get", "me"} /\ c.value = server.version
            /\ calls' = (calls \ {c}) \cup {[c EXCEPT !.at = "ok", !.answer = None]}
            /\ server' = server
  BY DEF Browser!Serve, Browser!ServeRefresh, Browser!Denies, Browser!Replace,
     Browser!ServeLogOut, Browser!Answered

LEMMA ServeShape ==
  ASSUME SessionShape, NEW c \in calls, Browser!Serve(c)
  PROVE  server' \in Servers /\ \A d \in calls' : GoodCall(d)
<1>1. \A d \in calls : GoodCall(d)
  BY DEF SessionShape
<1>2. server \in Servers /\ server.tokens \in Seq(Ages)
  BY DEF SessionShape, Servers
<1> USE <1>2
<1>3. "recent" \in Ages /\ Browser!Revoked(server.tokens) \in Seq(Ages)
      /\ \A i : [server.tokens EXCEPT ![i] = "recent"] \in Seq(Ages)
  BY TokensShape, Zenon DEF Ages
<1>4. \A i : [server EXCEPT !.tokens[i] = "recent"] \in Servers
  BY <1>3, Zenon DEF Servers
<1>5. Browser!NoCookies \in Pair
  BY DEF Browser!NoCookies, Pair, Some
<1>6. /\ GoodCall([c EXCEPT !.at = "denied"])
      /\ GoodCall([c EXCEPT !.at = "reused"])
      /\ GoodCall([c EXCEPT !.at = "ok", !.answer = Browser!NoCookies])
      /\ c.op \in {"get", "me"} => GoodCall([c EXCEPT !.at = "ok", !.answer = None])
  BY <1>5, DeniesShape, AnsweredShape, Zenon
<1>7. [server EXCEPT !.tokens = Browser!Revoked(server.tokens), !.alarm = TRUE] \in Servers
  BY <1>3, Zenon DEF Servers
<1>8. \A s \in Servers : Browser!Issues(s, c) => server' \in Servers /\ \A d \in calls' : GoodCall(d)
  BY IssuesShape, Zenon
<1>9. Browser!ServeChange(c) => \E s \in Servers : Browser!Issues(s, c)
  <2>1. [server EXCEPT !.version = server.version + 1, !.tokens = Browser!Revoked(server.tokens)] \in Servers
    <3>1. server.version + 1 \in Nat
      BY DEF Servers
    <3> QED
      BY <1>3, <3>1 DEF Servers
  <2> QED
    BY <2>1 DEF Browser!ServeChange
<1> QED
  BY <1>1, <1>4, <1>6, <1>7, <1>8, <1>9, ServeCases, Zenon

\* Whatever happens, everything keeps its shape, and there are the same browsers.
LEMMA ShapeSteps ==
  ASSUME SessionShape, Browser!Next
  PROVE  SessionShape' /\ Jar' = Jar /\ ui'.of = ui.of
<1>1. \A c \in calls : GoodCall(c) /\ c \in SessionCalls
  BY DEF SessionShape, GoodCall
<1>2. made \in Nat /\ server \in Servers /\ ui \in Uis
  BY DEF SessionShape
<1>3. \A t \in Item : \A op \in SessionOps : GoodCall(Browser!Ask(t, op))
  BY AskShape
<1>4. Browser!NoCookies \in Pair
  BY DEF Browser!NoCookies, Pair, Some
<1>5. ASSUME ui' \in Uis, ui'.of = ui.of, server' \in Servers, made' \in Nat,
             \A c \in calls' : GoodCall(c)
      PROVE  SessionShape' /\ Jar' = Jar /\ ui'.of = ui.of
  BY <1>5, ShapeStays
<1>6. CASE Browser!GraceEnds
  <2>1. [i \in DOMAIN server.tokens |-> IF server.tokens[i] = "live" THEN "live" ELSE "old"] \in Seq(Ages)
    BY <1>2, TokensShape DEF Servers
  <2>2. server' \in Servers
    BY <1>2, <1>6, <2>1, Zenon DEF Browser!GraceEnds, Servers
  <2> QED
    BY <1>1, <1>2, <1>5, <1>6, <2>2 DEF Browser!GraceEnds
<1>7. ASSUME NEW j \in Jar, Browser!Expire(j) PROVE SessionShape' /\ Jar' = Jar /\ ui'.of = ui.of
  <2>1. ui' = [ui EXCEPT !.jar[j].access = None]
    BY <1>7 DEF Browser!Expire
  <2>2. ui.jar[j] \in Pair /\ [ui.jar[j] EXCEPT !.access = None] \in Pair
    BY <1>2 DEF Uis, Pair, Some
  <2>3. ui' \in Uis /\ ui'.of = ui.of
    BY <1>2, <2>1, <2>2 DEF Uis
  <2> QED
    BY <1>1, <1>2, <1>5, <1>7, <2>3 DEF Browser!Expire
<1>8. ASSUME NEW t \in Item, Browser!Reload(t) PROVE SessionShape' /\ Jar' = Jar /\ ui'.of = ui.of
  <2>1. ui' \in Uis /\ ui'.of = ui.of /\ \A c \in calls' : GoodCall(c)
    BY <1>2, <1>8, LoadShape, Zenon DEF Browser!Reload
  <2> QED
    BY <1>2, <1>5, <1>8, <2>1 DEF Browser!Reload, Browser!Counts
<1>9. ASSUME NEW t \in Item, NEW op \in SessionOps, calls' = calls \cup {Browser!Ask(t, op)},
             server' = server, ui' = ui, made' = made + 1
      PROVE  SessionShape' /\ Jar' = Jar /\ ui'.of = ui.of
  BY <1>1, <1>2, <1>3, <1>5, <1>9
<1>10. ASSUME NEW t \in Item,
              \/ Browser!Send(t, "get") \/ Browser!Send(t, "change")
              \/ Browser!LogIn(t) \/ Browser!LogOut(t)
       PROVE  SessionShape' /\ Jar' = Jar /\ ui'.of = ui.of
  BY <1>9, <1>10
     DEF Browser!Send, Browser!LogIn, Browser!LogOut, Browser!Counts, SessionOps
<1>11. ASSUME NEW c \in calls, Browser!MeAnswered(c)
       PROVE  SessionShape' /\ Jar' = Jar /\ ui'.of = ui.of
  <2> USE <1>11
  <2> DEFINE in == [at |-> "app", user |-> TRUE, loading |-> FALSE]
             out == [at |-> "login", user |-> FALSE, loading |-> FALSE]
  <2>1. in \in TabState /\ out \in TabState
    BY DEF TabState
  <2>2. \/ Browser!Load(ui, c.inst, "login")
        \/ /\ ui' = [ui EXCEPT !.tab[c.inst] = in] \/ ui' = [ui EXCEPT !.tab[c.inst] = out]
           /\ calls' = calls \ {c}
    BY DEF Browser!MeAnswered, Browser!Ends
  <2>3. c.inst \in Item
    BY <1>1 DEF GoodCall, Browser!MeAnswered
  <2> HIDE DEF in, out
  <2>4. Browser!Load(ui, c.inst, "login") =>
          ui' \in Uis /\ ui'.of = ui.of /\ \A d \in calls' : GoodCall(d)
    BY <1>2, <2>3, LoadShape, Zenon
  <2>5. /\ [ui EXCEPT !.tab[c.inst] = in] \in Uis /\ [ui EXCEPT !.tab[c.inst] = in].of = ui.of
        /\ [ui EXCEPT !.tab[c.inst] = out] \in Uis /\ [ui EXCEPT !.tab[c.inst] = out].of = ui.of
    BY <1>2, <2>1, <2>3, TabShape
  <2>6. ui' \in Uis /\ ui'.of = ui.of /\ \A d \in calls' : GoodCall(d)
    BY <1>1, <2>2, <2>4, <2>5, Zenon
  <2> QED
    BY <1>2, <1>5, <2>6 DEF Browser!MeAnswered
<1>12. ASSUME NEW c \in calls, Browser!Denied(c)
       PROVE  SessionShape' /\ Jar' = Jar /\ ui'.of = ui.of
  <2> USE <1>12
  <2>1. c.inst \in Item /\ GoodCall(Browser!Ask(c.inst, "refresh"))
    BY <1>1, <1>3 DEF Browser!Denied, SessionCalls, Some, SessionOps
  <2>2. \A d \in calls' : GoodCall(d)
    BY <1>1, <2>1, DeniesShape, Zenon DEF Browser!Denied
  <2> QED
    BY <1>2, <1>5, <2>2 DEF Browser!Denied
<1>13. ASSUME NEW c \in calls, Browser!Refreshed(c)
       PROVE  SessionShape' /\ Jar' = Jar /\ ui'.of = ui.of
  <2>1. c.answer \in Pair
    BY <1>1, <1>13, Zenon DEF Browser!Refreshed, GoodCall, Stores, Browser!Sets
  <2>2. ui' \in Uis /\ ui'.of = ui.of
    BY <1>13, <2>1, StoreShape, Zenon DEF Browser!Refreshed
  <2>3. ASSUME NEW d \in Browser!Waiters(c.inst)
        PROVE  GoodCall([d EXCEPT !.at = "out", !.step = 2, !.value = c.answer.access,
                                  !.prev = c.answer.refresh])
    <3> DEFINE e == [d EXCEPT !.at = "out", !.step = 2, !.value = c.answer.access,
                              !.prev = c.answer.refresh]
    <3>1. d \in calls /\ d \in SessionCalls
      BY <1>1 DEF Browser!Waiters
    <3> USE <3>1
    <3>2. c.answer.access \in Some(Nat) /\ c.answer.refresh \in Some(Nat)
      BY <2>1 DEF Pair
    <3>3. e \in SessionCalls
      BY <3>2, Zenon DEF SessionCalls
    <3>4. e.inst = d.inst /\ e.op = d.op /\ e.item = d.item /\ e.at = "out"
      BY DEF SessionCalls
    <3> HIDE DEF e
    <3>5. GoodCall(e)
      BY <3>3, <3>4, ReplyShape DEF Stores
    <3> QED
      BY <3>5 DEF e
  <2>4. \A d \in calls' : GoodCall(d)
    BY <1>1, <1>13, <2>3, Zenon DEF Browser!Refreshed
  <2> QED
    BY <1>2, <1>5, <1>13, <2>2, <2>4, Zenon DEF Browser!Refreshed
<1>14. ASSUME NEW c \in calls, Browser!NotRefreshed(c)
       PROVE  SessionShape' /\ Jar' = Jar /\ ui'.of = ui.of
  <2> USE <1>14
  <2> DEFINE u == IF c.at = "reused" THEN Browser!Store(ui, c, Browser!NoCookies) ELSE ui
  <2>1. u \in Uis /\ u.of = ui.of
    BY <1>2, <1>4, StoreShape, Zenon
  <2>2. c.inst \in Item
    BY <1>1 DEF Browser!NotRefreshed, SessionCalls, Some
  <2>3. \/ Browser!Load(u, c.inst, "login")
        \/ ui' = u /\ calls' = calls \ ({c} \cup Browser!Waiters(c.inst))
    BY DEF Browser!NotRefreshed
  <2> HIDE DEF u
  <2>4. ui' \in Uis /\ ui'.of = ui.of /\ \A d \in calls' : GoodCall(d)
    BY <1>1, <2>1, <2>2, <2>3, LoadShape, Zenon
  <2> QED
    BY <1>2, <1>5, <2>4 DEF Browser!NotRefreshed
<1>15. ASSUME NEW c \in calls, Browser!Done(c)
       PROVE  SessionShape' /\ Jar' = Jar /\ ui'.of = ui.of
  <2>1. c.op = "change" /\ c.at = "ok" => c.answer \in Pair
    BY <1>1 DEF GoodCall, Stores, Browser!Sets
  <2>2. ui' \in Uis /\ ui'.of = ui.of
    BY <1>2, <1>15, <2>1, StoreShape, Zenon DEF Browser!Done
  <2> QED
    BY <1>1, <1>2, <1>5, <1>15, <2>2 DEF Browser!Done, Browser!Ends
<1>16. ASSUME NEW c \in calls, Browser!LoggedIn(c)
       PROVE  SessionShape' /\ Jar' = Jar /\ ui'.of = ui.of
  <2> USE <1>16
  <2>1. c.inst \in Item
    BY <1>1 DEF Browser!LoggedIn, SessionCalls, Some
  <2>2. c.at = "ok" => c.answer \in Pair
    BY <1>1 DEF GoodCall, Stores, Browser!Sets, Browser!LoggedIn
  <2>3. [at |-> "app", user |-> TRUE, loading |-> FALSE] \in TabState
    BY DEF TabState
  <2> DEFINE u == Browser!Store(ui, c, c.answer)
  <2>5. c.at = "ok" => u \in Uis /\ u.of = ui.of
    BY <2>2, StoreShape, Zenon
  <2>6. ui' = IF c.at = "no" THEN ui
              ELSE [u EXCEPT !.tab[c.inst] = [at |-> "app", user |-> TRUE, loading |-> FALSE]]
    BY DEF Browser!LoggedIn
  <2>7. c.at \in {"ok", "no"}
    BY DEF Browser!LoggedIn
  <2> HIDE DEF u
  <2>4. ui' \in Uis /\ ui'.of = ui.of
    BY <1>2, <2>1, <2>3, <2>5, <2>6, <2>7, TabShape
  <2> QED
    BY <1>1, <1>2, <1>5, <2>4 DEF Browser!LoggedIn, Browser!Ends
<1>17. ASSUME NEW c \in calls, Browser!LoggedOut(c)
       PROVE  SessionShape' /\ Jar' = Jar /\ ui'.of = ui.of
  <2> USE <1>17
  <2>1. c.inst \in Item
    BY <1>1 DEF Browser!LoggedOut, SessionCalls, Some
  <2>2. c.at = "ok" => c.answer \in Pair
    BY <1>1 DEF GoodCall, Stores, Browser!LoggedOut
  <2>3. [at |-> "login", user |-> FALSE, loading |-> FALSE] \in TabState
    BY DEF TabState
  <2> DEFINE u == IF c.at = "ok" THEN Browser!Store(ui, c, c.answer) ELSE ui
  <2>4. u \in Uis /\ u.of = ui.of
    BY <1>2, <2>2, StoreShape, Zenon
  <2>5. ui' = [u EXCEPT !.tab[c.inst] = [at |-> "login", user |-> FALSE, loading |-> FALSE]]
    BY DEF Browser!LoggedOut
  <2> HIDE DEF u
  <2>6. ui' \in Uis /\ ui'.of = ui.of
    BY <2>1, <2>3, <2>4, <2>5, TabShape
  <2> QED
    BY <1>1, <1>2, <1>5, <2>6 DEF Browser!LoggedOut, Browser!Ends
<1>18. ASSUME NEW c \in calls, Browser!Orphaned(c)
       PROVE  SessionShape' /\ Jar' = Jar /\ ui'.of = ui.of
  <2>1. c.answer # None => c.answer \in Pair
    BY <1>1 DEF SessionCalls
  <2>2. ui' = ui => ui' \in Uis /\ ui'.of = ui.of
    BY <1>2
  <2>3. c.answer # None /\ ui' = Browser!Store(ui, c, c.answer) => ui' \in Uis /\ ui'.of = ui.of
    <3> SUFFICES ASSUME c.answer # None, ui' = Browser!Store(ui, c, c.answer)
                 PROVE  ui' \in Uis /\ ui'.of = ui.of
      OBVIOUS
    <3>1. c.answer \in Pair
      BY <2>1
    <3> QED
      BY <3>1, StoreShape, Zenon
  <2>4. ui' \in Uis /\ ui'.of = ui.of
    BY <1>18, <2>2, <2>3 DEF Browser!Orphaned
  <2> QED
    BY <1>1, <1>2, <1>5, <1>18, <2>4 DEF Browser!Orphaned, Browser!Ends
<1>19. ASSUME NEW c \in calls, Browser!Serve(c)
       PROVE  SessionShape' /\ Jar' = Jar /\ ui'.of = ui.of
  BY <1>19, ServeShape, <1>2, <1>5 DEF Browser!Serve
<1>20. ASSUME NEW c \in calls, Browser!Lose(c)
       PROVE  SessionShape' /\ Jar' = Jar /\ ui'.of = ui.of
  <2>1. GoodCall([c EXCEPT !.at = "no", !.answer = None])
    BY AnsweredShape, Zenon
  <2> QED
    BY <1>1, <1>2, <1>5, <1>20, <2>1 DEF Browser!Lose, Browser!Fault, Browser!Refused, Browser!Replace
<1> QED
  BY <1>6, <1>7, <1>8, <1>10, <1>11, <1>12, <1>13, <1>14, <1>15, <1>16, <1>17, <1>18, <1>19, <1>20
     DEF Browser!Next, Jar

-----------------------------------------------------------------------------
(* What a step does to the calls                                           *)

LEMMA Served ==
  ASSUME SessionShape, NEW c \in calls, Browser!Serve(c)
  PROVE  /\ c.at = "out" /\ ui' = ui
         /\ \E d : calls' = (calls \ {c}) \cup {d} /\ Same(d, c) /\ Outcome(c, d)
<1>0. c \in SessionCalls
  BY DEF SessionShape, GoodCall
<1>1. server \in Servers /\ server.tokens \in Seq(Ages)
  BY DEF SessionShape, Servers
<1>2. c.at = "out" /\ ui' = ui
  BY DEF Browser!Serve
<1>3. ASSUME NEW d, calls' = (calls \ {c}) \cup {d}, Same(d, c), Outcome(c, d)
      PROVE  \E e : calls' = (calls \ {c}) \cup {e} /\ Same(e, c) /\ Outcome(c, e)
  BY <1>3
<1>4. CASE /\ calls' = (calls \ {c}) \cup {[c EXCEPT !.at = "denied"]}
           /\ server' = server
           /\ c.op \in {"get", "me"} => c.value # server.version
  <2> DEFINE d == [c EXCEPT !.at = "denied"]
  <2>1. Same(d, c) /\ d.at = "denied"
    BY <1>0 DEF SessionCalls, Same
  <2> HIDE DEF d
  <2> QED
    BY <1>2, <1>3, <1>4, <2>1, Zenon DEF Outcome, d
<1>5. CASE /\ c.op = "refresh" /\ c.prev # None
           /\ c.prev \notin Browser!Live /\ server.tokens[c.prev] # "recent"
           /\ calls' = (calls \ {c}) \cup {[c EXCEPT !.at = "reused"]}
           /\ server' = [server EXCEPT !.tokens = Browser!Revoked(server.tokens), !.alarm = TRUE]
  <2> DEFINE d == [c EXCEPT !.at = "reused"]
  <2>1. Same(d, c) /\ d.at = "reused"
    BY <1>0 DEF SessionCalls, Same
  <2>2. Outcome(c, d)
    BY <1>5, <2>1 DEF Outcome
  <2> QED
    BY <1>2, <1>3, <1>5, <2>1, <2>2
<1>6. ASSUME NEW s \in Servers, Browser!Issues(s, c), s.tokens \in Seq(Ages)
      PROVE  \E d : /\ calls' = (calls \ {c}) \cup {d} /\ Same(d, c) /\ d.at = "ok"
                    /\ d.answer = [access |-> s.version, refresh |-> Len(s.tokens) + 1]
                    /\ server'.version = s.version /\ server'.alarm = s.alarm
                    /\ server'.tokens = Append(s.tokens, "live")
  <2> DEFINE d == [c EXCEPT !.at = "ok", !.answer = [access |-> s.version, refresh |-> Len(s.tokens) + 1]]
  <2>1. /\ server' = [s EXCEPT !.tokens = Append(s.tokens, "live")]
        /\ calls' = (calls \ {c}) \cup {d}
    BY <1>6, IssuesShape, Zenon
  <2>2. /\ Same(d, c) /\ d.at = "ok"
        /\ d.answer = [access |-> s.version, refresh |-> Len(s.tokens) + 1]
    BY <1>0 DEF SessionCalls, Same
  <2>3. /\ server'.version = s.version /\ server'.alarm = s.alarm
        /\ server'.tokens = Append(s.tokens, "live")
    BY <2>1 DEF Servers
  <2> HIDE DEF d
  <2> QED
    BY <2>1, <2>2, <2>3
<1>7. CASE c.op = "refresh" /\ c.prev \in Browser!Live
           /\ Browser!Issues([server EXCEPT !.tokens[c.prev] = "recent"], c)
  <2> DEFINE s == [server EXCEPT !.tokens[c.prev] = "recent"]
  <2>1. [server.tokens EXCEPT ![c.prev] = "recent"] \in Seq(Ages)
        /\ Len([server.tokens EXCEPT ![c.prev] = "recent"]) = Len(server.tokens)
    BY <1>1, TokensShape, Zenon DEF Ages
  <2> USE <2>1
  <2>2. s \in Servers /\ s.tokens = [server.tokens EXCEPT ![c.prev] = "recent"]
        /\ s.version = server.version /\ s.alarm = server.alarm
    BY <1>1 DEF Servers
  <2>3. Browser!Issues(s, c)
    BY <1>7
  <2> HIDE DEF s
  <2>4. PICK d : /\ calls' = (calls \ {c}) \cup {d} /\ Same(d, c) /\ d.at = "ok"
                 /\ d.answer = [access |-> s.version, refresh |-> Len(s.tokens) + 1]
                 /\ server'.version = s.version /\ server'.alarm = s.alarm
                 /\ server'.tokens = Append(s.tokens, "live")
    BY <1>6, <2>2, <2>3, Zenon
  <2>5. Outcome(c, d)
    BY <1>7, <2>2, <2>4 DEF Outcome
  <2> QED
    BY <1>2, <2>4, <2>5
<1>8. CASE /\ c.op = "logout"
           /\ calls' = (calls \ {c}) \cup {[c EXCEPT !.at = "ok", !.answer = Browser!NoCookies]}
           /\ server' = IF c.prev = None THEN server ELSE [server EXCEPT !.tokens[c.prev] = "recent"]
  <2> USE <1>8
  <2> DEFINE d == [c EXCEPT !.at = "ok", !.answer = Browser!NoCookies]
  <2>1. Same(d, c) /\ d.at = "ok" /\ d.answer = Browser!NoCookies
    BY <1>0 DEF SessionCalls, Same
  <2>2. /\ server'.version = server.version /\ server'.alarm = server.alarm
        /\ server'.tokens = IF c.prev = None THEN server.tokens
                            ELSE [server.tokens EXCEPT ![c.prev] = "recent"]
    BY <1>1 DEF Servers
  <2> HIDE DEF d
  <2>3. Outcome(c, d)
    BY <2>1, <2>2 DEF Outcome
  <2> QED
    BY <1>2, <2>1, <2>3 DEF d
<1>9. CASE c.op = "login" /\ Browser!Issues(server, c)
  BY <1>1, <1>6, <1>9, <1>2 DEF Outcome
<1>10. CASE c.op = "change" /\ Browser!ServeChange(c)
  <2> DEFINE s == [server EXCEPT !.version = server.version + 1, !.tokens = Browser!Revoked(server.tokens)]
  <2>1. Browser!Revoked(server.tokens) \in Seq(Ages)
        /\ Len(Browser!Revoked(server.tokens)) = Len(server.tokens)
    BY <1>1, TokensShape, Zenon
  <2>2. server.version + 1 \in Nat
    BY <1>1 DEF Servers
  <2>3. s \in Servers /\ s.tokens = Browser!Revoked(server.tokens)
        /\ s.version = server.version + 1 /\ s.alarm = server.alarm
    BY <1>1, <2>1, <2>2, Zenon DEF Servers
  <2>4. Browser!Issues(s, c)
    BY <1>10 DEF Browser!ServeChange
  <2> HIDE DEF s
  <2>5. PICK d : /\ calls' = (calls \ {c}) \cup {d} /\ Same(d, c) /\ d.at = "ok"
                 /\ d.answer = [access |-> s.version, refresh |-> Len(s.tokens) + 1]
                 /\ server'.version = s.version /\ server'.alarm = s.alarm
                 /\ server'.tokens = Append(s.tokens, "live")
    BY <1>6, <2>1, <2>3, <2>4
  <2>6. clean' = (clean /\ Cardinality(Browser!Live \cup {e.prev : e \in calls}) < 2)
    BY <1>10, SameCardinality DEF Browser!ServeChange
  <2>7. Outcome(c, d)
    BY <1>10, <2>1, <2>3, <2>5, <2>6 DEF Outcome
  <2> QED
    BY <1>2, <2>5, <2>7
<1>11. CASE /\ c.op \in {"get", "me"} /\ c.value = server.version
            /\ calls' = (calls \ {c}) \cup {[c EXCEPT !.at = "ok", !.answer = None]}
            /\ server' = server
  <2> DEFINE d == [c EXCEPT !.at = "ok", !.answer = None]
  <2>1. Same(d, c) /\ d.at = "ok" /\ d.answer = None
    BY <1>0 DEF SessionCalls, Same
  <2> HIDE DEF d
  <2>2. Outcome(c, d)
    BY <1>11, <2>1 DEF Outcome
  <2> QED
    BY <1>2, <1>11, <2>1, <2>2 DEF d
<1> QED
  BY <1>4, <1>5, <1>7, <1>8, <1>9, <1>10, <1>11, ServeCases, Zenon

\* A tab is loaded with nothing under way that would set cookies.
LEMMA Loads ==
  ASSUME SessionShape, NEW u \in Uis, u.of = ui.of, NEW t \in Item, NEW at \in {"app", "login"},
         Browser!Load(u, t, at), clean'
  PROVE  /\ clean
         /\ ui'.jar = u.jar
         /\ ui'.tab[t].loading /\ ~ui'.tab[t].user
         /\ \A s \in Item \ {t} : ui'.tab[s] = u.tab[s]
         /\ \A c \in calls : Stores(c) => c.inst # t
         /\ \A c \in calls : c.op = "change" /\ c.inst = t => c.at \notin {"out", "ok"}
         /\ \E me : /\ \A c : c \in calls' <=> (c \in calls /\ c.inst # t) \/ c = me
                    /\ me.inst = t /\ me.item = ui.of[t] /\ me.op = "me" /\ me.at = "out"
                    /\ me.value = u.jar[ui.of[t]].access /\ me.prev = ui.jar[ui.of[t]].refresh
         /\ IsFiniteSet(calls) => IsFiniteSet(calls')
<1>1. clean /\ Browser!Orphans(t) = {}
  BY Zenon DEF Browser!Load
<1>2. /\ ui'.jar = u.jar
      /\ ui'.tab[t].loading /\ ~ui'.tab[t].user
      /\ \A s \in Item \ {t} : ui'.tab[s] = u.tab[s]
  BY DEF Browser!Load, Uis
<1>3. \A c \in calls : c.inst = t /\ c.op \in Browser!Sets \cup {"logout"} => c.at \notin {"out", "ok"}
  BY <1>1 DEF Browser!Orphans
<1>4. /\ \A c \in calls : Stores(c) => c.inst # t
      /\ \A c \in calls : c.op = "change" /\ c.inst = t => c.at \notin {"out", "ok"}
  BY <1>3 DEF Stores, Browser!Sets
<1> DEFINE me == [Browser!Ask(t, "me") EXCEPT !.value = u.jar[u.of[t]].access]
<1>5. calls' = {c \in calls : c.inst # t} \cup {me}
  BY <1>1 DEF Browser!Load
<1>6. Browser!Ask(t, "me") =
        [id |-> made, inst |-> t, item |-> ui.of[t], op |-> "me",
         value |-> ui.jar[ui.of[t]].access, prev |-> ui.jar[ui.of[t]].refresh,
         step |-> 1, at |-> "out", answer |-> None]
  BY AskShape DEF SessionOps
<1>7. /\ me.inst = t /\ me.item = ui.of[t] /\ me.op = "me" /\ me.at = "out"
      /\ me.value = u.jar[ui.of[t]].access /\ me.prev = ui.jar[ui.of[t]].refresh
  BY <1>6
<1> HIDE DEF me
<1>8. \A c : c \in calls' <=> (c \in calls /\ c.inst # t) \/ c = me
  BY <1>5
<1>9. ASSUME IsFiniteSet(calls) PROVE IsFiniteSet(calls')
  <2>1. IsFiniteSet({c \in calls : c.inst # t})
    BY <1>9, FS_Subset
  <2> QED
    BY <1>5, <2>1, FS_AddElement
<1> QED
  BY <1>1, <1>2, <1>4, <1>7, <1>8, <1>9

\* One more call is made by a tab.
LEMMA Asks ==
  ASSUME SessionShape, NEW t \in Item, NEW op \in SessionOps
  PROVE  LET d == Browser!Ask(t, op)
         IN /\ d.inst = t /\ d.item = ui.of[t] /\ d.op = op /\ d.at = "out"
            /\ d.value = ui.jar[ui.of[t]].access /\ d.prev = ui.jar[ui.of[t]].refresh
  BY AskShape

LEMMA Resends ==
  ASSUME SessionShape, NEW c \in calls, Browser!Refreshed(c)
  PROVE  /\ Resent(calls', c)
         /\ \A d \in calls : d # c /\ d.at # "wait" => d \in calls'
         /\ IsFiniteSet(calls) => IsFiniteSet(calls')
<1> DEFINE again(d) == [d EXCEPT !.at = "out", !.step = 2, !.value = c.answer.access,
                                 !.prev = c.answer.refresh]
           W == Browser!Waiters(c.inst)
<1>1. calls' = (calls \ ({c} \cup W)) \cup {again(d) : d \in W}
  BY Zenon DEF Browser!Refreshed
<1>2. ASSUME NEW d \in W
      PROVE  /\ d \in calls /\ d.inst = c.inst /\ d.at = "wait"
             /\ again(d).inst = d.inst /\ again(d).item = d.item /\ again(d).op = d.op
             /\ again(d).at = "out" /\ again(d).value = c.answer.access
             /\ again(d).prev = c.answer.refresh
  BY DEF Browser!Waiters, SessionShape, GoodCall, SessionCalls
<1>3. \A d \in calls : d # c /\ d.at # "wait" => d \in calls'
  BY <1>1, <1>2, Zenon
<1>4. ASSUME IsFiniteSet(calls) PROVE IsFiniteSet(calls')
  <2>1. IsFiniteSet(W) /\ IsFiniteSet(calls \ ({c} \cup W))
    BY <1>4, FS_Subset DEF Browser!Waiters
  <2> DEFINE T == {again(d) : d \in W}
             f == [d \in W |-> again(d)]
  <2>2. f \in [W -> T] /\ \A e \in T : \E d \in W : f[d] = e
    BY Zenon
  <2>3. calls' = (calls \ ({c} \cup W)) \cup T
    BY <1>1, Zenon
  <2> HIDE DEF f, T
  <2>4. f \in Surjection(W, T)
    BY <2>2 DEF Surjection
  <2>5. IsFiniteSet(T)
    BY <2>1, <2>4, FS_Surjection
  <2> QED
    BY <2>1, <2>3, <2>5, FS_Union, Zenon
<1> HIDE DEF again, W
<1>5. Resent(calls', c)
  BY <1>1, <1>2 DEF Resent
<1> QED
  BY <1>3, <1>4, <1>5

-----------------------------------------------------------------------------
(* Tabs                                                                    *)

LEMMA TabsReply ==
  ASSUME TabsAsk, NEW c \in calls, NEW d, Same(d, c), calls' = (calls \ {c}) \cup {d},
         ui'.tab = ui.tab
  PROVE  TabsAsk'
  BY DEF TabsAsk, Same

LEMMA TabsEnd ==
  ASSUME TabsAsk, calls' \subseteq calls, ui'.tab = ui.tab
  PROVE  TabsAsk'
  BY DEF TabsAsk

LEMMA TabsLoad ==
  ASSUME SessionShape, TabsAsk, NEW u \in Uis, u.of = ui.of, u.tab = ui.tab, NEW t \in Item,
         NEW at \in {"app", "login"}, Browser!Load(u, t, at), clean'
  PROVE  TabsAsk'
  BY Loads DEF TabsAsk

LEMMA TabsSteps ==
  ASSUME SessionShape, TabsAsk, Browser!Next, clean'
  PROVE  TabsAsk'
<1>0. ui \in Uis /\ \A c \in calls : c.inst # None
  BY NoneIsNothing DEF SessionShape, TabsAsk
<1>1. CASE Browser!GraceEnds
  BY <1>1, TabsEnd DEF Browser!GraceEnds
<1>2. ASSUME NEW j \in Jar, Browser!Expire(j) PROVE TabsAsk'
  BY <1>0, <1>2, TabsEnd DEF Browser!Expire, Uis
<1>3. ASSUME NEW t \in Item, Browser!Reload(t) PROVE TabsAsk'
  BY <1>0, <1>3, TabsLoad DEF Browser!Reload
<1>4. ASSUME NEW t \in Item, NEW op \in SessionOps \ {"me"}, calls' = calls \cup {Browser!Ask(t, op)},
             ui' = ui, op = "change" => ui.tab[t].user, ~ui.tab[t].loading
      PROVE  TabsAsk'
  BY <1>4, Asks DEF TabsAsk
<1>5. ASSUME NEW t \in Item, Browser!Send(t, "get") \/ Browser!Send(t, "change") \/ Browser!LogOut(t)
      PROVE  TabsAsk'
  <2>1. ui.tab[t].user /\ ~ui.tab[t].loading
    BY <1>5, Zenon DEF Browser!Send, Browser!LogOut, TabsAsk
  <2> QED
    BY <1>4, <1>5, <2>1, Zenon DEF Browser!Send, Browser!LogOut, SessionOps
<1>6. ASSUME NEW t \in Item, Browser!LogIn(t) PROVE TabsAsk'
  BY <1>4, <1>6 DEF Browser!LogIn, SessionOps
<1>7. ASSUME NEW c \in calls, NEW s \in TabState, c.inst \in Item,
             calls' = calls \ {c}, ui'.tab = [ui.tab EXCEPT ![c.inst] = s], ~s.loading,
             c.op = "me" \/ ~ui.tab[c.inst].loading,
             \/ s.user
             \/ \A d \in calls : d.inst = c.inst => d.op # "change"
      PROVE  TabsAsk'
  BY <1>7, <1>0 DEF TabsAsk, Uis
<1>8. ASSUME NEW c \in calls, Browser!MeAnswered(c) PROVE TabsAsk'
  <2> DEFINE in == [at |-> "app", user |-> TRUE, loading |-> FALSE]
             out == [at |-> "login", user |-> FALSE, loading |-> FALSE]
  <2>1. in \in TabState /\ in.user /\ ~in.loading /\ out \in TabState /\ ~out.loading
    BY DEF TabState
  <2>2. \/ Browser!Load(ui, c.inst, "login")
        \/ /\ ui' = [ui EXCEPT !.tab[c.inst] = in] \/ ui' = [ui EXCEPT !.tab[c.inst] = out]
           /\ calls' = calls \ {c}
    BY <1>8, Zenon DEF Browser!MeAnswered, Browser!Ends
  <2>3. c.op = "me" /\ c.inst \in Item
    BY <1>8 DEF TabsAsk, Browser!MeAnswered
  <2> USE <2>3
  <2>4. \A d \in calls : d.inst = c.inst => d.op # "change"
    BY DEF TabsAsk
  <2> HIDE DEF in, out
  <2>5. CASE Browser!Load(ui, c.inst, "login")
    BY <1>0, <2>5, TabsLoad
  <2>6. CASE ui' = [ui EXCEPT !.tab[c.inst] = in] /\ calls' = calls \ {c}
    BY <1>0, <2>1, <2>6, TabShape, <1>7
  <2>7. CASE ui' = [ui EXCEPT !.tab[c.inst] = out] /\ calls' = calls \ {c}
    BY <1>0, <2>1, <2>7, TabShape, <1>7, <2>4
  <2> QED
    BY <2>2, <2>5, <2>6, <2>7
<1>9. ASSUME NEW c \in calls, Browser!Denied(c) PROVE TabsAsk'
  <2>1. c \in SessionCalls /\ c.inst \in Item
    BY DEF SessionShape, GoodCall, TabsAsk
  <2> DEFINE d == [c EXCEPT !.at = "wait"]
             r == Browser!Ask(c.inst, "refresh")
  <2>2. Same(d, c)
    BY <2>1 DEF SessionCalls, Same
  <2>3. r.inst = c.inst /\ r.op = "refresh"
    BY <2>1, Asks DEF SessionOps
  <2>4. /\ calls' = (calls \ {c}) \cup {d} \/ calls' = (calls \ {c}) \cup {d, r}
        /\ ui' = ui /\ c.op \in {"get", "change"}
    BY <1>9 DEF Browser!Denied
  <2> HIDE DEF d, r
  <2> QED
    BY <2>2, <2>3, <2>4 DEF Same, TabsAsk
<1>10. ASSUME NEW c \in calls, Browser!Refreshed(c) PROVE TabsAsk'
  <2> USE <1>10
  <2>1. Resent(calls', c) /\ c.op = "refresh"
    BY Resends, Zenon DEF Browser!Refreshed
  <2>2. ui'.tab = ui.tab
    <3>1. c.answer \in Pair
      BY Zenon DEF Browser!Refreshed, SessionShape, GoodCall, Stores, Browser!Sets
    <3> QED
      BY <3>1, StoreShape, Zenon DEF Browser!Refreshed
  <2>3. \A e \in calls' : e \in calls \/ e.op # "me"
    BY <2>1 DEF Resent, TabsAsk
  <2>4. \A e \in calls' : \E d \in calls : e.inst = d.inst /\ e.op = d.op
    BY <2>1 DEF Resent
  <2> QED
    BY <2>2, <2>3, <2>4 DEF TabsAsk
<1>11. ASSUME NEW c \in calls, Browser!NotRefreshed(c) PROVE TabsAsk'
  <2> DEFINE u == IF c.at = "reused" THEN Browser!Store(ui, c, Browser!NoCookies) ELSE ui
  <2>1. Browser!NoCookies \in Pair
    BY DEF Browser!NoCookies, Pair, Some
  <2>2. u \in Uis /\ u.of = ui.of /\ u.tab = ui.tab
    BY <1>0, <2>1, StoreShape, Zenon
  <2>3. \/ Browser!Load(u, c.inst, "login")
        \/ ui' = u /\ calls' = calls \ ({c} \cup Browser!Waiters(c.inst))
    BY <1>11, Zenon DEF Browser!NotRefreshed
  <2>4. c.inst \in Item
    BY DEF TabsAsk
  <2> HIDE DEF u
  <2> QED
    BY <2>2, <2>3, <2>4, TabsLoad, TabsEnd
<1>12. ASSUME NEW c \in calls, Browser!Done(c) PROVE TabsAsk'
  <2>1. c.op = "change" /\ c.at = "ok" => c.answer \in Pair
    BY DEF SessionShape, GoodCall, Stores, Browser!Sets
  <2>2. ui'.tab = ui.tab
    BY <1>12, <2>1, StoreShape, Zenon DEF Browser!Done
  <2> QED
    BY <1>12, <2>2, TabsEnd DEF Browser!Done, Browser!Ends
<1>13. ASSUME NEW c \in calls, Browser!LoggedIn(c) PROVE TabsAsk'
  <2>1. c.inst \in Item /\ c.op = "login" /\ ~ui.tab[c.inst].loading
    BY <1>13 DEF Browser!LoggedIn, TabsAsk
  <2> USE <2>1
  <2>2. CASE ui' = ui /\ calls' = calls \ {c}
    BY <2>2, TabsEnd
  <2> DEFINE u == Browser!Store(ui, c, c.answer)
             in == [at |-> "app", user |-> TRUE, loading |-> FALSE]
  <2>3. CASE c.at = "ok" /\ ui' = [u EXCEPT !.tab[c.inst] = in] /\ calls' = calls \ {c}
    <3> USE <2>3
    <3>1. c.answer \in Pair
      BY DEF SessionShape, GoodCall, Stores, Browser!Sets
    <3>2. u \in Uis /\ u.tab = ui.tab
      BY <3>1, StoreShape, Zenon
    <3>3. in \in TabState /\ in.user /\ ~in.loading
      BY DEF TabState
    <3> HIDE DEF u, in
    <3>4. ui'.tab = [ui.tab EXCEPT ![c.inst] = in]
      BY <3>2, <3>3, TabShape
    <3> QED
      BY <1>7, <3>3, <3>4
  <2> QED
    BY <1>13, <2>2, <2>3 DEF Browser!LoggedIn, Browser!Ends
<1>14. ASSUME NEW c \in calls, Browser!LoggedOut(c) PROVE TabsAsk'
  <2>1. /\ c.inst \in Item /\ c.op = "logout" /\ ~ui.tab[c.inst].loading
    BY <1>14 DEF Browser!LoggedOut, TabsAsk
  <2>2. c.at = "ok" /\ ~\E d \in calls : d.op \in Browser!Sets
    BY <1>14, Zenon DEF Browser!LoggedOut
  <2> USE <2>2
  <2> DEFINE u == Browser!Store(ui, c, c.answer)
             out == [at |-> "login", user |-> FALSE, loading |-> FALSE]
  <2>3. ui' = [u EXCEPT !.tab[c.inst] = out] /\ calls' = calls \ {c}
    BY <1>14 DEF Browser!LoggedOut, Browser!Ends
  <2>4. c.answer \in Pair
    BY <2>1 DEF SessionShape, GoodCall, Stores
  <2>5. u \in Uis /\ u.tab = ui.tab
    BY <2>4, StoreShape, Zenon
  <2>6. out \in TabState /\ ~out.loading
    BY DEF TabState
  <2> HIDE DEF u, out
  <2>7. ui'.tab = [ui.tab EXCEPT ![c.inst] = out]
    BY <2>1, <2>3, <2>5, <2>6, TabShape
  <2>8. \A d \in calls : d.op # "change"
    BY DEF Browser!Sets
  <2> QED
    BY <1>7, <2>1, <2>3, <2>6, <2>7, <2>8
<1>15. ASSUME NEW c \in calls, Browser!Orphaned(c) PROVE TabsAsk'
  BY <1>0, <1>15 DEF Browser!Orphaned
<1>16. ASSUME NEW c \in calls, Browser!Serve(c) PROVE TabsAsk'
  BY <1>16, Served, TabsReply
<1>17. ASSUME NEW c \in calls, Browser!Lose(c) PROVE TabsAsk'
  <2> DEFINE d == [c EXCEPT !.at = "no", !.answer = None]
  <2>1. Same(d, c)
    BY DEF SessionShape, GoodCall, SessionCalls, Same
  <2>2. calls' = (calls \ {c}) \cup {d} /\ ui' = ui
    BY <1>17 DEF Browser!Lose, Browser!Fault, Browser!Refused, Browser!Replace
  <2> HIDE DEF d
  <2> QED
    BY <2>1, <2>2, TabsReply
<1> QED
  BY <1>1, <1>2, <1>3, <1>5, <1>6, <1>8, <1>9, <1>10, <1>11, <1>12, <1>13, <1>14, <1>15, <1>16, <1>17
     DEF Browser!Next, Jar

-----------------------------------------------------------------------------
(* Access tokens                                                           *)

LEMMA BoundReply ==
  ASSUME NEW c, NEW d, NEW v, Same(d, c), BoundCall(c, v), d.at # "ok"
  PROVE  BoundCall(d, v)
  BY DEF BoundCall, Same, Stores

LEMMA BoundLater ==
  ASSUME NEW c \in SessionCalls, NEW v \in Nat, Stores(c) => c.answer \in Pair, BoundCall(c, v)
  PROVE  BoundCall(c, v + 1)
  BY NoneIsNothing DEF BoundCall, AtMost, SessionCalls, Some, Pair

\* A call that asks what the browser holds.
LEMMA BoundAsk ==
  ASSUME SessionShape, AccessInv, NEW d, d.at = "out", NEW t \in Item,
         d.value = ui.jar[ui.of[t]].access
  PROVE  BoundCall(d, server.version)
  BY DEF SessionShape, Uis, AccessInv, BoundCall, Stores

\* Nobody is signed out, no cookies are set, and the password stays.
LEMMA AccessKept ==
  ASSUME AccessInv, Jar' = Jar, ui'.of = ui.of, server'.version = server.version,
         \A j \in Jar : ui'.jar[j].access \in {ui.jar[j].access, None},
         \A t \in Item : ui.tab[t].user => ui'.tab[t].user,
         \A c \in calls' : c \in calls \/ BoundCall(c, server.version),
         \A c \in calls : c.op = "me" /\ c.value = server.version /\ c.at \in {"out", "ok"} =>
           \/ \E d \in calls' : Same(d, c) /\ d.at \in {"out", "ok"}
           \/ \E t \in Item : ui.of[t] = c.item /\ ui'.tab[t].user,
         server.version # None
  PROVE  AccessInv'
  BY DEF AccessInv, Claimed, Same, AtMost, BoundCall, Stores

\* The answer of a call sets the cookies of a browser with a tab that is
\* signed in.
LEMMA AccessStored ==
  ASSUME SessionShape, AccessInv, Jar' = Jar, ui'.of = ui.of, server' = server,
         NEW c \in calls, Stores(c), c.inst \in Item,
         ui'.jar = [ui.jar EXCEPT ![c.item] = c.answer],
         ui'.tab[c.inst].user,
         \A t \in Item : ui.tab[t].user => ui'.tab[t].user,
         \A e \in calls' : e \in calls \/ BoundCall(e, server.version),
         \A d \in calls : d # c /\ d.at # "wait" => d \in calls'
  PROVE  AccessInv'
  BY NoneIsNothing DEF SessionShape, GoodCall, SessionCalls, Uis, Claimed, AccessInv, BoundCall,
     AtMost, Stores

\* A tab is loaded.
LEMMA AccessLoad ==
  ASSUME SessionShape, TabsAsk, AccessInv, Jar' = Jar, ui'.of = ui.of, server' = server,
         NEW u \in Uis, u.of = ui.of, u.tab = ui.tab, NEW t \in Item,
         \A j \in Jar : u.jar[j].access \in {ui.jar[j].access, None},
         NEW at \in {"app", "login"}, Browser!Load(u, t, at), clean'
  PROVE  AccessInv'
<1>0. ui.of \in [Item -> Jar] /\ server.version # None
      /\ \A c \in calls : c.inst \in Item /\ c.item = ui.of[c.inst]
  BY NoneIsNothing DEF SessionShape, Uis, Servers, GoodCall, TabsAsk
<1>1. /\ ui'.jar = u.jar
      /\ \A s \in Item \ {t} : ui'.tab[s] = ui.tab[s]
  BY Loads
<1>2. PICK me : /\ \A c : c \in calls' <=> (c \in calls /\ c.inst # t) \/ c = me
                /\ me.inst = t /\ me.item = ui.of[t] /\ me.op = "me" /\ me.at = "out"
                /\ me.value = u.jar[ui.of[t]].access
  BY Loads
<1> USE <1>2
<1>3. ASSUME NEW j \in Jar, ui'.jar[j].access = server.version
      PROVE  Claimed(j)'
  BY <1>1, <1>3, <1>0 DEF Claimed, AccessInv
<1>4. \A j \in Jar : AtMost(u.jar[j].access, server.version)
  BY DEF AccessInv, AtMost
<1>5. BoundCall(me, server.version)
  BY <1>0, <1>4 DEF BoundCall, Stores
<1>6. \A e \in calls' : BoundCall(e, server'.version)
  BY <1>5 DEF AccessInv
<1> QED
  BY <1>1, <1>3, <1>4, <1>6 DEF AccessInv, AtMost, BoundCall, Stores

LEMMA AccessServed ==
  ASSUME SessionShape, SessionShape', TabsAsk, AccessInv, Jar' = Jar, ui' = ui, NEW c \in calls,
         c.at = "out", NEW d, calls' = (calls \ {c}) \cup {d}, Same(d, c), Outcome(c, d)
  PROVE  AccessInv'
<1>0. server.version \in Nat /\ server.version # None
  BY NoneIsNothing DEF SessionShape, Servers
<1> USE <1>0
<1>1. BoundCall(c, server.version)
  BY DEF AccessInv
<1>2. CASE server'.version = server.version
  BY <1>1, BoundReply, <1>2, AccessKept DEF Outcome, Same, AtMost, Browser!NoCookies,
     Stores, Browser!Sets, BoundCall
<1>3. CASE server'.version # server.version
  <2>1. /\ c.op = "change" /\ d.at = "ok" /\ server'.version = server.version + 1
        /\ d.answer = [access |-> server.version + 1, refresh |-> Len(server.tokens) + 1]
    BY <1>3, Zenon DEF Outcome, SessionShape, Servers
  <2> USE <2>1
  <2>2. \A j \in Jar : ui.jar[j].access # None => ui.jar[j].access \in Nat
    BY DEF SessionShape, Uis, Pair, Some
  <2>3. \A j \in Jar : /\ AtMost(ui.jar[j].access, server.version + 1)
                       /\ ui.jar[j].access # server.version + 1
    BY <2>2, NoneIsNothing DEF AccessInv, AtMost
  <2>4. \A e \in calls : BoundCall(e, server.version + 1)
    BY BoundLater DEF AccessInv, SessionShape, GoodCall
  <2>5. BoundCall(d, server.version + 1)
    BY <2>4 DEF BoundCall, Same, AtMost
  <2>6. \A e \in calls' : BoundCall(e, server'.version)
    BY <2>4, <2>5
  <2> QED
    BY <2>3, <2>6 DEF AccessInv, AtMost, BoundCall, Stores
<1> QED
  BY <1>2, <1>3

LEMMA AccessSteps ==
  ASSUME SessionShape, SessionShape', TabsAsk, AccessInv, Browser!Next, clean',
         Jar' = Jar, ui'.of = ui.of
  PROVE  AccessInv'
<1>0. /\ ui \in Uis /\ server \in Servers /\ server.version # None
      /\ \A c \in calls : c.inst \in Item /\ c.inst # None
      /\ \A c \in calls : GoodCall(c) /\ c \in SessionCalls
  BY NoneIsNothing DEF SessionShape, TabsAsk, Servers, GoodCall
<1>1. CASE Browser!GraceEnds
  BY <1>0, <1>1, AccessKept DEF Browser!GraceEnds, Servers, Same
<1>2. ASSUME NEW j \in Jar, Browser!Expire(j) PROVE AccessInv'
  BY <1>2, <1>0, AccessKept DEF Browser!Expire, Uis, Pair, Same
<1>3. ASSUME NEW t \in Item, Browser!Reload(t) PROVE AccessInv'
  BY <1>0, <1>3, AccessLoad DEF Browser!Reload
<1>4. ASSUME NEW t \in Item, NEW op \in SessionOps, calls' = calls \cup {Browser!Ask(t, op)},
             ui' = ui, server' = server
      PROVE  AccessInv'
  BY Asks, BoundAsk, <1>0, <1>4, AccessKept DEF Same
<1>5. ASSUME NEW t \in Item,
             \/ Browser!Send(t, "get") \/ Browser!Send(t, "change")
             \/ Browser!LogIn(t) \/ Browser!LogOut(t)
      PROVE  AccessInv'
  BY <1>4, <1>5, Zenon DEF Browser!Send, Browser!LogIn, Browser!LogOut, SessionOps
<1>6. ASSUME NEW c \in calls, Browser!MeAnswered(c) PROVE AccessInv'
  <2> DEFINE in == [at |-> "app", user |-> TRUE, loading |-> FALSE]
             out == [at |-> "login", user |-> FALSE, loading |-> FALSE]
  <2>1. in \in TabState /\ in.user /\ out \in TabState
    BY DEF TabState
  <2>2. /\ c.op = "me" /\ server' = server
        /\ \/ Browser!Load(ui, c.inst, "login")
           \/ /\ calls' = calls \ {c}
              /\ \/ ui' = [ui EXCEPT !.tab[c.inst] = in]
                 \/ c.at \notin {"out", "ok"} /\ ui' = [ui EXCEPT !.tab[c.inst] = out]
    BY <1>6, Zenon DEF Browser!MeAnswered, Browser!Ends
  <2> USE <2>2
  <2>3. ~ui.tab[c.inst].user /\ c.item = ui.of[c.inst]
    BY <1>0 DEF TabsAsk, GoodCall
  <2>4. \A d \in calls : d # c /\ d.op = "me" => d.inst # c.inst
    BY DEF TabsAsk
  <2> HIDE DEF in, out
  <2>5. CASE Browser!Load(ui, c.inst, "login")
    BY <1>0, <2>5, AccessLoad
  <2>6. CASE calls' = calls \ {c} /\ ui' = [ui EXCEPT !.tab[c.inst] = in]
    BY <1>0, <2>1, <2>6, TabShape, <2>3, AccessKept DEF Uis, Same
  <2>7. CASE /\ calls' = calls \ {c} /\ ui' = [ui EXCEPT !.tab[c.inst] = out]
             /\ c.at \notin {"out", "ok"}
    BY <1>0, <2>1, <2>7, TabShape, <2>3, AccessKept DEF Uis, Same
  <2> QED
    BY <2>5, <2>6, <2>7
<1>7. ASSUME NEW c \in calls, Browser!Denied(c) PROVE AccessInv'
  <2> DEFINE d == [c EXCEPT !.at = "wait"]
             r == Browser!Ask(c.inst, "refresh")
  <2>1. Same(d, c) /\ d.at = "wait"
    BY <1>0 DEF SessionCalls, Same
  <2>2. BoundCall(r, server.version)
    BY <1>0, Asks, BoundAsk DEF SessionOps
  <2>3. /\ calls' = (calls \ {c}) \cup {d} \/ calls' = (calls \ {c}) \cup {d, r}
        /\ ui' = ui /\ server' = server /\ c.op # "me"
    BY <1>7 DEF Browser!Denied
  <2> USE <2>3
  <2> HIDE DEF d, r
  <2>4. BoundCall(d, server.version)
    BY <2>1, BoundReply DEF AccessInv
  <2>5. \A e \in calls' : e \in calls \/ BoundCall(e, server.version)
    BY <2>2, <2>4
  <2>6. \A e \in calls : e.op = "me" => e \in calls'
    OBVIOUS
  <2> QED
    BY <1>0, <2>5, <2>6, AccessKept DEF Same
<1>8. ASSUME NEW c \in calls, Browser!Refreshed(c) PROVE AccessInv'
  <2>1. /\ c.op = "refresh" /\ c.at = "ok" /\ ui' = Browser!Store(ui, c, c.answer)
        /\ server' = server /\ ui.tab[c.inst].user
    BY <1>8, Zenon DEF Browser!Refreshed
  <2> USE <2>1
  <2>2. Stores(c) /\ c.answer \in Pair
    BY <1>0 DEF GoodCall, Stores, Browser!Sets
  <2> USE <2>2
  <2>3. ui'.tab = ui.tab /\ ui'.jar = [ui.jar EXCEPT ![c.item] = c.answer]
    BY StoreShape
  <2>4. Resent(calls', c) /\ \A d \in calls : d # c /\ d.at # "wait" => d \in calls'
    BY <1>8, Resends
  <2>5. \A e \in calls' : e \in calls \/ BoundCall(e, server.version)
    BY <2>4 DEF Resent, AccessInv, BoundCall, Stores
  <2> QED
    BY <1>0, <2>3, <2>4, <2>5, AccessStored
<1>9. ASSUME NEW c \in calls, Browser!NotRefreshed(c) PROVE AccessInv'
  <2> DEFINE u == IF c.at = "reused" THEN Browser!Store(ui, c, Browser!NoCookies) ELSE ui
  <2>1. Browser!NoCookies \in Pair /\ Browser!NoCookies.access = None
    BY DEF Browser!NoCookies, Pair, Some
  <2>2. u \in Uis /\ u.of = ui.of /\ u.tab = ui.tab
    BY <1>0, <2>1, StoreShape, Zenon
  <2>3. \A j \in Jar : u.jar[j].access \in {ui.jar[j].access, None}
    <3>1. CASE c.at # "reused"
      BY <3>1
    <3>2. CASE c.at = "reused"
      <4>1. u.jar = [ui.jar EXCEPT ![c.item] = Browser!NoCookies]
        BY <2>1, <3>2, StoreShape
      <4>2. ui.jar \in [Jar -> Pair]
        BY <1>0 DEF Uis
      <4> HIDE DEF u
      <4> QED
        BY <2>1, <4>1, <4>2
    <3> QED
      BY <3>1, <3>2
  <2>4. /\ \/ Browser!Load(u, c.inst, "login")
           \/ ui' = u /\ calls' = calls \ ({c} \cup Browser!Waiters(c.inst))
        /\ c.op = "refresh" /\ server' = server
    BY <1>9, Zenon DEF Browser!NotRefreshed
  <2> USE <2>4
  <2> HIDE DEF u
  <2>5. CASE Browser!Load(u, c.inst, "login")
    BY <1>0, <2>2, <2>3, <2>5, AccessLoad
  <2>6. CASE ui' = u /\ calls' = calls \ ({c} \cup Browser!Waiters(c.inst))
    BY <2>6, <1>0, <2>2, <2>3, AccessKept DEF Browser!Waiters, Same
  <2> QED
    BY <2>5, <2>6
<1>10. ASSUME NEW c \in calls, Browser!Done(c) PROVE AccessInv'
  <2>1. /\ c.op \in {"get", "change"} /\ calls' = calls \ {c} /\ server' = server
        /\ ui' = IF c.op = "change" /\ c.at = "ok" THEN Browser!Store(ui, c, c.answer) ELSE ui
    BY <1>10 DEF Browser!Done, Browser!Ends
  <2> USE <2>1
  <2>2. CASE c.op = "change" /\ c.at = "ok"
    <3> USE <2>2
    <3>1. Stores(c) /\ c.answer \in Pair
      BY <1>0 DEF GoodCall, Stores, Browser!Sets
    <3>2. ui'.tab = ui.tab /\ ui'.jar = [ui.jar EXCEPT ![c.item] = c.answer]
      BY <3>1, StoreShape
    <3>3. ui.tab[c.inst].user
      BY DEF TabsAsk
    <3> QED
      BY <1>0, <3>1, <3>2, <3>3, AccessStored
  <2>3. CASE ui' = ui
    BY <1>0, <2>3, AccessKept DEF Same
  <2> QED
    BY <2>2, <2>3
<1>11. ASSUME NEW c \in calls, Browser!LoggedIn(c) PROVE AccessInv'
  <2> DEFINE u == Browser!Store(ui, c, c.answer)
             in == [at |-> "app", user |-> TRUE, loading |-> FALSE]
  <2>1. /\ c.op = "login" /\ c.at \in {"ok", "no"} /\ calls' = calls \ {c} /\ server' = server
        /\ ui' = IF c.at = "no" THEN ui ELSE [u EXCEPT !.tab[c.inst] = in]
    BY <1>11 DEF Browser!LoggedIn, Browser!Ends
  <2> USE <2>1
  <2>2. CASE c.at = "no"
    BY <1>0, <2>2, AccessKept DEF Same
  <2>3. CASE c.at = "ok"
    <3>1. Stores(c) /\ c.answer \in Pair
      BY <1>0, <2>3 DEF GoodCall, Stores, Browser!Sets
    <3>2. u \in Uis /\ u.tab = ui.tab /\ u.jar = [ui.jar EXCEPT ![c.item] = c.answer]
      BY <3>1, StoreShape
    <3>3. in \in TabState /\ in.user
      BY DEF TabState
    <3> HIDE DEF u, in
    <3>4. ui'.tab = [ui.tab EXCEPT ![c.inst] = in] /\ ui'.jar = u.jar
      BY <1>0, <2>3, <3>2, <3>3, TabShape
    <3>5. ui'.tab[c.inst].user /\ \A t \in Item : ui.tab[t].user => ui'.tab[t].user
      BY <1>0, <3>3, <3>4 DEF Uis
    <3> QED
      BY <1>0, <3>1, <3>2, <3>4, <3>5, AccessStored
  <2> QED
    BY <2>2, <2>3
<1>12. ASSUME NEW c \in calls, Browser!LoggedOut(c) PROVE AccessInv'
  <2> DEFINE u == Browser!Store(ui, c, c.answer)
             out == [at |-> "login", user |-> FALSE, loading |-> FALSE]
  <2>1. c.op = "logout" /\ c.at = "ok" /\ calls' = calls \ {c} /\ server' = server
        /\ ui' = [u EXCEPT !.tab[c.inst] = out]
    BY <1>12, Zenon DEF Browser!LoggedOut, Browser!Ends
  <2> USE <2>1
  <2>2. c.answer \in Pair /\ c.answer.access = None /\ c.item = ui.of[c.inst] /\ c.item \in Jar
    BY <1>0 DEF GoodCall, Stores, SessionCalls, AccessInv, BoundCall, Browser!NoCookies
  <2> USE <2>2
  <2>3. u \in Uis /\ u.tab = ui.tab /\ u.jar = [ui.jar EXCEPT ![c.item] = c.answer]
    BY StoreShape
  <2>4. out \in TabState
    BY DEF TabState
  <2> HIDE DEF u, out
  <2>5. ui'.tab = [ui.tab EXCEPT ![c.inst] = out] /\ ui'.jar = u.jar
    BY <1>0, <2>3, <2>4, TabShape
  <2>6. /\ \A j \in Jar : ui'.jar[j] = IF j = c.item THEN c.answer ELSE ui.jar[j]
        /\ \A t \in Item \ {c.inst} : ui'.tab[t] = ui.tab[t]
    BY <1>0, <2>3, <2>5 DEF Uis
  <2>7. ASSUME NEW j \in Jar, ui'.jar[j].access = server.version
        PROVE  Claimed(j)'
    BY <1>0, <2>6, <2>7 DEF AccessInv, Claimed
  <2>8. \A j \in Jar : AtMost(ui'.jar[j].access, server.version)
    BY <2>6 DEF AccessInv, AtMost
  <2>9. \A e \in calls' : BoundCall(e, server.version)
    BY DEF AccessInv
  <2> QED
    BY <2>7, <2>8, <2>9 DEF AccessInv, AtMost, BoundCall, Stores
<1>13. ASSUME NEW c \in calls, Browser!Orphaned(c) PROVE AccessInv'
  BY <1>0, <1>13 DEF Browser!Orphaned
<1>14. ASSUME NEW c \in calls, Browser!Serve(c) PROVE AccessInv'
  BY <1>14, Served, AccessServed
<1>15. ASSUME NEW c \in calls, Browser!Lose(c) PROVE AccessInv'
  <2> DEFINE d == [c EXCEPT !.at = "no", !.answer = None]
  <2>1. Same(d, c) /\ d.at # "ok"
    BY <1>0 DEF SessionCalls, Same
  <2>2. calls' = (calls \ {c}) \cup {d} /\ ui' = ui /\ server' = server
    BY <1>15 DEF Browser!Lose, Browser!Fault, Browser!Refused, Browser!Replace
  <2>3. c.op # "me"
    BY <1>15, Zenon DEF Browser!Lose
  <2> HIDE DEF d
  <2>4. BoundCall(d, server.version)
    BY <2>1, BoundReply DEF AccessInv
  <2> QED
    BY <1>0, <2>2, <2>3, <2>4, AccessKept DEF Same
<1> QED
  BY <1>1, <1>2, <1>3, <1>5, <1>6, <1>7, <1>8, <1>9, <1>10, <1>11, <1>12, <1>13, <1>14, <1>15
     DEF Browser!Next, Jar

-----------------------------------------------------------------------------
(* Refresh tokens                                                          *)

\* The server keeps its tokens, and whoever's answer is going to be stored
\* still waits for it.
LEMMA TokensKept ==
  ASSUME SessionShape, Owned, Fresh, Jar' = Jar, server' = server,
         \A j \in Jar : ui'.jar[j].refresh \in {ui.jar[j].refresh, None},
         \A e \in calls' :
           \/ e \in calls
           \/ /\ ~Stores(e) /\ e.item \in Jar
              /\ \/ \E d \in calls : e.prev = d.prev /\ e.item = d.item /\ e.op = d.op
                 \/ e.prev = ui.jar[e.item].refresh,
         \A c \in calls : Stores(c) => c \in calls'
  PROVE  Owned' /\ Fresh'
  BY DEF Stores, Browser!Live, Token, Fresh, Owned

\* An answer is stored: its token becomes the browser's.
LEMMA TokensStored ==
  ASSUME SessionShape, AccessInv, Owned, Fresh, Jar' = Jar, server' = server,
         NEW c \in calls, Stores(c),
         ui'.jar = [ui.jar EXCEPT ![c.item] = c.answer],
         \A e \in calls' :
           \/ e \in calls /\ e # c
           \/ ~Stores(e) /\ e.item = c.item /\ e.prev = c.answer.refresh /\ c.op # "logout",
         \A d \in calls : Stores(d) /\ d # c => d \in calls'
  PROVE  Owned' /\ Fresh'
  BY DEF SessionShape, GoodCall, SessionCalls, Uis, Stores, Browser!Live, Token, AccessInv,
     BoundCall, Browser!NoCookies, Fresh, Owned

\* A call is answered with cookies: a token that was good until now belonged to
\* the browser that is going to store them.
LEMMA TokensServed ==
  ASSUME SessionShape, Owned, Fresh, Jar' = Jar, ui' = ui, server'.alarm = server.alarm,
         NEW c \in calls, NEW d, calls' = (calls \ {c}) \cup {d}, Same(d, c), c.at = "out",
         Stores(d),
         DOMAIN server.tokens \subseteq DOMAIN server'.tokens,
         \A i \in DOMAIN server.tokens : server'.tokens[i] \in {server.tokens[i], "recent"},
         \A i \in Browser!Live : server'.tokens[i] # "live" =>
           /\ \A j \in Jar : ui.jar[j].refresh = i => c.item = j
           /\ \A e \in calls : Stores(e) => e.answer.refresh # i,
         \/ d.op = "logout" /\ d.answer.refresh = None
         \/ /\ d.answer.refresh \in DOMAIN server'.tokens \ DOMAIN server.tokens
            /\ server'.tokens[d.answer.refresh] = "live"
  PROVE  Owned' /\ Fresh'
<1>1. \A e : Stores(e)' <=> Stores(e)
  BY DEF Stores
<1>2. \A v : Token(v) => Token(v)'
  BY DEF Token
<1>3. ~Stores(c) /\ \A e \in calls : Stores(e) => e \in calls'
  BY DEF Stores
<1>4. \A i \in Browser!Live : server'.tokens[i] = "live" => i \in Browser!Live'
  BY DEF Browser!Live
<1>5. Token(d.answer.refresh)'
  BY DEF Token
<1>6. \A v : Token(v) /\ v # None => d.answer.refresh # v
  BY DEF Token
<1>7. Owned'
  BY <1>2, <1>6, <1>5, <1>1 DEF Owned, Same, Token
<1>8. Fresh'
  <2>1. ASSUME NEW e \in calls', Stores(e), e.op # "logout"
        PROVE  e.answer.refresh \in Browser!Live'
    BY <2>1, <1>4 DEF Browser!Live, Same, Fresh
  <2>2. \A e \in calls' : e.op = "refresh" /\ e.prev # None => server'.tokens[e.prev] # "old"
    BY DEF Fresh, Owned, Token, Same
  <2>3. ASSUME NEW j \in Jar, ui.jar[j].refresh # None
        PROVE  \/ ui.jar[j].refresh \in Browser!Live'
               \/ /\ server'.tokens[ui.jar[j].refresh] = "recent"
                  /\ \E e \in calls' : e.item = j /\ Stores(e)
    <3> DEFINE i == ui.jar[j].refresh
    <3>1. i \in DOMAIN server.tokens
      BY <2>3 DEF Owned, Token
    <3>2. CASE i \in Browser!Live /\ server'.tokens[i] = "live"
      BY <1>4, <3>2
    <3>3. CASE i \in Browser!Live /\ server'.tokens[i] # "live"
      BY <3>3, <3>1 DEF Browser!Live, Same
    <3>4. CASE i \notin Browser!Live
      BY <2>3, <3>4, <3>1, <1>3 DEF Fresh
    <3> QED
      BY <3>2, <3>3, <3>4
  <2> QED
    BY <1>1, <2>1, <2>2, <2>3 DEF Fresh
<1> QED
  BY <1>7, <1>8

LEMMA AllTheSame ==
  ASSUME NEW S, IsFiniteSet(S), Cardinality(S) < 2, NEW x \in S, NEW y \in S
  PROVE  x = y
<1> SUFFICES ASSUME x # y PROVE FALSE
  OBVIOUS
<1>1. IsFiniteSet({x}) /\ Cardinality({x}) = 1
  BY FS_Singleton, Zenon
<1>2. IsFiniteSet({x} \cup {y}) /\ Cardinality({x} \cup {y}) = 2
  <2> DEFINE X == {x}
  <2>1. IsFiniteSet(X) /\ Cardinality(X) = 1 /\ y \notin X
    BY <1>1
  <2> HIDE DEF X
  <2>2. IsFiniteSet(X \cup {y}) /\ Cardinality(X \cup {y}) = Cardinality(X) + 1
    BY <2>1, FS_AddElement
  <2> QED
    BY <2>1, <2>2 DEF X
<1>3. Cardinality({x} \cup {y}) <= Cardinality(S) /\ Cardinality(S) \in Nat
  BY FS_Subset, FS_CardinalityType
<1> QED
  BY <1>2, <1>3

LEMMA FewTokens ==
  ASSUME SessionShape, IsFiniteSet(calls)
  PROVE  IsFiniteSet(Browser!Live \cup {e.prev : e \in calls})
<1>1. IsFiniteSet(Browser!Live)
  BY TokensShape, FS_Interval, FS_Subset DEF SessionShape, Servers, Browser!Live
<1> DEFINE T == {e.prev : e \in calls}
           f == [e \in calls |-> e.prev]
<1>2. f \in [calls -> T] /\ \A v \in T : \E e \in calls : f[e] = v
  OBVIOUS
<1> HIDE DEF f, T
<1>3. f \in Surjection(calls, T)
  BY <1>2 DEF Surjection
<1>4. IsFiniteSet(T)
  BY <1>3, FS_Surjection
<1>5. IsFiniteSet(Browser!Live \cup T)
  BY <1>1, <1>4, FS_Union, Zenon
<1> QED
  BY <1>5 DEF T

\* The server answers a call.
LEMMA TokensOutcome ==
  ASSUME SessionShape, Owned, Fresh, IsFiniteSet(calls), Jar' = Jar, ui' = ui, clean',
         NEW c \in calls, NEW d, calls' = (calls \ {c}) \cup {d}, Same(d, c), c.at = "out",
         Outcome(c, d)
  PROVE  Owned' /\ Fresh'
<1>0. /\ server \in Servers /\ server.tokens \in Seq(Ages) /\ c.item \in Jar
      /\ DOMAIN server.tokens = 1..Len(server.tokens) /\ Len(server.tokens) \in Nat
  BY TokensShape DEF SessionShape, Servers, GoodCall, SessionCalls
<1>1. \A i \in DOMAIN server.tokens : i # None
  BY <1>0, NoneIsNothing
<1>2. Token(c.prev) /\ \A e \in calls : Stores(e) => e \in calls'
  BY DEF Owned, Stores
<1>3. CASE server' = server /\ ~Stores(d)
  BY <1>0, <1>3, <1>2, TokensKept DEF Same
<1>4. CASE c.op = "refresh" /\ c.prev # None /\ c.prev \notin Browser!Live
           /\ server.tokens[c.prev] # "recent"
  BY <1>0, <1>2, <1>4 DEF Token, Fresh, Ages, Browser!Live
<1>5. \* One token, that of the call, is used up.
      ASSUME c.prev # None, NEW tokens, tokens = [server.tokens EXCEPT ![c.prev] = "recent"]
      PROVE  /\ tokens \in Seq(Ages) /\ Len(tokens) = Len(server.tokens)
             /\ DOMAIN tokens = DOMAIN server.tokens
             /\ \A i \in DOMAIN server.tokens : tokens[i] \in {server.tokens[i], "recent"}
             /\ \A i \in Browser!Live : tokens[i] # "live" => i = c.prev
  BY <1>0, <1>5, TokensShape, Zenon DEF Ages, Browser!Live
<1>6. /\ \A j \in Jar : ui.jar[j].refresh = c.prev /\ c.prev # None => c.item = j
      /\ \A e \in calls : Stores(e) /\ c.prev # None => e.answer.refresh # c.prev
  BY DEF Owned
<1>7. \* A token is added to those of before, some of which were used up.
      ASSUME NEW tokens \in Seq(Ages), Len(tokens) = Len(server.tokens),
             server'.tokens = Append(tokens, "live"), server'.alarm = server.alarm,
             \A i \in DOMAIN server.tokens : tokens[i] \in {server.tokens[i], "recent"},
             \A i \in Browser!Live : tokens[i] # "live" => c.prev = i,
             Stores(d), d.answer.refresh = Len(server.tokens) + 1
      PROVE  Owned' /\ Fresh'
  BY <1>0, <1>7, TokensShape, <1>1, <1>6, TokensServed DEF Browser!Live
<1>8. CASE /\ c.op = "refresh" /\ c.prev \in Browser!Live /\ d.at = "ok"
           /\ d.answer = [access |-> server.version, refresh |-> Len(server.tokens) + 1]
           /\ server'.alarm = server.alarm
           /\ server'.tokens = Append([server.tokens EXCEPT ![c.prev] = "recent"], "live")
  <2>1. Stores(d) /\ c.prev # None /\ d.answer.refresh = Len(server.tokens) + 1
    BY <1>1, <1>8 DEF Stores, Same, Browser!Sets, Browser!Live
  <2> DEFINE tokens == [server.tokens EXCEPT ![c.prev] = "recent"]
  <2>2. server'.tokens = Append(tokens, "live") /\ server'.alarm = server.alarm
    BY <1>8
  <2>3. /\ tokens \in Seq(Ages) /\ Len(tokens) = Len(server.tokens)
        /\ \A i \in DOMAIN server.tokens : tokens[i] \in {server.tokens[i], "recent"}
        /\ \A i \in Browser!Live : tokens[i] # "live" => c.prev = i
    BY <1>5, <2>1, Zenon
  <2> HIDE DEF tokens
  <2> QED
    BY <1>7, <2>1, <2>2, <2>3
<1>9. CASE /\ c.op = "logout" /\ d.at = "ok" /\ d.answer = Browser!NoCookies
           /\ server'.alarm = server.alarm
           /\ server'.tokens = IF c.prev = None THEN server.tokens
                               ELSE [server.tokens EXCEPT ![c.prev] = "recent"]
  <2> USE <1>9
  <2>1. Stores(d) /\ d.op = "logout" /\ d.answer.refresh = None
    BY DEF Stores, Same, Browser!NoCookies
  <2>2. /\ DOMAIN server.tokens \subseteq DOMAIN server'.tokens
        /\ \A i \in DOMAIN server.tokens : server'.tokens[i] \in {server.tokens[i], "recent"}
        /\ \A i \in Browser!Live : server'.tokens[i] # "live" => i = c.prev /\ c.prev # None
    <3>1. CASE c.prev = None
      BY <3>1 DEF Browser!Live
    <3>2. CASE c.prev # None
      <4>1. server'.tokens = [server.tokens EXCEPT ![c.prev] = "recent"]
        BY <3>2
      <4> QED
        BY <1>5, <3>2, <4>1, Zenon
    <3> QED
      BY <3>1, <3>2
  <2>3. \A i \in Browser!Live : server'.tokens[i] # "live" =>
           /\ \A j \in Jar : ui.jar[j].refresh = i => c.item = j
           /\ \A e \in calls : Stores(e) => e.answer.refresh # i
    BY <1>6, <2>2
  <2> QED
    BY <2>1, <2>2, <2>3, TokensServed
<1>10. CASE /\ c.op = "login" /\ d.at = "ok"
            /\ d.answer = [access |-> server.version, refresh |-> Len(server.tokens) + 1]
            /\ server'.alarm = server.alarm
            /\ server'.tokens = Append(server.tokens, "live")
  <2>1. Stores(d) /\ d.answer.refresh = Len(server.tokens) + 1
    BY <1>10 DEF Stores, Same, Browser!Sets
  <2>2. \A i \in Browser!Live : server.tokens[i] = "live"
    BY DEF Browser!Live
  <2> QED
    BY <1>0, <1>7, <1>10, <2>1, <2>2, Zenon
<1>11. CASE /\ c.op = "change" /\ d.at = "ok"
            /\ d.answer = [access |-> server.version + 1, refresh |-> Len(server.tokens) + 1]
            /\ server'.alarm = server.alarm
            /\ server'.tokens = Append(Browser!Revoked(server.tokens), "live")
            /\ clean' = (clean /\ Cardinality(Browser!Live \cup {e.prev : e \in calls}) < 2)
  <2> USE <1>11
  <2>1. Stores(d) /\ d.answer.refresh = Len(server.tokens) + 1
    BY DEF Stores, Same, Browser!Sets
  <2>2. \A i \in Browser!Live : c.prev = i
    <3> DEFINE S == Browser!Live \cup {e.prev : e \in calls}
    <3>1. IsFiniteSet(S) /\ Cardinality(S) < 2 /\ c.prev \in S
      BY FewTokens, Zenon
    <3>2. \A i \in Browser!Live : i \in S
      OBVIOUS
    <3> HIDE DEF S
    <3> QED
      BY <3>1, <3>2, AllTheSame
  <2>3. /\ Browser!Revoked(server.tokens) \in Seq(Ages)
        /\ Len(Browser!Revoked(server.tokens)) = Len(server.tokens)
    BY <1>0, TokensShape, Zenon
  <2>4. \A i \in DOMAIN server.tokens :
          Browser!Revoked(server.tokens)[i] \in {server.tokens[i], "recent"}
    BY DEF Browser!Revoked
  <2> QED
    BY <1>7, <2>1, <2>2, <2>3, <2>4
<1>12. CASE c.op \in {"get", "me"} /\ server' = server
  BY <1>12, <1>3 DEF Stores, Same, Browser!Sets
<1>13. CASE d.at = "denied" /\ server' = server
  BY <1>3, <1>13 DEF Stores
<1> QED
  BY <1>4, <1>8, <1>9, <1>10, <1>11, <1>12, <1>13, Zenon DEF Outcome

LEMMA TokensLoad ==
  ASSUME SessionShape, Owned, Fresh, Jar' = Jar, server' = server,
         NEW u \in Uis, u.of = ui.of, NEW t \in Item, NEW at \in {"app", "login"},
         Browser!Load(u, t, at), clean',
         \A j \in Jar : u.jar[j].refresh \in {ui.jar[j].refresh, None}
  PROVE  Owned' /\ Fresh'
  BY Loads, TokensKept DEF Stores, Browser!Sets, SessionShape, Uis

LEMMA TokensSteps ==
  ASSUME SessionShape, TabsAsk, AccessInv, Owned, Fresh, IsFiniteSet(calls), Browser!Next, clean',
         Jar' = Jar, ui'.of = ui.of
  PROVE  Owned' /\ Fresh'
<1>0. /\ ui \in Uis /\ server \in Servers
      /\ \A c \in calls : c.inst \in Item /\ c.inst # None /\ c.item \in Jar
      /\ \A c \in calls : GoodCall(c) /\ c \in SessionCalls
  BY NoneIsNothing DEF SessionShape, TabsAsk, GoodCall, SessionCalls
<1>1. CASE Browser!GraceEnds
  BY <1>1, <1>0 DEF Browser!GraceEnds, Browser!InFlight, Browser!Sets, Stores, Servers,
     Browser!Live, Owned, Token, Fresh
<1>2. ASSUME NEW j \in Jar, Browser!Expire(j) PROVE Owned' /\ Fresh'
  BY <1>2, <1>0, TokensKept DEF Browser!Expire, Uis, Pair
<1>3. ASSUME NEW t \in Item, Browser!Reload(t) PROVE Owned' /\ Fresh'
  BY <1>0, <1>3, TokensLoad DEF Browser!Reload
<1>4. ASSUME NEW t \in Item, NEW op \in SessionOps
      PROVE  LET d == Browser!Ask(t, op)
             IN ~Stores(d) /\ d.item \in Jar /\ d.prev = ui.jar[d.item].refresh /\ d.op = op
  BY <1>0, Asks DEF Stores, Uis
<1>5. ASSUME NEW t \in Item,
             \/ Browser!Send(t, "get") \/ Browser!Send(t, "change")
             \/ Browser!LogIn(t) \/ Browser!LogOut(t)
      PROVE  Owned' /\ Fresh'
  <2>1. PICK op \in SessionOps : calls' = calls \cup {Browser!Ask(t, op)}
    BY <1>5, Zenon DEF Browser!Send, Browser!LogIn, Browser!LogOut, SessionOps
  <2>2. ui' = ui /\ server' = server
    BY <1>5, Zenon DEF Browser!Send, Browser!LogIn, Browser!LogOut
  <2> QED
    BY <1>4, <2>1, <2>2, TokensKept
<1>6. ASSUME NEW c \in calls, ui'.jar = ui.jar, calls' = calls \ {c}, server' = server, ~Stores(c)
      PROVE  Owned' /\ Fresh'
  BY <1>6, TokensKept
<1>7. ASSUME NEW c \in calls, Browser!MeAnswered(c) PROVE Owned' /\ Fresh'
  <2>1. /\ c.op = "me" /\ server' = server
        /\ \/ Browser!Load(ui, c.inst, "login")
           \/ calls' = calls \ {c} /\ ui'.jar = ui.jar
    BY <1>0, <1>7, Zenon DEF Browser!MeAnswered, Browser!Ends, Uis
  <2>2. ~Stores(c)
    BY <2>1 DEF Stores, Browser!Sets
  <2> QED
    BY <1>0, <1>6, <2>1, <2>2, TokensLoad
<1>8. ASSUME NEW c \in calls, Browser!Denied(c) PROVE Owned' /\ Fresh'
  <2> DEFINE d == [c EXCEPT !.at = "wait"]
             r == Browser!Ask(c.inst, "refresh")
  <2>1. Same(d, c) /\ d.at = "wait"
    BY <1>0 DEF SessionCalls, Same
  <2>2. ~Stores(r) /\ r.item \in Jar /\ r.prev = ui.jar[r.item].refresh
    BY <1>0, <1>4 DEF SessionOps
  <2>3. /\ calls' = (calls \ {c}) \cup {d} \/ calls' = (calls \ {c}) \cup {d, r}
        /\ ui' = ui /\ server' = server /\ c.at = "denied"
    BY <1>8 DEF Browser!Denied
  <2> USE <2>3
  <2> HIDE DEF d, r
  <2>4. ~Stores(d) /\ ~Stores(c) /\ d.prev = c.prev /\ d.item = c.item /\ d.op = c.op /\ d.item \in Jar
    BY <1>0, <2>1 DEF Same, Stores
  <2>5. \A e \in calls : Stores(e) => e \in calls'
    BY <2>4
  <2>6. \A e \in calls' :
          \/ e \in calls
          \/ /\ ~Stores(e) /\ e.item \in Jar
             /\ \/ \E f \in calls : e.prev = f.prev /\ e.item = f.item /\ e.op = f.op
                \/ e.prev = ui.jar[e.item].refresh
    BY <2>2, <2>4
  <2> QED
    BY <2>5, <2>6, TokensKept
<1>9. ASSUME NEW c \in calls, Browser!Refreshed(c) PROVE Owned' /\ Fresh'
  <2>1. /\ c.op = "refresh" /\ c.at = "ok" /\ ui' = Browser!Store(ui, c, c.answer)
        /\ server' = server
    BY <1>9, Zenon DEF Browser!Refreshed
  <2> USE <2>1
  <2>2. Stores(c) /\ c.answer \in Pair
    BY <1>0 DEF GoodCall, Stores, Browser!Sets
  <2>3. ui'.jar = [ui.jar EXCEPT ![c.item] = c.answer]
    BY <2>2, StoreShape
  <2>4. Resent(calls', c) /\ \A d \in calls : d # c /\ d.at # "wait" => d \in calls'
    BY <1>9, Resends
  <2>5. ASSUME NEW e \in calls', e \notin calls \/ e = c
        PROVE  ~Stores(e) /\ e.item = c.item /\ e.prev = c.answer.refresh
    BY <2>4, <2>5, <1>0 DEF Resent, GoodCall, Stores
  <2>6. \A d \in calls : Stores(d) /\ d # c => d \in calls'
    BY <2>4 DEF Stores
  <2> QED
    BY <2>2, <2>3, <2>5, <2>6, TokensStored
<1>10. ASSUME NEW c \in calls, Browser!NotRefreshed(c) PROVE Owned' /\ Fresh'
  <2> DEFINE u == IF c.at = "reused" THEN Browser!Store(ui, c, Browser!NoCookies) ELSE ui
  <2>1. Browser!NoCookies \in Pair /\ Browser!NoCookies.refresh = None
    BY DEF Browser!NoCookies, Pair, Some
  <2>2. u \in Uis /\ u.of = ui.of
    BY <1>0, <2>1, StoreShape, Zenon
  <2>3. \A j \in Jar : u.jar[j].refresh \in {ui.jar[j].refresh, None}
    <3>1. CASE c.at # "reused"
      BY <3>1
    <3>2. CASE c.at = "reused"
      <4>1. u.jar = [ui.jar EXCEPT ![c.item] = Browser!NoCookies]
        BY <2>1, <3>2, StoreShape
      <4>2. ui.jar \in [Jar -> Pair]
        BY <1>0 DEF Uis
      <4> HIDE DEF u
      <4> QED
        BY <2>1, <4>1, <4>2
    <3> QED
      BY <3>1, <3>2
  <2>4. /\ \/ Browser!Load(u, c.inst, "login")
           \/ ui' = u /\ calls' = calls \ ({c} \cup Browser!Waiters(c.inst))
        /\ server' = server /\ c.at # "ok"
    BY <1>10, Zenon DEF Browser!NotRefreshed
  <2> USE <2>4
  <2> HIDE DEF u
  <2>5. CASE Browser!Load(u, c.inst, "login")
    BY <1>0, <2>2, <2>3, <2>5, TokensLoad
  <2>6. CASE ui' = u /\ calls' = calls \ ({c} \cup Browser!Waiters(c.inst))
    BY <2>6, <2>3, TokensKept DEF Browser!Waiters, Stores
  <2> QED
    BY <2>5, <2>6
<1>11. \* The answer of a call is stored, and the call is over.
       ASSUME NEW c \in calls, Stores(c), calls' = calls \ {c}, server' = server,
              ui'.jar = [ui.jar EXCEPT ![c.item] = c.answer]
       PROVE  Owned' /\ Fresh'
  BY <1>11, TokensStored
<1>12. ASSUME NEW c \in calls, Browser!Done(c) PROVE Owned' /\ Fresh'
  <2>1. /\ c.op \in {"get", "change"} /\ calls' = calls \ {c} /\ server' = server
        /\ ui' = IF c.op = "change" /\ c.at = "ok" THEN Browser!Store(ui, c, c.answer) ELSE ui
    BY <1>12 DEF Browser!Done, Browser!Ends
  <2> USE <2>1
  <2>2. CASE c.op = "change" /\ c.at = "ok"
    <3>1. Stores(c) /\ c.answer \in Pair
      BY <1>0, <2>2 DEF GoodCall, Stores, Browser!Sets
    <3>2. ui'.jar = [ui.jar EXCEPT ![c.item] = c.answer]
      BY <2>2, <3>1, StoreShape
    <3> QED
      BY <1>11, <3>1, <3>2
  <2>3. CASE ~(c.op = "change" /\ c.at = "ok")
    BY <2>3, <1>6 DEF Stores, Browser!Sets
  <2> QED
    BY <2>2, <2>3
<1>13. ASSUME NEW c \in calls, Browser!LoggedIn(c) PROVE Owned' /\ Fresh'
  <2> DEFINE u == Browser!Store(ui, c, c.answer)
             in == [at |-> "app", user |-> TRUE, loading |-> FALSE]
  <2>1. /\ c.op = "login" /\ c.at \in {"ok", "no"} /\ calls' = calls \ {c} /\ server' = server
        /\ ui' = IF c.at = "no" THEN ui ELSE [u EXCEPT !.tab[c.inst] = in]
    BY <1>13 DEF Browser!LoggedIn, Browser!Ends
  <2> USE <2>1
  <2>2. CASE c.at = "no"
    BY <1>6, <2>2 DEF Stores
  <2>3. CASE c.at = "ok"
    <3>1. Stores(c) /\ c.answer \in Pair
      BY <1>0, <2>3 DEF GoodCall, Stores, Browser!Sets
    <3>2. u \in Uis /\ u.jar = [ui.jar EXCEPT ![c.item] = c.answer]
      BY <3>1, StoreShape
    <3>3. in \in TabState
      BY DEF TabState
    <3> HIDE DEF u, in
    <3>4. ui'.jar = u.jar
      BY <1>0, <2>3, <3>2, <3>3, TabShape
    <3> QED
      BY <1>11, <3>1, <3>2, <3>4
  <2> QED
    BY <2>2, <2>3
<1>14. ASSUME NEW c \in calls, Browser!LoggedOut(c) PROVE Owned' /\ Fresh'
  <2> DEFINE u == Browser!Store(ui, c, c.answer)
             out == [at |-> "login", user |-> FALSE, loading |-> FALSE]
  <2>1. c.op = "logout" /\ c.at = "ok" /\ calls' = calls \ {c} /\ server' = server
        /\ ui' = [u EXCEPT !.tab[c.inst] = out]
    BY <1>14, Zenon DEF Browser!LoggedOut, Browser!Ends
  <2> USE <2>1
  <2>2. Stores(c) /\ c.answer \in Pair
    BY <1>0 DEF GoodCall, Stores
  <2>3. u \in Uis /\ u.jar = [ui.jar EXCEPT ![c.item] = c.answer]
    BY <2>2, StoreShape
  <2>4. out \in TabState
    BY DEF TabState
  <2> HIDE DEF u, out
  <2>5. ui'.jar = u.jar
    BY <1>0, <2>3, <2>4, TabShape
  <2> QED
    BY <1>11, <2>2, <2>3, <2>5
<1>15. ASSUME NEW c \in calls, Browser!Orphaned(c) PROVE Owned' /\ Fresh'
  BY <1>0, <1>15 DEF Browser!Orphaned
<1>16. ASSUME NEW c \in calls, Browser!Serve(c) PROVE Owned' /\ Fresh'
  BY <1>16, Served, TokensOutcome
<1>17. ASSUME NEW c \in calls, Browser!Lose(c) PROVE Owned' /\ Fresh'
  <2> DEFINE d == [c EXCEPT !.at = "no", !.answer = None]
  <2>1. Same(d, c) /\ d.at = "no"
    BY <1>0 DEF SessionCalls, Same
  <2>2. calls' = (calls \ {c}) \cup {d} /\ ui' = ui /\ server' = server
    BY <1>17 DEF Browser!Lose, Browser!Fault, Browser!Refused, Browser!Replace
  <2> USE <2>2
  <2>3. ~Stores(c)
    BY <1>17, Zenon DEF Browser!Lose, Stores, Browser!Sets
  <2> HIDE DEF d
  <2>4. ~Stores(d) /\ d.item \in Jar /\ d.prev = c.prev /\ d.item = c.item /\ d.op = c.op
    BY <1>0, <2>1 DEF Same, Stores
  <2>5. \A e \in calls' : e \in calls \/ e = d
    OBVIOUS
  <2>6. \A e \in calls : Stores(e) => e \in calls'
    BY <2>3
  <2> QED
    BY <2>4, <2>5, <2>6, TokensKept
<1> QED
  BY <1>1, <1>2, <1>3, <1>5, <1>7, <1>8, <1>9, <1>10, <1>12, <1>13, <1>14, <1>15, <1>16, <1>17
     DEF Browser!Next, Jar

LEMMA Cleanly == SessionShape /\ Browser!Next /\ clean' => clean
  BY Zenon DEF Browser!Next, Browser!GraceEnds, Browser!Expire, Browser!Reload, Browser!Load,
         Browser!Send, Browser!LogIn, Browser!LogOut, Browser!MeAnswered, Browser!Denied,
         Browser!Refreshed, Browser!NotRefreshed, Browser!Done, Browser!LoggedIn,
         Browser!LoggedOut, Browser!Orphaned, Browser!Serve, Browser!ServeChange, Browser!Lose

\* The calls remain finitely many.
LEMMA FinitelyMany ==
  ASSUME SessionShape, TabsAsk, IsFiniteSet(calls), Browser!Next, clean'
  PROVE  IsFiniteSet(calls')
<1>0. ui \in Uis /\ \A c \in calls : c.inst \in Item /\ c.inst # None
  BY NoneIsNothing DEF SessionShape, TabsAsk
<1>1. \A T : T \subseteq calls => IsFiniteSet(T) /\ \A d : IsFiniteSet(T \cup {d})
  BY FS_Subset, FS_AddElement
<1>2. ASSUME NEW T, T \subseteq calls, NEW d, NEW e
      PROVE  IsFiniteSet(T \cup {d, e})
  <2> DEFINE U == T \cup {d}
  <2>1. IsFiniteSet(U) /\ T \cup {d, e} = U \cup {e}
    BY <1>1, <1>2
  <2> HIDE DEF U
  <2>2. IsFiniteSet(U \cup {e})
    BY <2>1, FS_AddElement
  <2> QED
    BY <2>1, <2>2
<1>3. ASSUME NEW t \in Item, Browser!Reload(t) PROVE IsFiniteSet(calls')
  BY <1>0, <1>3, Loads DEF Browser!Reload
<1>4. ASSUME NEW t \in Item,
             \/ Browser!Send(t, "get") \/ Browser!Send(t, "change")
             \/ Browser!LogIn(t) \/ Browser!LogOut(t)
      PROVE  IsFiniteSet(calls')
  BY <1>1, <1>4, Zenon DEF Browser!Send, Browser!LogIn, Browser!LogOut
<1>5. ASSUME NEW c \in calls, Browser!MeAnswered(c) PROVE IsFiniteSet(calls')
  <2>1. Browser!Load(ui, c.inst, "login") \/ calls' = calls \ {c}
    BY <1>5, Zenon DEF Browser!MeAnswered, Browser!Ends
  <2> QED
    BY <1>0, <1>1, <2>1, Loads
<1>6. ASSUME NEW c \in calls, Browser!Denied(c) PROVE IsFiniteSet(calls')
  <2> DEFINE d == [c EXCEPT !.at = "wait"]
             r == Browser!Ask(c.inst, "refresh")
  <2>1. calls' = (calls \ {c}) \cup {d} \/ calls' = (calls \ {c}) \cup {d, r}
    BY <1>6 DEF Browser!Denied
  <2> HIDE DEF d, r
  <2>2. calls \ {c} \subseteq calls
    OBVIOUS
  <2>3. IsFiniteSet((calls \ {c}) \cup {d}) /\ IsFiniteSet((calls \ {c}) \cup {d, r})
    BY <1>1, <1>2, <2>2, Zenon
  <2> QED
    BY <2>1, <2>3
<1>7. ASSUME NEW c \in calls, Browser!NotRefreshed(c) PROVE IsFiniteSet(calls')
  <2> DEFINE u == IF c.at = "reused" THEN Browser!Store(ui, c, Browser!NoCookies) ELSE ui
  <2>1. u \in Uis /\ u.of = ui.of
    <3>1. Browser!NoCookies \in Pair
      BY DEF Browser!NoCookies, Pair, Some
    <3> QED
      BY <1>0, <3>1, StoreShape, Zenon
  <2>2. Browser!Load(u, c.inst, "login") \/ calls' = calls \ ({c} \cup Browser!Waiters(c.inst))
    BY <1>7, Zenon DEF Browser!NotRefreshed
  <2> HIDE DEF u
  <2> QED
    BY <1>0, <1>1, <2>1, <2>2, Loads
<1>8. ASSUME NEW c \in calls,
             \/ Browser!Done(c) \/ Browser!LoggedIn(c) \/ Browser!LoggedOut(c) \/ Browser!Orphaned(c)
      PROVE  IsFiniteSet(calls')
  BY <1>1, <1>8, Zenon
     DEF Browser!Done, Browser!LoggedIn, Browser!LoggedOut, Browser!Orphaned, Browser!Ends
<1>9. ASSUME NEW c \in calls, Browser!Serve(c) PROVE IsFiniteSet(calls')
  <2>1. PICK d : calls' = (calls \ {c}) \cup {d}
    BY <1>9, Served
  <2> QED
    BY <1>1, <2>1, Zenon
<1>10. ASSUME NEW c \in calls, Browser!Lose(c) PROVE IsFiniteSet(calls')
  BY <1>1, <1>10, Zenon DEF Browser!Lose, Browser!Fault, Browser!Refused, Browser!Replace
<1>11. ASSUME calls' = calls PROVE IsFiniteSet(calls')
  BY <1>11
<1> QED
  BY <1>3, <1>4, <1>5, <1>6, <1>7, <1>8, <1>9, <1>10, <1>11, Resends, Zenon
     DEF Browser!Next, Browser!GraceEnds, Browser!Expire

LEMMA SessionSteps == SessionInv /\ Browser!Next => SessionInv'
  BY ShapeSteps, Cleanly, TabsSteps, AccessSteps, TokensSteps, FinitelyMany DEF SessionInv

LEMMA SessionStays == SessionInv /\ UNCHANGED vars => SessionInv'
  BY ShapeStays DEF vars, Jar, SessionInv, SessionShape, TabsAsk, AccessInv, BoundCall, AtMost,
     Stores, Claimed, Owned, Token, Fresh, Browser!Live

LEMMA SessionAlways == Spec => [](page = "session" => SessionInv)
<1>1. Init => (page = "session" => SessionInv)
  BY StartsOn, SessionStarts
<1>2. (page = "session" => SessionInv) /\ [Next]_vars => (page = "session" => SessionInv)'
  BY SessionStays, SessionSteps, StaysOn DEF vars
<1> QED
  BY <1>1, <1>2, PTL DEF Spec

-----------------------------------------------------------------------------
(* The task dialogs keep their types                                       *)

LEMMA TaskCalls ==
  ASSUME NEW n
  PROVE  n \in TaskPage!Calling <=>
           /\ IsCall(n)
           /\ n.id \in Nat /\ n.inst \in Nat /\ n.item \in Item /\ n.op \in TaskOps
           /\ n.value \in TaskValues /\ n.prev \in TaskPrevs /\ n.step \in {1, 2}
           /\ n.at \in {"out", "ok", "no"} /\ n.answer \in TaskPage!Doc \cup {None}
  BY DEF IsCall, CallFields, TaskPage!Calling, TaskOps, TaskValues, TaskPrevs

LEMMA TaskStarts == TaskPage!Init => TaskTyped
<1> SUFFICES ASSUME TaskPage!Init PROVE TaskTyped
  OBVIOUS
<1>1. /\ page \in {"task", "portal task"} /\ ui = None /\ calls = {} /\ made = 0 /\ faults = 0
      /\ clean = TRUE
  BY Zenon DEF TaskPage!Init
<1>2. server \in [Item -> TaskPage!Doc]
  <2>1. PICK s \in Status, x \in Value, o \in TaskPage!Owner :
          server = [t \in Item |-> [status |-> s, flag |-> "off", text |-> x, owner |-> o,
                                    comments |-> 0, files |-> 1, live |-> TRUE]]
    BY Zenon DEF TaskPage!Init
  <2> QED
    BY <2>1 DEF TaskPage!Doc, TaskPage!Flag
<1>3. MaxCalls[page] \in Nat /\ MaxFaults \in Nat
  BY <1>1, BoundsAreNumbers, Zenon DEF Pages
<1>4. made = 0 /\ faults = 0
  BY <1>1, Zenon
<1>5. made \in 0..MaxCalls[page] /\ faults \in 0..MaxFaults
  BY <1>3, <1>4
<1> QED
  BY <1>1, <1>2, <1>5, Zenon DEF TaskTyped, TaskPage!TypeOK

LEMMA TaskUserTypes == TaskTyped /\ TaskPage!User /\ page' = page => TaskTyped'
<1> SUFFICES ASSUME TaskTyped, TaskPage!User, page' = page PROVE TaskTyped'
  OBVIOUS
<1>0. /\ page \in {"task", "portal task"} /\ server \in [Item -> TaskPage!Doc]
      /\ ui \in TaskPage!Modal \cup {None} /\ calls \subseteq TaskPage!Calling
      /\ (\A c \in calls : Carries(c)) /\ (ui # None => Holds(ui))
  BY Zenon DEF TaskTyped, TaskPage!TypeOK
<1>n. made \in 0..MaxCalls[page] /\ faults \in 0..MaxFaults /\ MaxCalls[page] \in Nat
  BY <1>0, BoundsAreNumbers, Zenon DEF TaskTyped, TaskPage!TypeOK, Pages
\* A handler starts.
<1>1. ASSUME NEW inst \in Nat, NEW item \in Item, NEW op \in TaskOps, NEW value \in TaskValues,
             NEW prev \in TaskPrevs, TaskPage!Start(inst, item, op, value, prev),
             server' = server, faults' = faults, clean' \in BOOLEAN, ui' \in TaskPage!Modal,
             Holds(ui'),
             Writes(op, value, prev)
      PROVE  TaskTyped'
  <2> USE <1>1
  <2>0. calls' = calls \cup {Call(made, inst, item, op, value, prev)}
    BY DEF TaskPage!Start, TaskPage!Call, Call
  <2>1. made' \in 0..MaxCalls[page] /\ made \in Nat
    BY <1>n DEF TaskPage!Start, TaskPage!Counts
  <2>2. PICK n : /\ calls' = calls \cup {n} /\ IsCall(n)
                 /\ n.id = made /\ n.inst = inst /\ n.item = item /\ n.op = op
                 /\ n.value = value /\ n.prev = prev /\ n.step = 1 /\ n.at = "out" /\ n.answer = None
    <3>1. PICK n : n = Call(made, inst, item, op, value, prev)
      OBVIOUS
    <3>2. /\ IsCall(n) /\ n.id = made /\ n.inst = inst /\ n.item = item /\ n.op = op
          /\ n.value = value /\ n.prev = prev /\ n.step = 1 /\ n.at = "out" /\ n.answer = None
      BY <3>1 DEF Call, IsCall, CallFields
    <3> QED
      BY <2>0, <3>1, <3>2
  <2> USE <2>2
  <2>3. n \in TaskPage!Calling
    BY <2>1, TaskCalls
  <2>5. calls' \subseteq TaskPage!Calling
    BY <1>0, <2>3, Zenon
  <2>6. \A c \in calls' : Carries(c)
    BY <1>0, Zenon DEF Carries, Writes, TaskPage!Gets
  <2> QED
    BY <1>0, <1>n, <2>1, <2>5, <2>6, Zenon DEF TaskTyped, TaskPage!TypeOK, Holds, TaskPage!Staff
<1>2. ASSUME calls' = calls, server' = server, made' = made, faults' = faults, clean' = clean,
             ui' \in TaskPage!Modal \cup {None},
             ui' # None => Holds(ui')
      PROVE  TaskTyped'
  BY <1>0, <1>n, <1>2, Zenon DEF TaskTyped, TaskPage!TypeOK, Holds, TaskPage!Staff
<1>3. ASSUME NEW t \in Item, TaskPage!OpenTask(t)
      PROVE  TaskTyped'
  BY <1>n, <1>3, NoneIsNothing, <1>1 DEF TaskPage!OpenTask, TaskPage!Modal, TaskPage!NoDraft,
     TaskPage!Draft, TaskOps, TaskValues, TaskPrevs, TaskPage!Reloading, Writes, Holds
<1>4. CASE TaskPage!Close
  BY <1>2, <1>4 DEF TaskPage!Close
\* A handler of the dialog starts.
<1>5. ASSUME ui' \in TaskPage!Modal, server' = server, faults' = faults,
             Holds(ui'),
             NEW op \in TaskOps, NEW value \in TaskValues, NEW prev \in TaskPrevs,
             Writes(op, value, prev),
             TaskPage!Ask(op, value, prev)
      PROVE  TaskTyped'
  BY <1>5, <1>1 DEF TaskPage!Modal, TaskPage!Ask
<1>h. ASSUME ui'.text \in Value, ui'.view \in TaskPage!Doc
      PROVE  Holds(ui')
  BY <1>h DEF Holds
<1>6. None \in TaskValues /\ None \in TaskPrevs
  BY DEF TaskValues, TaskPrevs
<1>7. ASSUME TaskPage!Open
      PROVE  ui \in TaskPage!Modal /\ Holds(ui)
  BY <1>0, <1>7, Zenon DEF TaskPage!Open
<1>8. ASSUME TaskPage!Shown
      PROVE  ui \in TaskPage!Modal /\ ui.view \in TaskPage!Doc /\ ui.text \in Value
  BY <1>7, <1>8 DEF TaskPage!Shown, TaskPage!Modal, Holds
<1>9. CASE TaskPage!Retry
  <2>1. ui' \in TaskPage!Modal /\ Holds(ui')
    BY <1>7, <1>9, Zenon DEF TaskPage!Retry, TaskPage!Modal, Holds, TaskPage!Staff
  <2>2. TaskPage!Ask("load", None, None) /\ server' = server /\ faults' = faults
    BY <1>9 DEF TaskPage!Retry
  <2>3. "load" \in TaskOps /\ Writes("load", None, None)
    BY DEF TaskOps, TaskPage!Reloading, Writes
  <2> QED
    BY <1>5, <1>6, <1>h, <2>1, <2>2, <2>3
<1>10. CASE TaskPage!BlurText
  BY <1>8, <1>10, <1>5, <1>6, <1>h DEF TaskPage!BlurText, TaskPage!Modal, TaskOps, TaskValues,
     Writes
<1>11. CASE TaskPage!Detach \/ TaskPage!Delete
  BY <1>8, <1>11, <1>5, <1>6, <1>h DEF TaskPage!Detach, TaskPage!Delete, TaskOps,
     TaskPage!Reloading, Writes
<1>12. CASE TaskPage!Send \/ TaskPage!Upload
  <2>1. ui' \in TaskPage!Modal /\ ui'.text \in Value /\ ui'.view \in TaskPage!Doc /\ server' = server /\ faults' = faults
    BY <1>8, <1>12, Zenon DEF TaskPage!Send, TaskPage!Upload, TaskPage!Modal
  <2>2. TaskPage!Ask("comment", None, None) \/ TaskPage!Ask("upload", None, None)
    BY <1>12 DEF TaskPage!Send, TaskPage!Upload
  <2>3. /\ "comment" \in TaskOps /\ "upload" \in TaskOps
        /\ Writes("comment", None, None) /\ Writes("upload", None, None)
    BY DEF TaskOps, TaskPage!Reloading, Writes
  <2> QED
    BY <1>5, <1>6, <1>h, <2>1, <2>2, <2>3
<1>13. CASE TaskPage!ToggleFlag
  BY <1>8, <1>13, <1>5, <1>h DEF TaskPage!Flipped, TaskPage!Flag, TaskPage!ToggleFlag,
     TaskPage!Modal, TaskPage!Doc, Writes, TaskOps, TaskValues, TaskPrevs, TaskPage!Writing
<1>14. ASSUME NEW s \in Status, TaskPage!PickStatus(s)
       PROVE  TaskTyped'
  <2>1. ui' = [ui EXCEPT !.view.status = s, !.busy = ~TaskPage!Staff]
    BY <1>14 DEF TaskPage!PickStatus
  <2>2. PICK b \in BOOLEAN : ui' = [ui EXCEPT !.view.status = s, !.busy = b]
    BY <2>1, Zenon
  <2>3. ui' \in TaskPage!Modal /\ ui'.text \in Value /\ ui'.view \in TaskPage!Doc
    <3>1. PICK v : v = [ui.view EXCEPT !.status = s]
      BY Zenon
    <3>2. ui \in TaskPage!Modal /\ ui.view \in TaskPage!Doc /\ ui.text \in Value
      BY <1>8, <1>14 DEF TaskPage!PickStatus
    <3> USE <3>2
    <3>3. v \in TaskPage!Doc
      BY <3>1 DEF TaskPage!Doc
    <3>4. ui' = [ui EXCEPT !.view = v, !.busy = b]
      BY <2>2, <3>1 DEF TaskPage!Modal
    <3> QED
      BY <3>3, <3>4, Zenon DEF TaskPage!Modal
  <2>4. TaskPage!Ask("status", s, ui.view.status) /\ server' = server /\ faults' = faults
    BY <1>14 DEF TaskPage!PickStatus
  <2>5. "status" \in TaskOps /\ s \in TaskValues /\ ui.view.status \in TaskPrevs
        /\ Writes("status", s, ui.view.status)
    BY <1>8, <1>14 DEF Writes, TaskPage!PickStatus, TaskOps, TaskValues, TaskPrevs, TaskPage!Writing,
       TaskPage!Doc
  <2> QED
    BY <1>5, <1>h, <2>3, <2>4, <2>5
<1>15. ASSUME NEW o \in TaskPage!Owner, TaskPage!PickOwner(o)
       PROVE  TaskTyped'
  BY <1>8, <1>15, <1>5, <1>6, <1>h DEF TaskPage!PickOwner, TaskPage!Modal, Holds, TaskOps,
     TaskValues, Writes
<1>16. CASE \/ \E x \in Value : TaskPage!TypeText(x)
            \/ \E b \in BOOLEAN : \E kept \in SUBSET Single : TaskPage!TypeBody(b, kept)
            \/ \E m \in Single : TaskPage!AcceptMember(m)
  <2>1. calls' = calls /\ server' = server /\ made' = made /\ faults' = faults /\ clean' = clean
    BY <1>16 DEF TaskPage!TypeText, TaskPage!TypeBody, TaskPage!AcceptMember
  <2>2. CASE \E x \in Value : TaskPage!TypeText(x)
    BY <1>8, <2>2, <1>2, <1>h, <2>1 DEF TaskPage!TypeText, TaskPage!Modal
  <2>3. ASSUME TaskPage!Shown, NEW d \in TaskPage!Draft, ui' = [ui EXCEPT !.draft = d]
        PROVE  TaskTyped'
    BY <1>8, <2>3, <1>2, <1>h, <2>1 DEF TaskPage!Modal
  <2>4. ASSUME NEW b \in BOOLEAN, NEW kept \in SUBSET Single, TaskPage!TypeBody(b, kept)
        PROVE  TaskTyped'
    <3>1. PICK d : d = [body |-> b, mentions |-> kept]
      BY Zenon
    <3>2. d \in TaskPage!Draft
      BY <3>1 DEF TaskPage!Draft
    <3>3. TaskPage!Shown /\ ui' = [ui EXCEPT !.draft = d]
      BY <2>4, <3>1 DEF TaskPage!TypeBody
    <3> QED
      BY <2>3, <3>2, <3>3
  <2>5. ASSUME NEW m \in Single, TaskPage!AcceptMember(m)
        PROVE  TaskTyped'
    <3>1. PICK d : d = [body |-> TRUE, mentions |-> ui.draft.mentions \cup {m}]
      BY Zenon
    <3>2. TaskPage!Shown /\ ui \in TaskPage!Modal
      BY <1>8, <2>5 DEF TaskPage!AcceptMember
    <3> USE <3>2
    <3>3. d \in TaskPage!Draft
      BY <3>1 DEF TaskPage!Draft, TaskPage!Modal
    <3>4. ui' = [ui EXCEPT !.draft = d]
      BY <2>5, <3>1 DEF TaskPage!AcceptMember, TaskPage!Modal
    <3> QED
      BY <2>3, <3>3, <3>4
  <2> QED
    BY <1>16, <2>2, <2>4, <2>5
<1> QED
  BY <1>3, <1>4, <1>9, <1>10, <1>11, <1>12, <1>13, <1>14, <1>15, <1>16 DEF TaskPage!User

\* An answer comes, or what became of it is shown.
LEMMA TaskAnswerTypes ==
  ASSUME TaskTyped, TaskShows, NEW c \in calls, page' = page,
         TaskPage!Serve(c) \/ TaskPage!Refuse(c) \/ TaskPage!Answer(c)
  PROVE  TaskTyped'
<1>0. /\ page \in {"task", "portal task"} /\ server \in [Item -> TaskPage!Doc]
      /\ ui \in TaskPage!Modal \cup {None} /\ calls \subseteq TaskPage!Calling
      /\ \A d \in calls : Carries(d)
      /\ ui # None => Holds(ui)
  BY Zenon DEF TaskTyped, TaskPage!TypeOK
<1>n. made \in 0..MaxCalls[page] /\ faults \in 0..MaxFaults /\ MaxFaults \in Nat
  BY <1>0, BoundsAreNumbers, Zenon DEF TaskTyped, TaskPage!TypeOK, Pages
<1>b. clean \in BOOLEAN
  BY Zenon DEF TaskTyped, TaskPage!TypeOK
<1>t. /\ IsCall(c) /\ c.id \in Nat /\ c.inst \in Nat /\ c.item \in Item /\ c.op \in TaskOps
      /\ c.value \in TaskValues /\ c.prev \in TaskPrevs /\ c.step \in {1, 2}
      /\ c.at \in {"out", "ok", "no"} /\ c.answer \in TaskPage!Doc \cup {None}
  BY <1>0, TaskCalls, Zenon
\* What is common: a call goes on or ends.
<1>1. ASSUME server' \in [Item -> TaskPage!Doc], ui' \in TaskPage!Modal \cup {None},
             ui' # None => Holds(ui'),
             made' = made, faults' \in 0..MaxFaults, clean' \in BOOLEAN,
             NEW D, D \subseteq TaskPage!Calling, \A d \in D : Carries(d),
             calls' = (calls \ {c}) \cup D
      PROVE  TaskTyped'
  <2> USE <1>1
  <2>1. calls' \subseteq TaskPage!Calling
    BY <1>0, Zenon
  <2>2. \A d \in calls' : Carries(d)
    BY <1>0, Zenon
  <2> QED
    BY <1>0, <1>n, <2>1, <2>2, Zenon DEF TaskTyped, TaskPage!TypeOK, Holds, TaskPage!Staff
<1>2. ASSUME server' \in [Item -> TaskPage!Doc], ui' \in TaskPage!Modal \cup {None},
             ui' # None => Holds(ui'),
             made' = made, faults' \in 0..MaxFaults, clean' \in BOOLEAN,
             NEW x \in {"out", "ok", "no"}, NEW y \in TaskPage!Doc \cup {None},
             calls' = (calls \ {c}) \cup {[c EXCEPT !.at = x, !.answer = y]},
             TaskPage!Gets(c) /\ x = "ok" => y \in TaskPage!Doc
      PROVE  TaskTyped'
  <2> USE <1>2
  <2>1. PICK d : d = [c EXCEPT !.at = x, !.answer = y]
    OBVIOUS
  <2>2. /\ IsCall(d) /\ d.id = c.id /\ d.inst = c.inst /\ d.item = c.item /\ d.op = c.op
        /\ d.value = c.value /\ d.prev = c.prev /\ d.step = c.step /\ d.at = x /\ d.answer = y
    BY <1>t, <2>1, Zenon DEF IsCall, CallFields
  <2>3. d \in TaskPage!Calling
    BY <1>t, <2>2, TaskCalls
  <2>4. Carries(d)
    BY <1>0, <2>2, Zenon DEF TaskPage!Gets, Carries
  <2>5. calls' = (calls \ {c}) \cup {d}
    BY <2>1
  <2> QED
    BY <1>1, <2>3, <2>4, <2>5, ZenonT(30)
<1>3. ASSUME ui' \in TaskPage!Modal \cup {None},
             ui' # None => Holds(ui'),
             server' = server, made' = made, faults' = faults, clean' \in BOOLEAN,
             calls' = (calls \ {c}) \cup {[c EXCEPT !.step = 2, !.at = "out", !.answer = None]}
      PROVE  TaskTyped'
  <2>1. PICK d : d = [c EXCEPT !.step = 2, !.at = "out", !.answer = None]
    OBVIOUS
  <2>2. /\ IsCall(d) /\ d.id = c.id /\ d.inst = c.inst /\ d.item = c.item /\ d.op = c.op
        /\ d.value = c.value /\ d.prev = c.prev /\ d.step = 2 /\ d.at = "out" /\ d.answer = None
    BY <1>t, <2>1, Zenon DEF IsCall, CallFields
  <2>3. d \in TaskPage!Calling
    BY <1>t, <2>2, TaskCalls
  <2>4. Carries(d)
    BY <1>0, <2>2, Zenon DEF Carries
  <2>5. calls' = (calls \ {c}) \cup {d}
    BY <1>3, <2>1
  <2> QED
    BY <1>0, <1>n, <1>1, <1>3, <2>3, <2>4, <2>5, Zenon
<1>4. ASSUME ui' \in TaskPage!Modal \cup {None},
             ui' # None => Holds(ui'),
             server' = server, made' = made, faults' = faults, clean' \in BOOLEAN,
             calls' = calls \ {c}
      PROVE  TaskTyped'
  <2>1. calls' = (calls \ {c}) \cup {}
    BY <1>4
  <2>2. {} \subseteq TaskPage!Calling /\ \A d \in {} : Carries(d)
    OBVIOUS
  <2> QED
    BY <1>0, <1>n, <1>1, <1>4, <2>1, <2>2, Zenon
<1>5. CASE TaskPage!Serve(c)
  <2>1. /\ ui' = ui /\ made' = made /\ faults' = faults /\ clean' = (clean /\ ~TaskPage!Overtakes(c))
        /\ c.op = "detach" /\ c.step = 1 => server[c.item].files > 0
    BY <1>5 DEF TaskPage!Serve
  <2>2. clean' \in BOOLEAN
    BY <2>1
  <2>3. server[c.item] \in TaskPage!Doc
    BY <1>0, <1>t, Zenon
  <2>4. CASE TaskPage!Gets(c)
    <3>1. calls' = (calls \ {c}) \cup {[c EXCEPT !.at = "ok", !.answer = server[c.item]]} /\ server' = server
      BY <1>5, <2>4 DEF TaskPage!Serve, TaskPage!Answered, TaskPage!Replace
    <3> QED
      BY <1>0, <1>n, <1>2, <2>1, <2>2, <2>3, <3>1, Zenon
  <2>5. CASE ~TaskPage!Gets(c)
    <3>1. /\ calls' = (calls \ {c}) \cup {[c EXCEPT !.at = "ok", !.answer = None]}
          /\ server' = [server EXCEPT ![c.item] = TaskPage!Applied(server[c.item], c)]
      BY <1>5, <2>5 DEF TaskPage!Serve, TaskPage!Answered, TaskPage!Replace
    <3>2. TaskPage!Applied(server[c.item], c) \in TaskPage!Doc
      <4>1. c.op \in {"status", "flag", "text", "owner", "comment", "upload", "detach", "delete"}
            /\ c.step = 1
        BY <1>t, <2>5 DEF TaskOps, TaskPage!Gets, TaskPage!Writing, TaskPage!Reloading
      <4>2. Writes(c.op, c.value, c.prev)
        BY <1>0, Zenon DEF Carries
      <4>3. PICK d \in TaskPage!Doc : d = server[c.item]
        BY <2>3
      <4>4. d.comments \in Nat /\ d.files \in Nat /\ (c.op = "detach" => d.files > 0)
        BY <2>1, <4>1, <4>3 DEF TaskPage!Doc
      <4>5. d.comments + 1 \in Nat /\ d.files + 1 \in Nat /\ (c.op = "detach" => d.files - 1 \in Nat)
        BY <4>4
      <4> QED
        BY <4>1, <4>2, <4>3, <4>5, Zenon DEF TaskPage!Applied, TaskPage!Doc, Writes
    <3>3. server' \in [Item -> TaskPage!Doc]
      BY <1>0, <3>1, <3>2, Zenon
    <3> QED
      BY <1>0, <1>n, <1>2, <2>1, <2>2, <2>5, <3>1, <3>3, Zenon
  <2> QED
    BY <2>4, <2>5
<1>6. CASE TaskPage!Refuse(c)
  <2>1. /\ ui' = ui /\ made' = made /\ server' = server /\ clean' = clean
        /\ calls' = (calls \ {c}) \cup {[c EXCEPT !.at = "no", !.answer = None]}
        /\ faults' = faults \/ (faults < MaxFaults /\ faults' = faults + 1)
    BY <1>6 DEF TaskPage!Refuse, TaskPage!Refused, TaskPage!Fault, TaskPage!Replace
  <2>2. faults' \in 0..MaxFaults
    BY <1>n, <2>1
  <2> QED
    BY <1>0, <1>b, <1>2, <2>1, <2>2, Zenon
<1>7. ASSUME ui' \in TaskPage!Modal \cup {None},
             ui' # None => Holds(ui'),
             TaskPage!Answer(c)
      PROVE  TaskTyped'
  <2> USE <1>7
  <2>1. clean' \in BOOLEAN
    <3>1. clean' = clean \/ clean' = (clean /\ ~TaskPage!Baseless(c))
          \/ clean' = (clean /\ (c.at = "no" => ~TaskPage!Baseless(c)))
      BY Zenon DEF TaskPage!Answer, TaskPage!Loaded, TaskPage!LoadFails,
       TaskPage!FieldAnswered, TaskPage!StatusSaved, TaskPage!StatusRefreshed, TaskPage!StatusFails,
       TaskPage!FlagAnswered, TaskPage!CommentPosted, TaskPage!CommentShown, TaskPage!CommentFails,
       TaskPage!FileStored, TaskPage!FilesShown, TaskPage!FileFails, TaskPage!Deleted
    <3> QED
      BY <1>b, <3>1, Zenon
  <2>2. /\ server' = server /\ made' = made /\ faults' = faults
        /\ \/ calls' = calls \ {c}
           \/ calls' = (calls \ {c}) \cup {[c EXCEPT !.step = 2, !.at = "out", !.answer = None]}
    BY DEF TaskPage!Answer, TaskPage!Loaded, TaskPage!LoadFails,
     TaskPage!FieldAnswered, TaskPage!StatusSaved, TaskPage!StatusRefreshed, TaskPage!StatusFails,
     TaskPage!FlagAnswered, TaskPage!CommentPosted, TaskPage!CommentShown, TaskPage!CommentFails,
     TaskPage!FileStored, TaskPage!FilesShown, TaskPage!FileFails, TaskPage!Deleted,
     TaskPage!Ends, TaskPage!Continue, TaskPage!Replace
  <2> QED
    BY <1>3, <1>4, <2>1, <2>2
\* What the answers do to the dialog.
<1>8. CASE TaskPage!Answer(c) /\ ui' # ui /\ ui' # None
  <2>1. ui # None /\ c.inst = ui.inst
    BY <1>8 DEF TaskPage!Answer, TaskPage!Loaded, TaskPage!LoadFails,
       TaskPage!FieldAnswered, TaskPage!StatusSaved, TaskPage!StatusRefreshed,
       TaskPage!StatusFails, TaskPage!FlagAnswered, TaskPage!CommentPosted,
       TaskPage!CommentShown, TaskPage!CommentFails, TaskPage!FileStored, TaskPage!FilesShown,
       TaskPage!FileFails, TaskPage!Deleted, TaskPage!LoadBreaks, TaskPage!Touches,
       TaskPage!Reaches, TaskPage!Open
  <2>2. /\ ui \in TaskPage!Modal
        /\ ui.view # None => ui.view \in TaskPage!Doc /\ ui.text \in Value
        /\ Holds(ui)
    BY <1>0, <2>1, Zenon DEF TaskPage!Modal, Holds
  <2>3. TaskPage!Gets(c) /\ c.at = "ok" =>
          /\ c.answer \in TaskPage!Doc
          /\ TaskPage!Filled(ui, c) \in TaskPage!Modal
          /\ TaskPage!Filled(ui, c).text \in Value
          /\ TaskPage!Filled(ui, c).view \in TaskPage!Doc
    <3>1. TaskPage!Gets(c) /\ c.at = "ok" => c.answer \in TaskPage!Doc
      BY <1>0, Zenon DEF Carries
    <3> QED
      BY <1>t, <2>2, <3>1, Zenon DEF TaskPage!Filled, TaskPage!Doc, TaskPage!Modal
  <2>4. ASSUME ui' \in TaskPage!Modal, Holds(ui')
        PROVE  TaskTyped'
    BY <1>7, <1>8, <2>4
  <2>5. TaskPage!NoDraft \in TaskPage!Draft
    BY DEF TaskPage!NoDraft, TaskPage!Draft
  <2>6. ASSUME NEW m \in TaskPage!Modal, Holds(m),
               \/ ui' = m
               \/ ui' = [m EXCEPT !.busy = FALSE]
               \/ ui' = [m EXCEPT !.sending = FALSE]
               \/ ui' = [m EXCEPT !.uploading = FALSE]
               \/ ui' = [m EXCEPT !.draft = TaskPage!NoDraft, !.sending = FALSE]
               \/ ui' = [m EXCEPT !.loading = TRUE, !.draft = TaskPage!NoDraft, !.sending = FALSE]
               \/ /\ ~TaskPage!Staff
                  /\ ui' = [m EXCEPT !.view = None, !.loading = FALSE, !.draft = TaskPage!NoDraft]
               \/ /\ ~TaskPage!Staff
                  /\ ui' = [m EXCEPT !.view = None, !.loading = FALSE, !.draft = TaskPage!NoDraft,
                                     !.uploading = FALSE]
        PROVE  TaskTyped'
    <3>1. ui' \in TaskPage!Modal
      BY <2>5, <2>6, Zenon DEF TaskPage!Modal
    <3>2. Holds(ui')
      BY <2>6, Zenon DEF TaskPage!Modal, Holds
    <3> QED
      BY <2>4, <3>1, <3>2
  <2>7. ASSUME NEW m, m.text \in Value, m.view \in TaskPage!Doc
        PROVE  Holds(m)
    BY <2>7 DEF Holds
  <2>8. CASE TaskPage!Loaded(c) \/ TaskPage!FilesShown(c)
    <3>1. TaskPage!Gets(c) /\ c.at = "ok"
      BY <2>8 DEF TaskPage!Loaded, TaskPage!FilesShown, TaskPage!Gets
    <3>2. PICK m : m = TaskPage!Filled(ui, c)
      OBVIOUS
    <3>3. ui' = m \/ ui' = [m EXCEPT !.uploading = FALSE]
      BY <1>8, <2>8, <3>2 DEF TaskPage!Loaded, TaskPage!FilesShown
    <3>4. m \in TaskPage!Modal /\ Holds(m)
      BY <2>3, <2>7, <3>1, <3>2
    <3> QED
      BY <2>6, <3>3, <3>4, Zenon
  <2>9. CASE TaskPage!LoadBreaks(c)
    BY <1>8, <2>2, <2>6, <2>9, ZenonT(30) DEF TaskPage!LoadBreaks
  <2>10. CASE TaskPage!CommentFails(c) \/ TaskPage!FileStored(c) \/ TaskPage!FileFails(c)
    <3>1. \/ TaskPage!LoadBreaks(c)
          \/ ui' = [ui EXCEPT !.sending = FALSE]
          \/ ui' = [ui EXCEPT !.uploading = FALSE]
          \/ ui' = [ui EXCEPT !.loading = TRUE, !.draft = TaskPage!NoDraft, !.sending = FALSE]
          \/ /\ ~TaskPage!Staff
             /\ ui' = [ui EXCEPT !.view = None, !.loading = FALSE, !.draft = TaskPage!NoDraft,
                                 !.uploading = FALSE]
      BY <1>8, <2>10 DEF TaskPage!CommentFails, TaskPage!FileStored, TaskPage!FileFails
    <3> QED
      BY <2>2, <2>6, <2>9, <3>1, Zenon
  <2>11. CASE TaskPage!CommentShown(c)
    <3>1. TaskPage!Gets(c) /\ c.at = "ok"
      BY <2>11 DEF TaskPage!CommentShown, TaskPage!Gets
    <3>2. PICK v : v = [ui.view EXCEPT !.comments = c.answer.comments]
      BY Zenon
    <3>3. PICK m : /\ ui' = [m EXCEPT !.draft = TaskPage!NoDraft, !.sending = FALSE]
                   /\ \/ m = TaskPage!Filled(ui, c)
                      \/ m = ui
                      \/ ui.view # None /\ m = [ui EXCEPT !.view = v]
      BY <1>8, <2>2, <2>11, <3>2, Zenon DEF TaskPage!CommentShown, TaskPage!Modal
    <3>4. ui.view # None => v \in TaskPage!Doc
      BY <2>2, <2>3, <3>1, <3>2 DEF TaskPage!Doc
    <3>5. m \in TaskPage!Modal /\ Holds(m)
      BY <2>3, <2>7, <3>1, <2>2, <3>4, <3>3 DEF TaskPage!Modal
    <3> QED
      BY <2>6, <3>3, <3>5, Zenon
  <2>12. CASE TaskPage!StatusRefreshed(c) \/ TaskPage!StatusFails(c)
    <3>1. c.op = "status" /\ c.prev \in Status /\ c.value \in Status
      BY <1>0, <2>12, ZenonT(30) DEF TaskPage!StatusRefreshed, TaskPage!StatusFails, Carries, Writes
    <3>2. CASE \E x \in Status : ui.view \in TaskPage!Doc /\ ui.text \in Value /\ (\/ ui' = [ui EXCEPT !.view.status = x]
                                 \/ ui' = [ui EXCEPT !.view.status = x, !.busy = FALSE])
      <4>1. PICK x \in Status : ui.view \in TaskPage!Doc /\ ui.text \in Value /\ (\/ ui' = [ui EXCEPT !.view.status = x]
                                 \/ ui' = [ui EXCEPT !.view.status = x, !.busy = FALSE])
        BY <3>2, Zenon
      <4> USE <4>1
      <4>2. PICK v : v = [ui.view EXCEPT !.status = x]
        BY Zenon
      <4>3. v \in TaskPage!Doc
        BY <2>2, <4>2 DEF TaskPage!Doc
      <4>4. PICK m : m = [ui EXCEPT !.view = v]
        BY Zenon
      <4>5. ui' = m \/ ui' = [m EXCEPT !.busy = FALSE]
        BY <2>2, <4>2, <4>4 DEF TaskPage!Modal
      <4>6. m \in TaskPage!Modal /\ m.text \in Value /\ m.view \in TaskPage!Doc
        BY <2>2, <4>3, <4>4 DEF TaskPage!Modal
      <4> QED
        BY <2>6, <2>7, <4>5, <4>6, Zenon
    <3>3. CASE ui' = [ui EXCEPT !.busy = FALSE]
      BY <2>2, <2>6, <3>3, Zenon
    <3>4. CASE TaskPage!StatusFails(c)
      BY <1>8, <2>2, <3>1, <3>2, <3>3, <3>4, Zenon DEF TaskPage!StatusFails
    <3>5. CASE TaskPage!StatusRefreshed(c)
      <4>1. CASE ui' # [ui EXCEPT !.busy = FALSE]
        <5>1. TaskPage!Gets(c) /\ c.at = "ok" /\ ui.view.status = c.value
              /\ ui' = [ui EXCEPT !.view.status = c.answer.status]
          BY <1>8, <3>5, <4>1 DEF TaskPage!StatusRefreshed, TaskPage!Gets
        <5>2. c.answer.status \in Status
          BY <2>3, <5>1 DEF TaskPage!Doc
        <5>3. CASE ui.view \in TaskPage!Doc /\ ui.text \in Value
          BY <3>2, <5>1, <5>2, <5>3, Zenon
        <5>4. ui.view \in TaskPage!Doc /\ ui.text \in Value
          BY <1>8, <3>5, <4>1, <2>1, <2>2 DEF TaskPage!StatusRefreshed, TaskShows,
             ShowsFor, Holds
        <5> QED
          BY <5>3, <5>4
      <4> QED
        BY <3>3, <4>1
    <3> QED
      BY <2>12, <3>4, <3>5
  <2>13. CASE TaskPage!FlagAnswered(c)
    <3>1. ui.view # None /\ ui' = [ui EXCEPT !.view.flag = c.prev]
      BY <1>8, <2>13 DEF TaskPage!FlagAnswered, TaskPage!Touches
    <3> USE <3>1
    <3>2. c.prev \in TaskPage!Flag
      BY <1>0, <2>13, Zenon DEF TaskPage!FlagAnswered, Carries, Writes
    <3>3. PICK v : v = [ui.view EXCEPT !.flag = c.prev]
      BY Zenon
    <3>4. v \in TaskPage!Doc
      BY <2>2, <3>2, <3>3 DEF TaskPage!Doc
    <3>5. ui' = [ui EXCEPT !.view = v]
      BY <2>2, <3>3 DEF TaskPage!Modal
    <3>6. ui' \in TaskPage!Modal /\ ui'.text \in Value /\ ui'.view \in TaskPage!Doc
      BY <2>2, <3>4, <3>5 DEF TaskPage!Modal
    <3> QED
      BY <2>6, <2>7, <3>6, Zenon
  <2>14. CASE \/ TaskPage!FieldAnswered(c) \/ TaskPage!StatusSaved(c)
              \/ TaskPage!CommentPosted(c) \/ TaskPage!Deleted(c)
    BY <1>8, <2>14 DEF TaskPage!FieldAnswered, TaskPage!StatusSaved, TaskPage!CommentPosted,
       TaskPage!Deleted
  <2> QED
    BY <1>8, <2>8, <2>9, <2>10, <2>11, <2>12, <2>13, <2>14 DEF TaskPage!Answer, TaskPage!LoadFails
<1>9. CASE TaskPage!Answer(c) /\ (ui' = ui \/ ui' = None)
  BY <1>0, <1>7, <1>9, Zenon
<1> QED
  BY <1>5, <1>6, <1>8, <1>9

LEMMA TaskSteps == TaskTyped /\ TaskShows /\ TaskPage!Next /\ page' = page => TaskTyped'
<1> SUFFICES ASSUME TaskTyped, TaskShows, TaskPage!Next, page' = page PROVE TaskTyped'
  OBVIOUS
<1>1. ASSUME NEW t \in Item, TaskPage!Elsewhere(t)
      PROVE  TaskTyped'
  <2>1. /\ server \in [Item -> TaskPage!Doc] /\ server[t] \in TaskPage!Doc
        /\ page \in {"task", "portal task"}
    BY Zenon DEF TaskTyped, TaskPage!TypeOK
  <2>2. server' \in [Item -> TaskPage!Doc]
    <3>1. CASE server' = [server EXCEPT ![t].live = FALSE]
      BY <2>1, <3>1, Zenon DEF TaskPage!Doc
    <3>2. CASE \E s \in Status : server' = [server EXCEPT ![t].status = s]
      BY <2>1, <3>2, Zenon DEF TaskPage!Doc
    <3> QED
      BY <1>1, <3>1, <3>2 DEF TaskPage!Elsewhere
  <2>3. MaxCalls[page] \in Nat /\ made \in 0..MaxCalls[page]
    BY <2>1, BoundsAreNumbers, Zenon DEF Pages, TaskTyped, TaskPage!TypeOK
  <2>4. made < MaxCalls[page] /\ made' = made + 1
    BY <1>1 DEF TaskPage!Elsewhere, TaskPage!Counts
  <2>5. made' \in 0..MaxCalls[page]
    BY <2>3, <2>4
  <2>6. ui' = ui /\ calls' = calls /\ faults' = faults /\ clean' = FALSE
    BY <1>1 DEF TaskPage!Elsewhere
  <2>7. /\ page \in {"task", "portal task"} /\ ui \in TaskPage!Modal \cup {None}
        /\ calls \subseteq TaskPage!Calling /\ faults \in 0..MaxFaults
        /\ (\A c \in calls : Carries(c)) /\ (ui # None => Holds(ui))
    BY Zenon DEF TaskTyped, TaskPage!TypeOK
  <2>8. TaskPage!TypeOK'
    BY <2>2, <2>5, <2>6, <2>7, Zenon DEF TaskPage!TypeOK
  <2> QED
    BY <2>6, <2>7, <2>8, Zenon DEF TaskTyped, Holds, TaskPage!Staff
<1> QED
  BY <1>1, TaskUserTypes, TaskAnswerTypes DEF TaskPage!Next

-----------------------------------------------------------------------------
(* Status and flag settle                                                  *)

LEMMA SettlingNone ==
  ASSUME NEW op, NEW S, NEW v, \A c \in S : c.op # op
  PROVE  Settling(op, S, v, v)
  BY DEF Settling, Unserved

\* Only the calls of that kind count.
LEMMA SettlingOthers ==
  ASSUME NEW op, NEW S, NEW T, NEW v, NEW w, Settling(op, S, v, w),
         \A c : c.op = op => (c \in T <=> c \in S)
  PROVE  Settling(op, T, v, w)
  BY DEF Settling, Unserved

LEMMA SettlingPicked ==
  ASSUME NEW op, NEW S, NEW v, NEW w, Settling(op, S, v, w), NEW n,
         \A c \in S : c.id \in Nat /\ c.id < n.id, n.id \in Nat,
         \A c \in S : c.op = op => c.value # n.value,
         n.op = op, n.step = 1, n.at = "out", n.prev = v
  PROVE  Settling(op, S \cup {n}, n.value, w)
  BY DEF Unserved, Settling

\* A call that is answered or goes on.
LEMMA SettlingServed ==
  ASSUME NEW op, NEW S, NEW v, NEW w, NEW u, Settling(op, S, v, w), NEW c \in S, NEW d,
         \A e \in S : e.id \in Nat /\ e.at \in {"out", "ok", "no"},
         c.op = op, d.op = op, d.id = c.id, d.value = c.value, d.prev = c.prev,
         \/ Unserved(c, op) /\ Unserved(d, op) /\ d.at = "no" /\ u = w
         \/ ~Unserved(c, op) /\ ~Unserved(d, op) /\ u = w
         \/ /\ Unserved(c, op) /\ ~Unserved(d, op) /\ u = c.value
            /\ c.at = "out"
            /\ \A e \in S : e.op = op /\ e.at = "out" => ~(e.id < c.id)
  PROVE  Settling(op, (S \ {c}) \cup {d}, v, u)
<1> DEFINE T == (S \ {c}) \cup {d}
<1>1. \A x, y \in T : x.op = op /\ y.op = op => (x.value = y.value => x = y) /\ (x.id = y.id => x = y)
  BY DEF Settling
<1>2. Unserved(d, op) => Unserved(c, op)
  OBVIOUS
<1>3. \A x, y, g \in T :
       /\ Unserved(x, op) /\ Unserved(y, op) /\ g.op = op
       /\ y.id < x.id /\ y.value = x.prev
       => g.id <= y.id \/ x.id <= g.id
  BY <1>2 DEF Settling
<1>4. \/ \E m \in T : Unserved(m, op) /\ m.value = v /\ \A e \in T : e.op = op => e.id <= m.id
      \/ v = u /\ \A e \in T : Unserved(e, op) => e.at = "no" /\ e.value # v
  BY DEF Settling, Unserved
<1> QED
  BY <1>1, <1>3, <1>4 DEF Settling

\* A call that ends: an unserved one goes back to what it captured, if that is
\* still shown for an earlier one, or there for good.
LEMMA SettlingEnded ==
  ASSUME NEW op, NEW S, NEW v, NEW w, Settling(op, S, v, w), NEW c \in S, NEW u,
         \A e \in S : e.id \in Nat /\ e.at \in {"out", "ok", "no"},
         \/ ~Unserved(c, op) /\ u = v
         \/ /\ Unserved(c, op) /\ c.at = "no"
            /\ u = IF v = c.value THEN c.prev ELSE v
            /\ \/ \E d \in S : Unserved(d, op) /\ d.id < c.id /\ d.value = c.prev
               \/ c.prev = w /\ \A d \in S : Unserved(d, op) /\ d.id < c.id => d.at # "out"
  PROVE  Settling(op, S \ {c}, u, w)
<1> DEFINE T == S \ {c}
<1>1. /\ \A x, d \in T : x.op = op /\ d.op = op => (x.value = d.value => x = d) /\ (x.id = d.id => x = d)
      /\ \A x, d, g \in T :
           /\ Unserved(x, op) /\ Unserved(d, op) /\ g.op = op
           /\ d.id < x.id /\ d.value = x.prev
           => g.id <= d.id \/ x.id <= g.id
  BY DEF Settling
<1>2. \/ \E m \in T : Unserved(m, op) /\ m.value = u /\ \A d \in T : d.op = op => d.id <= m.id
      \/ u = w /\ \A d \in T : Unserved(d, op) => d.at = "no" /\ d.value # u
  <2>1. CASE \E m \in S : Unserved(m, op) /\ m.value = v /\ \A d \in S : d.op = op => d.id <= m.id
    BY <2>1 DEF Settling, Unserved
  <2>2. CASE v = w /\ \A d \in S : Unserved(d, op) => d.at = "no" /\ d.value # v
    BY <2>2
  <2> QED
    BY <2>1, <2>2 DEF Settling
<1> QED
  BY <1>1, <1>2 DEF Settling

\* A call that writes neither starts,
LEMMA TidyStarted ==
  ASSUME NEW i, NEW v, NEW b, NEW S, NEW doc, Tidy(i, v, b, S, doc), NEW n,
         n.inst = i, n.op \notin TaskPage!Writing, n.at = "out",
         n.op \in TaskPage!Reloading => \A c \in S : c.op \notin TaskPage!Writing
  PROVE  Tidy(i, v, b, S \cup {n}, doc)
  BY SettlingOthers DEF TaskPage!Writing, Tidy

\* is answered or goes on,
LEMMA TidyServed ==
  ASSUME NEW i, NEW v, NEW b, NEW S, NEW doc, Tidy(i, v, b, S, doc), NEW c \in S, NEW d, NEW e,
         c.op \notin TaskPage!Writing, d.op = c.op, d.inst = c.inst, Reads(d, doc),
         e.status = doc.status, e.flag = doc.flag
  PROVE  Tidy(i, v, b, (S \ {c}) \cup {d}, e)
  BY SettlingOthers DEF TaskPage!Writing, Tidy, Reads

\* ends, and the dialog shows what it fetched, or what it did.
LEMMA TidyEnded ==
  ASSUME NEW i, NEW v, NEW b, NEW S, NEW doc, Tidy(i, v, b, S, doc), NEW c \in S, NEW u,
         c.op \notin TaskPage!Writing,
         \/ u = v
         \/ v # None /\ u # None /\ u.status = v.status /\ u.flag = v.flag
         \/ /\ c.op \in TaskPage!Reloading
            /\ u # None => u.status = doc.status /\ u.flag = doc.flag
  PROVE  Tidy(i, u, b, S \ {c}, doc)
  BY SettlingOthers, SettlingNone DEF TaskPage!Writing, Tidy

\* The user picks a status, or turns the flag over.
LEMMA TidyPicked ==
  ASSUME NEW i, NEW v, NEW b, NEW S, NEW doc, Tidy(i, v, b, S, doc), NEW n, NEW u, NEW e,
         \A c \in S : c.id \in Nat /\ c.id < n.id, n.id \in Nat,
         n.inst = i, n.step = 1, n.at = "out", v # None, u # None,
         \A c \in S : c.op \notin TaskPage!Reloading /\ (c.op = n.op => c.value # n.value),
         \/ /\ n.op = "status" /\ n.prev = v.status /\ n.value = u.status /\ u.flag = v.flag
            /\ ~TaskPage!Staff => ~b /\ e
         \/ /\ n.op = "flag" /\ n.prev = v.flag /\ n.value = u.flag /\ u.status = v.status
            /\ TaskPage!Staff
  PROVE  Tidy(i, u, e, S \cup {n}, doc)
  BY SettlingPicked, SettlingOthers DEF Tidy, TaskPage!Writing, TaskPage!Reloading

\* A write is answered, or goes on.
LEMMA TidyWritten ==
  ASSUME NEW i, NEW v, NEW b, NEW S, NEW doc, Tidy(i, v, b, S, doc), NEW c \in S, NEW d, NEW e,
         \A x \in S : x.id \in Nat /\ x.at \in {"out", "ok", "no"},
         NEW op \in TaskPage!Writing,
         c.op = op, d.op = op, d.id = c.id, d.value = c.value, d.prev = c.prev, d.inst = c.inst,
         op = "flag" => d.step = c.step,
         \/ Unserved(c, op) /\ Unserved(d, op) /\ d.at = "no" /\ e = doc
         \/ ~Unserved(c, op) /\ ~Unserved(d, op) /\ e = doc
         \/ /\ Unserved(c, op) /\ ~Unserved(d, op) /\ c.at = "out"
            /\ e.status = (IF op = "status" THEN c.value ELSE doc.status)
            /\ e.flag = (IF op = "flag" THEN c.value ELSE doc.flag)
            /\ \A x \in S : x.op = op /\ x.at = "out" => ~(x.id < c.id),
         d.step = 2 /\ d.at = "ok" /\ op = "status" =>
           d.answer.status = e.status \/ (c.at = "ok" /\ c.step = 2 /\ d.answer = c.answer)
  PROVE  Tidy(i, v, b, (S \ {c}) \cup {d}, e)
<1> DEFINE T == (S \ {c}) \cup {d}
<1>1. v # None /\ \A x \in S : x.op \notin TaskPage!Reloading
  BY DEF Tidy
<1> USE <1>1
<1>2. op \in {"status", "flag"} /\ op \notin TaskPage!Reloading
  BY DEF TaskPage!Writing, TaskPage!Reloading
<1> USE <1>2
<1>3. Settling("status", T, v.status, e.status)
  BY SettlingServed, SettlingOthers DEF Tidy
<1>4. Settling("flag", T, v.flag, e.flag)
  BY SettlingServed, SettlingOthers DEF Tidy
<1>5. \A x \in T : x.op = "status" /\ x.step = 2 /\ x.at = "ok" =>
         x.answer.status = x.value \/ e.status # x.value
  BY DEF Tidy, Settling, Unserved
<1>6. ~TaskPage!Staff =>
       /\ \A x \in T : x.op = "status" => b /\ (Unserved(x, "status") => v.status = x.value)
       /\ \A x, y \in T : x.op = "status" /\ y.op = "status" => x = y
  BY DEF Tidy
<1>8. \A x \in T : x.op = "flag" => x.step = 1
  BY DEF Tidy
<1>7. /\ \A x \in T : x.inst = i
      /\ \A x \in T : x.op \notin TaskPage!Reloading
  BY DEF Tidy
<1> QED
  BY <1>3, <1>4, <1>5, <1>6, <1>7, <1>8 DEF Tidy

\* A write ends: the status or the flag stays, or goes back.
LEMMA TidyBack ==
  ASSUME NEW i, NEW v, NEW b, NEW S, NEW doc, Tidy(i, v, b, S, doc), NEW c \in S, NEW u, NEW e,
         \A x \in S : x.id \in Nat /\ x.at \in {"out", "ok", "no"},
         NEW op \in TaskPage!Writing, c.op = op, u # None,
         op = "status" => u.flag = v.flag,
         op = "flag" => u.status = v.status /\ e = b,
         LET shown == IF op = "status" THEN v.status ELSE v.flag
             now == IF op = "status" THEN u.status ELSE u.flag
             there == IF op = "status" THEN doc.status ELSE doc.flag
         IN  \/ ~Unserved(c, op) /\ now = shown
             \/ /\ Unserved(c, op) /\ c.at = "no"
                /\ now = IF shown = c.value THEN c.prev ELSE shown
                /\ \/ \E d \in S : Unserved(d, op) /\ d.id < c.id /\ d.value = c.prev
                   \/ /\ c.prev = there
                      /\ \A d \in S : Unserved(d, op) /\ d.id < c.id => d.at # "out"
  PROVE  Tidy(i, u, e, S \ {c}, doc)
<1> DEFINE T == S \ {c}
<1>1. v # None /\ \A x \in S : x.op \notin TaskPage!Reloading
  BY DEF Tidy
<1> USE <1>1
<1>2. op \in {"status", "flag"}
  BY DEF TaskPage!Writing
<1> USE <1>2
<1>3. Settling("status", T, u.status, doc.status)
  BY SettlingEnded, SettlingOthers DEF Tidy
<1>4. Settling("flag", T, u.flag, doc.flag)
  BY SettlingEnded, SettlingOthers DEF Tidy
<1>6. ~TaskPage!Staff =>
       /\ \A x \in T : x.op = "status" => e /\ (Unserved(x, "status") => u.status = x.value)
       /\ \A x, y \in T : x.op = "status" /\ y.op = "status" => x = y
  BY DEF Tidy
<1> QED
  BY <1>3, <1>4, <1>6 DEF Tidy

LEMMA TaskSettlesUser ==
  TaskTyped /\ TaskShows /\ TaskSettles /\ TaskPage!User /\ page' = page => TaskSettles'
<1> SUFFICES ASSUME TaskTyped, TaskShows, TaskSettles, TaskPage!User, page' = page PROVE TaskSettles'
  OBVIOUS
<1>0. /\ made \in Nat /\ AreCalls(calls) /\ ui \in TaskPage!Modal \cup {None}
      /\ \A c \in calls : c.id \in Nat /\ c.id < made
  BY TaskCalls, Zenon DEF TaskShows, TaskSettles, TaskTyped, TaskPage!TypeOK
<1>1. ASSUME NEW inst, NEW item, NEW op, NEW value, NEW prev,
             TaskPage!Start(inst, item, op, value, prev)
      PROVE  /\ \A c \in calls' : c.id < made'
             /\ \E n : /\ calls' = calls \cup {n} /\ n.id = made /\ n.inst = inst
                       /\ n.op = op /\ n.value = value /\ n.prev = prev
                       /\ n.step = 1 /\ n.at = "out"
  <2>1. calls' = calls \cup {Call(made, inst, item, op, value, prev)}
    BY <1>1 DEF TaskPage!Start, TaskPage!Call, Call
  <2>2. made' = made + 1
    BY <1>1 DEF TaskPage!Start, TaskPage!Counts
  <2>3. PICK n : /\ calls' = calls \cup {n} /\ n.id = made /\ n.inst = inst
                 /\ n.op = op /\ n.value = value /\ n.prev = prev
                 /\ n.step = 1 /\ n.at = "out"
    BY <2>1, OneOut
  <2>4. \A c \in calls' : c.id < made'
    BY <1>0, <2>2, <2>3
  <2> QED
    BY <2>3, <2>4
<1>2. ASSUME calls' = calls, made' = made, server' = server, clean' = clean,
             \/ ui' = None
             \/ /\ ui # None /\ ui'.inst = ui.inst /\ ui'.task = ui.task
                /\ ui'.view = ui.view /\ ui'.busy = ui.busy
      PROVE  TaskSettles'
  BY <1>2 DEF TaskSettles, Tidy, TaskPage!Staff
<1>3. ASSUME NEW t \in Item, TaskPage!OpenTask(t)
      PROVE  TaskSettles'
  <2> USE <1>3
  <2>1. TaskPage!Start(made, t, "load", None, None) /\ clean' = (calls = {})
    BY DEF TaskPage!OpenTask
  <2>2. PICK n : /\ calls' = calls \cup {n} /\ n.inst = made /\ n.op = "load" /\ n.at = "out"
    BY <1>1 DEF TaskPage!OpenTask
  <2>3. clean' => calls' = {n}
    BY <2>2, Zenon DEF TaskPage!OpenTask
  <2>4. ui'.inst = made /\ ui'.view = None
    BY DEF TaskPage!OpenTask
  <2>5. \A c \in calls' : c.id < made'
    BY <1>1 DEF TaskPage!OpenTask
  <2>6. calls' = {n} => Tidy(ui.inst, ui.view, ui.busy, calls, server[ui.task])'
    BY <2>2, <2>4 DEF Tidy, TaskPage!Writing, TaskPage!Reloading
  <2> QED
    BY <2>3, <2>5, <2>6 DEF TaskSettles
\* A handler that writes neither starts.
<1>4. ASSUME ui # None, ui'.inst = ui.inst, ui'.task = ui.task, ui'.view = ui.view,
             ui'.busy = ui.busy, server' = server,
             NEW op, NEW value, NEW prev, op \notin TaskPage!Writing, TaskPage!Ask(op, value, prev)
      PROVE  TaskSettles'
  <2> USE <1>4
  <2>1. TaskPage!Start(ui'.inst, ui'.task, op, value, prev)
        /\ clean' = (clean /\ ~TaskPage!Overlaps(op, value))
    BY DEF TaskPage!Ask
  <2>2. PICK n : calls' = calls \cup {n} /\ n.inst = ui.inst /\ n.op = op /\ n.at = "out"
    BY <1>1, <2>1
  <2>3. \A c \in calls' : c.id < made'
    BY <1>1, <2>1
  <2>4. ASSUME clean'
        PROVE  Tidy(ui.inst, ui.view, ui.busy, calls, server[ui.task])'
    <3>1. clean /\ ~TaskPage!Overlaps(op, value)
      BY <2>1, <2>4, Zenon
    <3>2. op \in TaskPage!Reloading => \A c \in calls : c.op \notin TaskPage!Writing
      BY <3>1 DEF TaskPage!Overlaps
    <3>3. Tidy(ui.inst, ui.view, ui.busy, calls, server[ui.task])
      BY <3>1 DEF TaskSettles
    <3>4. Tidy(ui.inst, ui.view, ui.busy, calls \cup {n}, server[ui.task])
      BY <2>2, <3>2, <3>3, TidyStarted
    <3> QED
      BY <2>2, <3>4 DEF Tidy, TaskPage!Staff
  <2> QED
    BY <2>3, <2>4 DEF TaskSettles
<1>5. ASSUME ui # None
      PROVE  ui \in TaskPage!Modal
  BY <1>0, <1>5
<1>6. ASSUME ui # None,
             \/ ui' = ui
             \/ \E x : ui' = [ui EXCEPT !.loading = x]
             \/ \E x : ui' = [ui EXCEPT !.text = x]
             \/ \E x : ui' = [ui EXCEPT !.owner = x]
             \/ \E x : ui' = [ui EXCEPT !.draft = x]
             \/ \E x : ui' = [ui EXCEPT !.sending = x]
             \/ \E x : ui' = [ui EXCEPT !.uploading = x]
      PROVE  /\ ui'.inst = ui.inst /\ ui'.task = ui.task /\ ui'.view = ui.view /\ ui'.busy = ui.busy
  BY <1>5, <1>6 DEF TaskPage!Modal
<1>7. CASE TaskPage!Close
  BY <1>2, <1>7 DEF TaskPage!Close
<1>8. CASE TaskPage!Retry \/ TaskPage!BlurText \/ TaskPage!Detach \/ TaskPage!Delete
  BY <1>8, <1>4, <1>6 DEF TaskPage!Retry, TaskPage!BlurText, TaskPage!Detach, TaskPage!Delete,
     TaskPage!Open, TaskPage!Shown, TaskPage!Writing
<1>9. CASE TaskPage!Send \/ TaskPage!Upload
  BY <1>9, <1>6, <1>4 DEF TaskPage!Send, TaskPage!Upload, TaskPage!Open, TaskPage!Shown,
     TaskPage!Writing
<1>10. ASSUME NEW o \in TaskPage!Owner, TaskPage!PickOwner(o)
       PROVE  TaskSettles'
  BY <1>10, <1>4, <1>6 DEF TaskPage!PickOwner, TaskPage!Open, TaskPage!Shown, TaskPage!Writing
<1>11. CASE \/ \E x \in Value : TaskPage!TypeText(x)
            \/ \E b \in BOOLEAN : \E kept \in SUBSET Single : TaskPage!TypeBody(b, kept)
            \/ \E m \in Single : TaskPage!AcceptMember(m)
  BY <1>5, <1>11, <1>6, <1>2 DEF TaskPage!TypeText, TaskPage!TypeBody, TaskPage!AcceptMember,
     TaskPage!Open, TaskPage!Shown, TaskPage!Modal
\* The two writes.
<1>12. ASSUME ui # None, ui.view # None, ui'.view # None, ui'.inst = ui.inst, ui'.task = ui.task,
              server' = server, NEW op \in {"status", "flag"}, NEW value, NEW prev,
              TaskPage!Ask(op, value, prev),
              \/ /\ op = "status" /\ prev = ui.view.status /\ value = ui'.view.status
                 /\ ui'.view.flag = ui.view.flag /\ (~TaskPage!Staff => ~ui.busy /\ ui'.busy)
              \/ /\ op = "flag" /\ prev = ui.view.flag /\ value = ui'.view.flag
                 /\ ui'.view.status = ui.view.status /\ TaskPage!Staff
       PROVE  TaskSettles'
  <2> USE <1>12
  <2>1. TaskPage!Start(ui'.inst, ui'.task, op, value, prev)
        /\ clean' = (clean /\ ~TaskPage!Overlaps(op, value))
    BY DEF TaskPage!Ask
  <2>2. PICK n : /\ calls' = calls \cup {n} /\ n.id = made /\ n.inst = ui.inst /\ n.op = op
                 /\ n.value = value /\ n.prev = prev /\ n.step = 1 /\ n.at = "out"
    BY <1>1, <2>1
  <2>3. \A c \in calls' : c.id < made'
    BY <1>1, <2>1
  <2>4. ASSUME clean'
        PROVE  Tidy(ui.inst, ui.view, ui.busy, calls, server[ui.task])'
    <3>1. clean /\ ~TaskPage!Overlaps(op, value)
      BY <2>1, <2>4, Zenon
    <3>2. \A c \in calls : c.op \notin TaskPage!Reloading /\ (c.op = op => c.value # value)
      BY <3>1 DEF TaskPage!Overlaps, TaskPage!Writing
    <3>3. Tidy(ui.inst, ui.view, ui.busy, calls, server[ui.task])
      BY <3>1 DEF TaskSettles
    <3>4. Tidy(ui.inst, ui'.view, ui'.busy, calls \cup {n}, server[ui.task])
      BY <1>0, <2>2, <3>2, <3>3, TidyPicked
    <3> QED
      BY <2>2, <3>4 DEF Tidy, TaskPage!Staff
  <2> QED
    BY <2>3, <2>4 DEF TaskSettles
<1>13. ASSUME TaskPage!Shown
       PROVE  ui # None /\ ui \in TaskPage!Modal /\ ui.view # None /\ ui.view \in TaskPage!Doc
  BY <1>5, <1>13 DEF TaskPage!Shown, TaskPage!Open, TaskPage!Modal
<1>14. ASSUME NEW s \in Status, TaskPage!PickStatus(s)
       PROVE  TaskSettles'
  <2>1. /\ TaskPage!Shown /\ (~TaskPage!Staff => ~ui.busy) /\ server' = server
        /\ ui' = [ui EXCEPT !.view.status = s, !.busy = ~TaskPage!Staff]
        /\ TaskPage!Ask("status", s, ui.view.status)
    BY <1>14 DEF TaskPage!PickStatus
  <2> USE <2>1
  <2>2. PICK v : v = [ui.view EXCEPT !.status = s]
    BY Zenon
  <2>3. v \in TaskPage!Doc /\ v.status = s /\ v.flag = ui.view.flag
    BY <1>13, <2>2 DEF TaskPage!Doc
  <2>4. v # None
    BY <2>3, NoneIsNoTask
  <2>5. PICK b : b = ~TaskPage!Staff
    OBVIOUS
  <2>6. ui' = [ui EXCEPT !.view = v, !.busy = b]
    BY <1>13, <2>2, <2>5 DEF TaskPage!Modal
  <2>7. ui'.view = v /\ ui'.busy = b /\ ui'.inst = ui.inst /\ ui'.task = ui.task
    BY <1>13, <2>6, Zenon DEF TaskPage!Modal
  <2>8. ~TaskPage!Staff => ~ui.busy /\ ui'.busy
    BY <2>5, <2>7, Zenon
  <2> QED
    BY <1>12, <1>13, <2>3, <2>4, <2>7, <2>8
<1>15. CASE TaskPage!ToggleFlag
  BY <1>13, <1>15, NoneIsNoTask, <1>12 DEF TaskPage!ToggleFlag, TaskPage!Modal, TaskPage!Doc,
     TaskPage!Flipped, TaskPage!Flag
<1> QED
  BY <1>3, <1>7, <1>8, <1>9, <1>10, <1>11, <1>14, <1>15 DEF TaskPage!User

LEMMA TaskSettlesAnswer ==
  ASSUME TaskTyped, TaskShows, TaskSettles, page' = page, NEW c \in calls,
         TaskPage!Serve(c) \/ TaskPage!Refuse(c) \/ TaskPage!Answer(c)
  PROVE  TaskSettles'
<1>0. /\ made \in Nat /\ AreCalls(calls) /\ ui \in TaskPage!Modal \cup {None}
      /\ server \in [Item -> TaskPage!Doc]
      /\ \A d \in calls : d.id \in Nat /\ d.id < made /\ d.at \in {"out", "ok", "no"}
      /\ IsCall(c) /\ c.item \in Item /\ c.op \in TaskOps /\ c.step \in {1, 2} /\ Carries(c)
  BY TaskCalls, Zenon DEF TaskShows, TaskSettles, TaskTyped, TaskPage!TypeOK
<1>1. \A d \in calls' : d.id < made'
  <2>1. made' = made
    BY DEF TaskPage!Serve, TaskPage!Refuse, TaskPage!Answer, TaskPage!Loaded, TaskPage!LoadFails,
       TaskPage!FieldAnswered, TaskPage!StatusSaved, TaskPage!StatusRefreshed, TaskPage!StatusFails,
       TaskPage!FlagAnswered, TaskPage!CommentPosted, TaskPage!CommentShown, TaskPage!CommentFails,
       TaskPage!FileStored, TaskPage!FilesShown, TaskPage!FileFails, TaskPage!Deleted
  <2>2. \/ calls' = calls \ {c}
        \/ \E x, y : calls' = (calls \ {c}) \cup {[c EXCEPT !.at = x, !.answer = y]}
        \/ calls' = (calls \ {c}) \cup {[c EXCEPT !.step = 2, !.at = "out", !.answer = None]}
    BY Zenon DEF TaskPage!Serve, TaskPage!Refuse, TaskPage!Answered, TaskPage!Refused, TaskPage!Fault,
     TaskPage!Answer, TaskPage!Loaded, TaskPage!LoadFails,
     TaskPage!FieldAnswered, TaskPage!StatusSaved, TaskPage!StatusRefreshed, TaskPage!StatusFails,
     TaskPage!FlagAnswered, TaskPage!CommentPosted, TaskPage!CommentShown, TaskPage!CommentFails,
     TaskPage!FileStored, TaskPage!FilesShown, TaskPage!FileFails, TaskPage!Deleted,
     TaskPage!Ends, TaskPage!Continue, TaskPage!Replace
  <2>3. Heirs(calls)
    BY <1>0, <2>2, CallsGoOn, Zenon
  <2> QED
    BY <1>0, <2>1, <2>3 DEF Heirs, SameCall
<1>2. clean' => clean
  BY Zenon DEF TaskPage!Serve, TaskPage!Refuse, TaskPage!Answer, TaskPage!Loaded, TaskPage!LoadFails,
       TaskPage!FieldAnswered, TaskPage!StatusSaved, TaskPage!StatusRefreshed, TaskPage!StatusFails,
       TaskPage!FlagAnswered, TaskPage!CommentPosted, TaskPage!CommentShown, TaskPage!CommentFails,
       TaskPage!FileStored, TaskPage!FilesShown, TaskPage!FileFails, TaskPage!Deleted
<1>3. ui' # None => ui # None
  BY DEF TaskPage!Serve, TaskPage!Refuse, TaskPage!Answer, TaskPage!Loaded, TaskPage!LoadFails,
       TaskPage!FieldAnswered, TaskPage!StatusSaved, TaskPage!StatusRefreshed, TaskPage!StatusFails,
       TaskPage!FlagAnswered, TaskPage!CommentPosted, TaskPage!CommentShown, TaskPage!CommentFails,
       TaskPage!FileStored, TaskPage!FilesShown, TaskPage!FileFails, TaskPage!Deleted,
       TaskPage!LoadBreaks, TaskPage!Reaches, TaskPage!Open, TaskPage!Touches
<1>4. SUFFICES ASSUME clean', ui' # None
               PROVE  Tidy(ui.inst, ui.view, ui.busy, calls, server[ui.task])'
  BY <1>1 DEF TaskSettles
<1>5. /\ ui # None /\ clean /\ ui \in TaskPage!Modal
      /\ Tidy(ui.inst, ui.view, ui.busy, calls, server[ui.task])
  BY <1>0, <1>2, <1>3, <1>4 DEF TaskSettles
<1>6. c.inst = ui.inst /\ (\A d \in calls : d.item = ui.task) /\ ui.task \in Item
      /\ server[ui.task] \in TaskPage!Doc
  BY <1>0, <1>5 DEF Tidy, TaskShows, ShowsFor, TaskPage!Modal
<1>7. ui.view # None => ui.view \in TaskPage!Doc
  BY <1>5 DEF TaskPage!Modal
<1>8. ASSUME NEW v, NEW b, NEW S, NEW doc, Tidy(ui.inst, v, b, S, doc),
             ui'.inst = ui.inst, ui'.view = v, ui'.busy = b, calls' = S, server'[ui'.task] = doc
      PROVE  Tidy(ui.inst, ui.view, ui.busy, calls, server[ui.task])'
  BY <1>8 DEF Tidy, TaskPage!Staff
\* A call is answered.
<1>9. ASSUME NEW x, NEW y, calls' = (calls \ {c}) \cup {[c EXCEPT !.at = x, !.answer = y]}
      PROVE  \E d : /\ calls' = (calls \ {c}) \cup {d}
                   /\ SameCall(c, d) /\ d.value = c.value /\ d.prev = c.prev /\ d.step = c.step
                   /\ d.at = x /\ d.answer = y
  <2>1. calls' = (calls \ {c}) \cup {Answering(c, x, y)}
    BY <1>9 DEF Answering
  <2> QED
    BY <1>0, <2>1, OneAnswered
<1>10. CASE TaskPage!Refuse(c)
  <2>1. /\ ui' = ui /\ server' = server /\ c.at = "out"
        /\ calls' = (calls \ {c}) \cup {[c EXCEPT !.at = "no", !.answer = None]}
    BY <1>10 DEF TaskPage!Refuse, TaskPage!Refused, TaskPage!Fault, TaskPage!Replace
  <2>2. PICK d : /\ calls' = (calls \ {c}) \cup {d}
                 /\ SameCall(c, d) /\ d.value = c.value /\ d.prev = c.prev /\ d.step = c.step
                 /\ d.at = "no"
    BY <1>9, <2>1, Zenon
  <2>3. Tidy(ui.inst, ui.view, ui.busy, (calls \ {c}) \cup {d}, server[ui.task])
    <3>1. CASE c.op \notin TaskPage!Writing
      BY <1>5, <2>2, <3>1, TidyServed DEF SameCall, Reads
    <3>2. CASE c.op \in TaskPage!Writing
      BY <2>1, <2>2, <1>0, <1>5, <3>2, TidyWritten DEF Unserved, SameCall
    <3> QED
      BY <3>1, <3>2
  <2> QED
    BY <1>8, <2>1, <2>2, <2>3
<1>11. CASE TaskPage!Serve(c)
  <2>1. /\ ui' = ui /\ c.at = "out" /\ ~TaskPage!Overtakes(c)
        /\ c.op = "detach" /\ c.step = 1 => server[c.item].files > 0
    BY <1>4, <1>11, Zenon DEF TaskPage!Serve
  <2>2. CASE TaskPage!Gets(c)
    <3>1. /\ calls' = (calls \ {c}) \cup {[c EXCEPT !.at = "ok", !.answer = server[ui.task]]}
          /\ server' = server
      BY <1>6, <1>11, <2>2, Zenon DEF TaskPage!Serve, TaskPage!Answered, TaskPage!Replace
    <3>2. PICK d : /\ calls' = (calls \ {c}) \cup {d}
                   /\ SameCall(c, d) /\ d.value = c.value /\ d.prev = c.prev /\ d.step = c.step
                   /\ d.at = "ok" /\ d.answer = server[ui.task]
      <4>1. PICK x, y : x = "ok" /\ y = server[ui.task]
        OBVIOUS
      <4>2. calls' = (calls \ {c}) \cup {[c EXCEPT !.at = x, !.answer = y]}
        BY <3>1, <4>1
      <4>3. PICK d : /\ calls' = (calls \ {c}) \cup {d}
                     /\ SameCall(c, d) /\ d.value = c.value /\ d.prev = c.prev /\ d.step = c.step
                     /\ d.at = x /\ d.answer = y
        <5>1. calls' = (calls \ {c}) \cup {Answering(c, x, y)}
          BY <4>2 DEF Answering
        <5> QED
          BY <1>0, <5>1, OneAnswered
      <4> QED
        BY <4>1, <4>3
    <3>3. Tidy(ui.inst, ui.view, ui.busy, (calls \ {c}) \cup {d}, server[ui.task])
      BY <1>5, <3>2, TidyServed, <2>2, <1>0, TidyWritten DEF SameCall, Reads, TaskPage!Gets,
         TaskPage!Writing, Unserved
    <3> QED
      BY <1>8, <2>1, <3>1, <3>2, <3>3
  <2>3. CASE ~TaskPage!Gets(c)
    <3>1. /\ calls' = (calls \ {c}) \cup {[c EXCEPT !.at = "ok", !.answer = None]}
          /\ server' = [server EXCEPT ![ui.task] = TaskPage!Applied(server[ui.task], c)]
      BY <1>6, <1>11, <2>3 DEF TaskPage!Serve, TaskPage!Answered, TaskPage!Replace
    <3>2. PICK d : /\ calls' = (calls \ {c}) \cup {d}
                   /\ SameCall(c, d) /\ d.value = c.value /\ d.prev = c.prev /\ d.step = c.step
                   /\ d.at = "ok" /\ d.answer = None
      <4>1. PICK x, y : x = "ok" /\ y = None
        OBVIOUS
      <4>2. calls' = (calls \ {c}) \cup {[c EXCEPT !.at = x, !.answer = y]}
        BY <3>1, <4>1
      <4>3. PICK d : /\ calls' = (calls \ {c}) \cup {d}
                     /\ SameCall(c, d) /\ d.value = c.value /\ d.prev = c.prev /\ d.step = c.step
                     /\ d.at = x /\ d.answer = y
        <5>1. calls' = (calls \ {c}) \cup {Answering(c, x, y)}
          BY <4>2 DEF Answering
        <5> QED
          BY <1>0, <5>1, OneAnswered
      <4> QED
        BY <4>1, <4>3
    <3>3. PICK e : e = TaskPage!Applied(server[ui.task], c)
      OBVIOUS
    <3>4. server'[ui'.task] = e
      BY <1>0, <1>6, <2>1, <3>1, <3>3
    <3>5. c.step = 1 /\ c.op \in {"status", "flag", "text", "owner", "comment", "upload", "detach", "delete"}
      BY <1>0, <2>3 DEF TaskOps, TaskPage!Gets, TaskPage!Writing, TaskPage!Reloading
    <3>6. /\ e.status = (IF c.op = "status" THEN c.value ELSE server[ui.task].status)
          /\ e.flag = (IF c.op = "flag" THEN c.value ELSE server[ui.task].flag)
      BY <1>6, <3>3, <3>5 DEF TaskPage!Applied, TaskPage!Doc
    <3>7. Tidy(ui.inst, ui.view, ui.busy, (calls \ {c}) \cup {d}, e)
      <4>1. CASE c.op \notin TaskPage!Writing
        <5>1. e.status = server[ui.task].status /\ e.flag = server[ui.task].flag
          BY <3>6, <4>1 DEF TaskPage!Writing
        <5>2. Reads(d, server[ui.task])
          BY <2>3, <3>2 DEF Reads, TaskPage!Gets, SameCall
        <5> QED
          BY <1>5, <3>2, <4>1, <5>1, <5>2, TidyServed DEF SameCall
      <4>2. CASE c.op \in TaskPage!Writing
        BY <2>1, <3>2, <3>5, <4>2, <1>0, <1>5, <3>6, TidyWritten DEF Unserved,
           TaskPage!Overtakes, SameCall
      <4> QED
        BY <4>1, <4>2
    <3> QED
      BY <1>8, <2>1, <3>2, <3>4, <3>7
  <2> QED
    BY <2>2, <2>3
\* A call goes on.
<1>12. ASSUME calls' = (calls \ {c}) \cup {[c EXCEPT !.step = 2, !.at = "out", !.answer = None]}
       PROVE  \E d : /\ calls' = (calls \ {c}) \cup {d}
                    /\ SameCall(c, d) /\ d.value = c.value /\ d.prev = c.prev /\ d.step = 2
                    /\ d.at = "out"
  <2>1. PICK d : d = [c EXCEPT !.step = 2, !.at = "out", !.answer = None]
    OBVIOUS
  <2>2. /\ SameCall(c, d) /\ d.value = c.value /\ d.prev = c.prev /\ d.step = 2 /\ d.at = "out"
    BY <1>0, <2>1 DEF IsCall, CallFields, SameCall
  <2>3. calls' = (calls \ {c}) \cup {d}
    BY <1>12, <2>1
  <2> QED
    BY <2>2, <2>3
<1>13. CASE TaskPage!StatusSaved(c)
  <2>1. /\ ui' = ui /\ server' = server /\ c.op = "status" /\ c.step = 1 /\ c.at = "ok"
        /\ calls' = (calls \ {c}) \cup {[c EXCEPT !.step = 2, !.at = "out", !.answer = None]}
    BY <1>13 DEF TaskPage!StatusSaved, TaskPage!Continue, TaskPage!Replace
  <2>2. PICK d : /\ calls' = (calls \ {c}) \cup {d}
                 /\ SameCall(c, d) /\ d.value = c.value /\ d.prev = c.prev /\ d.step = 2
                 /\ d.at = "out"
    BY <1>12, <2>1
  <2>3. "status" \in TaskPage!Writing /\ ~Unserved(c, "status") /\ ~Unserved(d, "status")
    BY <2>1, <2>2 DEF TaskPage!Writing, Unserved
  <2>4. Tidy(ui.inst, ui.view, ui.busy, (calls \ {c}) \cup {d}, server[ui.task])
    BY <1>0, <1>5, <2>1, <2>2, <2>3, TidyWritten DEF SameCall
  <2> QED
    BY <1>8, <2>1, <2>2, <2>4
<1>14. CASE TaskPage!CommentPosted(c) \/ TaskPage!FileStored(c)
  <2>1. /\ server' = server /\ c.op \in {"comment", "upload", "detach"}
        /\ calls' = (calls \ {c}) \cup {[c EXCEPT !.step = 2, !.at = "out", !.answer = None]}
        /\ \/ ui' = ui
           \/ ui' = [ui EXCEPT !.loading = TRUE, !.draft = TaskPage!NoDraft, !.sending = FALSE]
    BY <1>14 DEF TaskPage!CommentPosted, TaskPage!FileStored, TaskPage!Continue, TaskPage!Replace
  <2>2. PICK d : /\ calls' = (calls \ {c}) \cup {d} /\ SameCall(c, d) /\ d.at = "out"
    BY <1>12, <2>1
  <2>3. c.op \notin TaskPage!Writing
    BY <2>1 DEF TaskPage!Writing
  <2>4. Tidy(ui.inst, ui.view, ui.busy, (calls \ {c}) \cup {d}, server[ui.task])
    BY <1>5, <2>2, <2>3, TidyServed DEF SameCall, Reads
  <2>5. ui'.inst = ui.inst /\ ui'.view = ui.view /\ ui'.busy = ui.busy /\ ui'.task = ui.task
    BY <1>5, <2>1, Zenon DEF TaskPage!Modal
  <2> QED
    BY <1>8, <2>1, <2>2, <2>4, <2>5
\* A call that wrote neither ends.
<1>15. ASSUME c.op \notin TaskPage!Writing, calls' = calls \ {c}, server' = server,
              ui'.inst = ui.inst, ui'.task = ui.task, ui'.busy = ui.busy,
              \/ ui'.view = ui.view
              \/ /\ ui.view # None /\ ui'.view # None
                 /\ ui'.view.status = ui.view.status /\ ui'.view.flag = ui.view.flag
              \/ c.op \in TaskPage!Reloading /\ ui'.view = None
              \/ /\ c.op \in TaskPage!Reloading /\ TaskPage!Gets(c) /\ c.at = "ok"
                 /\ ui'.view = c.answer
       PROVE  Tidy(ui.inst, ui.view, ui.busy, calls, server[ui.task])'
  <2>1. \/ ui'.view = ui.view
        \/ /\ ui.view # None /\ ui'.view # None
           /\ ui'.view.status = ui.view.status /\ ui'.view.flag = ui.view.flag
        \/ /\ c.op \in TaskPage!Reloading
           /\ ui'.view # None => /\ ui'.view.status = server[ui.task].status
                                /\ ui'.view.flag = server[ui.task].flag
    BY <1>5, <1>15 DEF Tidy
  <2>2. Tidy(ui.inst, ui'.view, ui.busy, calls \ {c}, server[ui.task])
    BY <1>5, <1>15, <2>1, TidyEnded
  <2> QED
    BY <1>8, <1>15, <2>2
<1>16. TaskPage!Filled(ui, c).view = c.answer /\ TaskPage!Filled(ui, c).inst = ui.inst
       /\ TaskPage!Filled(ui, c).task = ui.task /\ TaskPage!Filled(ui, c).busy = ui.busy
  BY <1>5 DEF TaskPage!Filled, TaskPage!Modal
<1>17. ASSUME NEW u, u = [f \in TaskFields |-> u[f]],
              \/ ui' = [u EXCEPT !.sending = FALSE]
              \/ ui' = [u EXCEPT !.uploading = FALSE]
              \/ ui' = [u EXCEPT !.draft = TaskPage!NoDraft, !.sending = FALSE]
       PROVE  ui'.inst = u.inst /\ ui'.task = u.task /\ ui'.busy = u.busy /\ ui'.view = u.view
  BY <1>17, Zenon DEF TaskFields
<1>18. ui = [f \in TaskFields |-> ui[f]]
       /\ TaskPage!Filled(ui, c) = [f \in TaskFields |-> TaskPage!Filled(ui, c)[f]]
  BY <1>5, Zenon DEF TaskPage!Filled, TaskPage!Modal, TaskFields
<1>19. CASE TaskPage!Loaded(c) \/ TaskPage!FilesShown(c)
  <2>1. /\ c.op \in TaskPage!Reloading /\ c.op \notin TaskPage!Writing /\ TaskPage!Gets(c)
        /\ c.at = "ok" /\ calls' = calls \ {c} /\ server' = server
        /\ ui' = TaskPage!Filled(ui, c) \/ ui' = [TaskPage!Filled(ui, c) EXCEPT !.uploading = FALSE]
    BY <1>5, <1>6, <1>19, Zenon DEF TaskPage!Loaded, TaskPage!FilesShown, TaskPage!Reaches, TaskPage!Open,
       TaskPage!Reloading, TaskPage!Writing, TaskPage!Gets, TaskPage!Ends
  <2>2. ui'.view = c.answer /\ ui'.inst = ui.inst /\ ui'.task = ui.task /\ ui'.busy = ui.busy
    BY <1>16, <1>17, <1>18, <2>1, Zenon
  <2> QED
    BY <1>15, <2>1, <2>2
<1>20. CASE TaskPage!CommentShown(c)
  <2>1. /\ c.op \in TaskPage!Reloading /\ c.op \notin TaskPage!Writing /\ TaskPage!Gets(c)
        /\ c.at = "ok" /\ calls' = calls \ {c} /\ server' = server
    BY <1>20 DEF TaskPage!CommentShown, TaskPage!Reloading, TaskPage!Writing, TaskPage!Gets, TaskPage!Ends
  <2>2. PICK v : v = [ui.view EXCEPT !.comments = c.answer.comments]
    BY Zenon
  <2>3. PICK m : /\ ui' = [m EXCEPT !.draft = TaskPage!NoDraft, !.sending = FALSE]
                 /\ \/ m = TaskPage!Filled(ui, c)
                    \/ m = ui
                    \/ ui.view # None /\ m = [ui EXCEPT !.view = v]
    BY <1>5, <1>6, <1>20, <2>2, Zenon DEF TaskPage!CommentShown, TaskPage!Modal, TaskPage!Reaches, TaskPage!Open
  <2>4. CASE m = TaskPage!Filled(ui, c)
    <3>1. ui'.view = c.answer /\ ui'.inst = ui.inst /\ ui'.task = ui.task /\ ui'.busy = ui.busy
      BY <1>16, <1>17, <1>18, <2>3, <2>4, Zenon
    <3> QED
      BY <1>15, <2>1, <3>1
  <2>5. CASE m = ui
    <3>1. ui'.view = ui.view /\ ui'.inst = ui.inst /\ ui'.task = ui.task /\ ui'.busy = ui.busy
      BY <1>17, <1>18, <2>3, <2>5, Zenon
    <3> QED
      BY <1>15, <2>1, <3>1
  <2>6. CASE ui.view # None /\ m = [ui EXCEPT !.view = v]
    <3>1. c.answer \in TaskPage!Doc /\ ui.view \in TaskPage!Doc
      BY <1>0, <1>7, <2>1, <2>6 DEF Carries
    <3>2. v \in TaskPage!Doc /\ v.status = ui.view.status /\ v.flag = ui.view.flag
      BY <2>2, <3>1 DEF TaskPage!Doc
    <3>3. v # None
      BY <3>2, NoneIsNoTask
    <3>4. m = [f \in TaskFields |-> m[f]] /\ m.inst = ui.inst /\ m.task = ui.task
          /\ m.busy = ui.busy /\ m.view = v
      BY <1>18, <2>6 DEF TaskFields
    <3>5. ui'.view = v /\ ui'.inst = ui.inst /\ ui'.task = ui.task /\ ui'.busy = ui.busy
      BY <1>17, <2>3, <3>4, Zenon
    <3> QED
      BY <1>15, <2>1, <2>6, <3>2, <3>3, <3>5
  <2> QED
    BY <2>3, <2>4, <2>5, <2>6
<1>21. CASE \/ TaskPage!LoadFails(c) \/ TaskPage!CommentFails(c) \/ TaskPage!FileFails(c)
            \/ TaskPage!FieldAnswered(c) \/ TaskPage!Deleted(c)
  <2>1. /\ c.op \notin TaskPage!Writing /\ calls' = calls \ {c} /\ server' = server
    BY <1>21 DEF TaskPage!LoadFails, TaskPage!CommentFails, TaskPage!FileFails, TaskPage!FieldAnswered,
       TaskPage!Deleted, TaskPage!Writing, TaskPage!Ends
  <2>2. \/ ui' = ui
        \/ ui' = [ui EXCEPT !.sending = FALSE]
        \/ ui' = [ui EXCEPT !.uploading = FALSE]
        \/ c.op \in TaskPage!Reloading
           /\ ui' = [ui EXCEPT !.view = None, !.loading = FALSE, !.draft = TaskPage!NoDraft]
        \/ c.op \in TaskPage!Reloading
           /\ ui' = [ui EXCEPT !.view = None, !.loading = FALSE, !.draft = TaskPage!NoDraft,
                               !.uploading = FALSE]
    BY <1>4, <1>21, Zenon DEF TaskPage!LoadFails, TaskPage!CommentFails, TaskPage!FileFails, TaskPage!FieldAnswered,
       TaskPage!Deleted, TaskPage!Reloading, TaskPage!LoadBreaks
  <2>3. /\ ui'.inst = ui.inst /\ ui'.task = ui.task /\ ui'.busy = ui.busy
        /\ ui'.view = ui.view \/ (c.op \in TaskPage!Reloading /\ ui'.view = None)
    BY <1>18, <2>2, Zenon DEF TaskFields
  <2> QED
    BY <1>15, <2>1, <2>3
\* A write ends.
<1>22. ASSUME c.op \in TaskPage!Writing
       PROVE  ui.view # None /\ ui.view \in TaskPage!Doc
  BY <1>5, <1>7, <1>22 DEF Tidy
<1>23. CASE TaskPage!StatusRefreshed(c)
  <2>1. /\ c.op = "status" /\ c.step = 2 /\ calls' = calls \ {c} /\ server' = server
        /\ "status" \in TaskPage!Writing /\ ~Unserved(c, "status")
    BY <1>23 DEF TaskPage!StatusRefreshed, TaskPage!Ends, TaskPage!Writing, Unserved
  <2>2. ui.view # None /\ ui.view \in TaskPage!Doc
    BY <1>22, <2>1
  <2>3. PICK v : v = [ui.view EXCEPT !.status = c.answer.status]
    BY Zenon
  <2>4. \/ c.at = "ok" /\ ui.view.status = c.value /\ ui' = [ui EXCEPT !.view = v]
        \/ ui' = [ui EXCEPT !.busy = FALSE]
    BY <1>5, <1>6, <1>23, <2>3 DEF TaskPage!StatusRefreshed, TaskPage!Reaches, TaskPage!Open,
       TaskPage!Modal
  <2>5. CASE c.at = "ok" /\ ui.view.status = c.value /\ ui' = [ui EXCEPT !.view = v]
    <3>1. c.answer.status = c.value
      BY <1>5, <2>1, <2>5, <2>2 DEF Tidy, Settling, Unserved
    <3>2. v \in TaskPage!Doc /\ v.status = ui.view.status /\ v.flag = ui.view.flag
      BY <2>2, <2>3, <2>5, <3>1 DEF TaskPage!Doc
    <3>3. v # None
      BY <3>2, NoneIsNoTask
    <3>4. ui'.view = v /\ ui'.inst = ui.inst /\ ui'.task = ui.task /\ ui'.busy = ui.busy
      BY <1>18, <2>5 DEF TaskFields
    <3>5. Tidy(ui.inst, v, ui.busy, calls \ {c}, server[ui.task])
      BY <1>0, <1>5, <2>1, <3>2, <3>3, TidyBack
    <3> QED
      BY <1>8, <2>1, <3>4, <3>5
  <2>6. CASE ui' = [ui EXCEPT !.busy = FALSE]
    <3>1. ui'.view = ui.view /\ ui'.inst = ui.inst /\ ui'.task = ui.task
      BY <1>18, <2>6 DEF TaskFields
    <3>2. PICK b : b = ui'.busy
      OBVIOUS
    <3>3. Tidy(ui.inst, ui.view, b, calls \ {c}, server[ui.task])
      BY <1>0, <1>5, <2>1, <2>2, TidyBack
    <3> QED
      BY <1>8, <2>1, <3>1, <3>2, <3>3
  <2> QED
    BY <2>4, <2>5, <2>6
<1>24. ASSUME NEW op \in {"status", "flag"}, c.op = op, c.step = 1, c.at = "no", ~TaskPage!Baseless(c)
       PROVE  \/ \E d \in calls : Unserved(d, op) /\ d.id < c.id /\ d.value = c.prev
              \/ /\ c.prev = IF op = "status" THEN server[ui.task].status ELSE server[ui.task].flag
                 /\ \A d \in calls : Unserved(d, op) /\ d.id < c.id => d.at # "out"
  <2>1. c.item = ui.task /\ \A d \in calls : d.item = c.item
    BY <1>6
  <2> DEFINE earlier == {d \in calls : /\ d.op = c.op /\ d.item = c.item /\ d.id < c.id
                                       /\ d.step = 1 /\ d.at # "ok"}
  <2>2. \A d \in calls : d \in earlier <=> Unserved(d, op) /\ d.id < c.id
    BY <1>24, <2>1 DEF Unserved
  <2>3. \/ \E d \in earlier : d.value = c.prev
        \/ /\ c.prev = IF op = "status" THEN server[ui.task].status ELSE server[ui.task].flag
           /\ \A d \in earlier : d.at # "out"
    BY <1>24, <2>1 DEF TaskPage!Baseless
  <2> HIDE DEF earlier
  <2>4. earlier \subseteq calls
    BY DEF earlier
  <2> QED
    BY <2>2, <2>3, <2>4
<1>25. CASE TaskPage!StatusFails(c)
  <2>1. /\ c.op = "status" /\ c.step = 1 /\ c.at = "no" /\ calls' = calls \ {c} /\ server' = server
        /\ "status" \in TaskPage!Writing /\ Unserved(c, "status") /\ ~TaskPage!Baseless(c)
    BY <1>4, <1>25, Zenon DEF TaskPage!StatusFails, TaskPage!Ends, TaskPage!Writing, Unserved
  <2>2. ui.view # None /\ ui.view \in TaskPage!Doc
    BY <1>22, <2>1
  <2>3. PICK v : v = [ui.view EXCEPT !.status = c.prev]
    BY Zenon
  <2>4. \/ ui.view.status = c.value /\ ui' = [ui EXCEPT !.view = v, !.busy = FALSE]
        \/ ui.view.status # c.value /\ ui' = [ui EXCEPT !.busy = FALSE]
    BY <1>5, <2>1, <1>6, <1>25, <2>2, <2>3 DEF Tidy, TaskPage!StatusFails, TaskPage!Reaches,
       TaskPage!Open, TaskPage!Modal
  <2>5. \/ \E d \in calls : Unserved(d, "status") /\ d.id < c.id /\ d.value = c.prev
        \/ /\ c.prev = server[ui.task].status
           /\ \A d \in calls : Unserved(d, "status") /\ d.id < c.id => d.at # "out"
    BY <1>24, <2>1
  <2>6. v \in TaskPage!Doc /\ v.status = c.prev /\ v.flag = ui.view.flag /\ v # None
    BY <1>0, <2>1, <2>2, <2>3, NoneIsNoTask DEF Carries, Writes, TaskPage!Doc
  <2>7. PICK u, b : /\ ui'.view = u /\ ui'.inst = ui.inst /\ ui'.task = ui.task /\ ui'.busy = b
                    /\ u # None /\ u.flag = ui.view.flag
                    /\ u.status = IF ui.view.status = c.value THEN c.prev ELSE ui.view.status
    BY <1>18, <2>2, <2>4, <2>6, Zenon DEF TaskFields
  <2>8. Tidy(ui.inst, u, b, calls \ {c}, server[ui.task])
    BY <1>0, <1>5, <2>1, <2>5, <2>7, TidyBack
  <2> QED
    BY <1>8, <2>1, <2>7, <2>8
<1>26. CASE TaskPage!FlagAnswered(c)
  <2>1. /\ c.op = "flag" /\ c.at # "out" /\ calls' = calls \ {c} /\ server' = server
        /\ "flag" \in TaskPage!Writing /\ c.step = 1
    BY <1>5, <1>26 DEF TaskPage!FlagAnswered, TaskPage!Ends, TaskPage!Writing, Tidy
  <2>2. ui.view # None /\ ui.view \in TaskPage!Doc
    BY <1>22, <2>1
  <2>3. CASE c.at = "ok"
    BY <1>26, <2>3, <1>0, <1>5, <2>1, <2>2, TidyBack, <1>8 DEF TaskPage!FlagAnswered, Unserved
  <2>4. CASE c.at = "no"
    <3>1. Unserved(c, "flag") /\ ~TaskPage!Baseless(c)
      BY <1>4, <1>26, <2>1, <2>4, Zenon DEF TaskPage!FlagAnswered, Unserved
    <3>2. \/ \E d \in calls : Unserved(d, "flag") /\ d.id < c.id /\ d.value = c.prev
          \/ /\ c.prev = server[ui.task].flag
             /\ \A d \in calls : Unserved(d, "flag") /\ d.id < c.id => d.at # "out"
      BY <1>24, <2>1, <2>4, <3>1
    <3>3. PICK v : v = [ui.view EXCEPT !.flag = c.prev]
      BY Zenon
    <3>4. \/ ui.view.flag = c.value /\ ui' = [ui EXCEPT !.view = v]
          \/ ui.view.flag # c.value /\ ui' = ui
      BY <1>5, <1>6, <1>26, <2>2, <2>4, <3>3 DEF TaskPage!FlagAnswered, TaskPage!Touches,
         TaskPage!Reaches, TaskPage!Open, TaskPage!Modal
    <3>5. v \in TaskPage!Doc /\ v.flag = c.prev /\ v.status = ui.view.status /\ v # None
      BY <1>0, <2>1, <2>2, <3>3, NoneIsNoTask DEF Carries, Writes, TaskPage!Doc
    <3>6. PICK u : /\ ui'.view = u /\ ui'.inst = ui.inst /\ ui'.task = ui.task /\ ui'.busy = ui.busy
                   /\ u # None /\ u.status = ui.view.status
                   /\ u.flag = IF ui.view.flag = c.value THEN c.prev ELSE ui.view.flag
      BY <1>18, <2>2, <3>4, <3>5 DEF TaskFields
    <3>7. Tidy(ui.inst, u, ui.busy, calls \ {c}, server[ui.task])
      BY <1>0, <1>5, <2>1, <2>4, <3>1, <3>2, <3>6, TidyBack
    <3> QED
      BY <1>8, <2>1, <3>6, <3>7
  <2> QED
    BY <1>0, <2>1, <2>3, <2>4
<1> QED
  BY <1>10, <1>11, <1>13, <1>14, <1>19, <1>20, <1>21, <1>23, <1>25, <1>26 DEF TaskPage!Answer

LEMMA TaskSettlesInit == TaskPage!Init => TaskSettles
  BY Zenon DEF TaskPage!Init, TaskSettles

LEMMA TaskSettlesSteps ==
  TaskTyped /\ TaskShows /\ TaskSettles /\ TaskPage!Next /\ page' = page => TaskSettles'
<1> SUFFICES ASSUME TaskTyped, TaskShows, TaskSettles, TaskPage!Next, page' = page
             PROVE  TaskSettles'
  OBVIOUS
<1>1. ASSUME NEW t \in Item, TaskPage!Elsewhere(t)
      PROVE  TaskSettles'
  <2>1. made \in Nat /\ (\A c \in calls : c.id \in Nat /\ c.id < made)
    BY TaskCalls, Zenon DEF TaskSettles, TaskTyped, TaskPage!TypeOK, TaskShows
  <2>2. calls' = calls /\ made' = made + 1 /\ clean' = FALSE
    BY <1>1 DEF TaskPage!Elsewhere, TaskPage!Counts
  <2> QED
    BY <2>1, <2>2 DEF TaskSettles
<1> QED
  BY <1>1, TaskSettlesUser, TaskSettlesAnswer DEF TaskPage!Next

LEMMA TaskStatusSettles == TaskTyped /\ TaskSettles => TaskPage!StatusSettles
<1> SUFFICES ASSUME TaskTyped, TaskSettles, TaskPage!Shown, calls = {}, clean
             PROVE  /\ ui.view.status = server[ui.task].status
                    /\ ui.view.flag = server[ui.task].flag
  BY DEF TaskPage!StatusSettles
<1>1. ui # None /\ ui.view # None
  BY DEF TaskPage!Shown, TaskPage!Open
<1> QED
  BY <1>1 DEF TaskSettles, Tidy, Settling

-----------------------------------------------------------------------------
(* The boxes of a checklist                                               *)

LEMMA BooleansDiffer ==
  ASSUME NEW a \in BOOLEAN, NEW b \in BOOLEAN, a # b
  PROVE  (~a) = b
  OBVIOUS

LEMMA PastKept ==
  ASSUME NEW r, NEW doc, NEW doc2, Past(r, doc), Grows(doc, doc2)
  PROVE  Past(r, doc2)
  BY DEF Past, Grows

LEMMA CheckCallKept ==
  ASSUME NEW c, NEW n \in Nat, NEW m \in Nat, n <= m, NEW doc, NEW doc2, CheckCall(c, n, doc), Grows(doc, doc2)
  PROVE  CheckCall(c, m, doc2)
  BY PastKept DEF CheckCall, Grows

LEMMA LoadIsCheckCall ==
  ASSUME NEW n \in Nat, NEW doc, NEW c, c = Promotion!Load(n, Promotion!Parts)
  PROVE  CheckCall(c, n, doc) /\ c.op = "list" /\ c.id = n /\ c.at = "out"
  BY DEF Promotion!Load, Promotion!Call, Promotion!Parts, IsCall, CallFields, CheckCall

LEMMA CheckStarts == Promotion!Init => CheckTyped /\ CheckTidy
<1> SUFFICES ASSUME Promotion!Init PROVE CheckTyped /\ CheckTidy
  OBVIOUS
<1>1. /\ page = "checklist" /\ ui = [rows |-> None, adding |-> FALSE, loads |-> 1, newest |-> 0]
      /\ calls = {Promotion!Load(1, Promotion!Parts)} /\ clean = TRUE
  BY DEF Promotion!Init
<1>n. made = 0 /\ faults = 0 /\ MaxCalls["checklist"] \in Nat /\ MaxFaults \in Nat
  BY BoundsAreNumbers, Zenon DEF Promotion!Init, Pages
<1>2. PICK m : calls = {m} /\ CheckCall(m, 1, server) /\ m.op = "list" /\ m.id = 1 /\ m.at = "out"
  BY <1>1, LoadIsCheckCall
<1>3. server \in Promotion!List \cup {None}
  <2>1. \A d \in Promotion!Defaults : d \in Promotion!List
    BY Zenon DEF Promotion!Defaults, Promotion!List, Promotion!Doc, Promotion!Undone
  <2> QED
    BY <2>1 DEF Promotion!Init
<1>4. made \in 0..MaxCalls["checklist"] /\ faults \in 0..MaxFaults
  BY <1>n
<1>5. ui.newest \in 0..ui.loads /\ ui.loads \in Nat /\ ui.rows = None /\ ui.newest # ui.loads /\ ui.loads = 1
      /\ ui = [f \in CheckFields |-> ui[f]] /\ ui.adding = FALSE
  BY <1>1 DEF CheckFields
<1> USE <1>5
<1>6. Promotion!TypeOK
  BY <1>1, <1>3, <1>4 DEF Promotion!TypeOK
<1>7. CheckTyped
  BY <1>2, <1>6 DEF CheckTyped
<1>8. Turns(calls, server) /\ LoadsCome(ui, calls, server)
  BY <1>2 DEF Turns, LoadsCome
<1> QED
  BY <1>7, <1>8 DEF CheckTidy

LEMMA CheckAnswering ==
  ASSUME NEW c, NEW x, NEW y, IsCall(c)
  PROVE  LET d == Answering(c, x, y)
         IN  /\ IsCall(d) /\ SameCall(c, d) /\ d.value = c.value /\ d.prev = c.prev
             /\ d.at = x /\ d.answer = y
  BY Zenon DEF IsCall, CallFields, SameCall, Answering

LEMMA FreshKept ==
  ASSUME NEW r, NEW S, NEW doc, FreshRows(r, S, doc), Past(r, doc), NEW T, NEW doc2,
         \A i \in Item, s \in Promotion!Sides : Turned(S, i, s) => Turned(T, i, s),
         \/ doc2 = doc /\ (WillLoad(S) => WillLoad(T))
         \/ /\ WillLoad(T)
            /\ \A i \in Item, s \in Promotion!Sides :
                 doc[i] # None => doc2[i][s] = doc[i][s] \/ Turned(T, i, s)
  PROVE  FreshRows(r, T, doc2)
  BY DEF FreshRows, Past

LEMMA LoadsComeKept ==
  ASSUME NEW u, NEW S, NEW doc, LoadsCome(u, S, doc), NEW T, NEW doc2, NEW v,
         v.rows = u.rows, v.newest = u.newest, v.loads = u.loads,
         u.rows # None => Past(u.rows, doc),
         \A m \in S : m.op = "list" /\ m.at = "ok" => Past(m.answer["rows"], doc),
         \A m \in S : m.op = "list" => \E e \in T : e.op = "list" /\ e.id = m.id,
         \A e \in T : e.op = "list" => \E m \in S : m.op = "list" /\ m.id = e.id,
         \A e \in T : e.op = "list" /\ e.at = "ok" => e \in S \/ FreshRows(e.answer["rows"], T, doc2),
         \A i \in Item, s \in Promotion!Sides : Turned(S, i, s) => Turned(T, i, s),
         \/ doc2 = doc /\ (WillLoad(S) => WillLoad(T))
         \/ /\ WillLoad(T)
            /\ \A i \in Item, s \in Promotion!Sides :
                 doc[i] # None => doc2[i][s] = doc[i][s] \/ Turned(T, i, s)
         \/ doc = None
  PROVE  LoadsCome(v, T, doc2)
  BY NoneIsNoChecklist, FreshKept DEF Past, LoadsCome, FreshRows

LEMMA CheckReplaced ==
  ASSUME CheckTyped, CheckTidy, NEW c \in calls, NEW d,
         UNCHANGED <<page, ui, made, clean>>, faults' \in 0..MaxFaults,
         calls' = (calls \ {c}) \cup {d}, SameCall(c, d), d.value = c.value, d.prev = c.prev,
         server' \in Promotion!List \cup {None}, Grows(server, server'),
         CheckCall(d, ui.loads, server'), c.at # "ok",
         c.op = "toggle" =>
           /\ d.at # "out"
           /\ d.at = "read" => c.at = "out" /\ (d.answer = c.value \/ server[c.item][c.prev] = c.value)
           /\ d.at = "ok" => c.at = "read" /\ (server'[c.item][c.prev] = c.value \/ c.answer # c.value),
         d.op = "list" /\ d.at = "ok" => d.answer["rows"] = server',
         \A e \in calls : e.op = "toggle" /\ e # c /\ (e.item # c.item \/ e.prev # c.prev \/ c.op # "toggle") =>
           server'[e.item][e.prev] = server[e.item][e.prev],
         \/ server' = server
         \/ /\ WillLoad(calls')
            /\ \A i \in Item, s \in Promotion!Sides :
                 server[i] # None => server'[i][s] = server[i][s] \/ Turned(calls', i, s)
         \/ server = None
  PROVE  CheckTyped' /\ CheckTidy'
<1>0. /\ \A e \in calls : CheckCall(e, ui.loads, server)
      /\ \A e, f \in calls : e.op = "list" /\ f.op = "list" /\ e.id = f.id => e = f
      /\ ui.rows # None => Past(ui.rows, server)
      /\ ui = [f \in CheckFields |-> ui[f]]
  BY DEF CheckTyped
<1> USE <1>0
<1>n. ui.loads \in Nat
  BY DEF CheckTyped
<1>1. \A e \in calls' : CheckCall(e, ui.loads, server')
  BY <1>n, CheckCallKept
<1>2. \A e, f \in calls' : e.op = "list" /\ f.op = "list" /\ e.id = f.id => e = f
  BY DEF SameCall
<1>3. ui.rows # None => Past(ui.rows, server')
  BY PastKept
<1>4. CheckTyped'
  BY <1>n, <1>1, <1>2, <1>3 DEF CheckTyped, Promotion!TypeOK
<1>5. ASSUME clean
      PROVE  Turns(calls', server') /\ LoadsCome(ui, calls', server')
  BY <1>5, NoneIsNoChecklist, LoadsComeKept DEF CheckTidy, Turns, SameCall, Turned,
     WillLoad, CheckCall, FreshRows, Past
<1> QED
  BY <1>4, <1>5 DEF CheckTidy

\* The server's steps.
LEMMA CheckServes ==
  ASSUME CheckTyped, CheckTidy, NEW c \in calls,
         \/ Promotion!FindNone(c) \/ Promotion!Create(c) \/ Promotion!Find(c) \/ Promotion!Turn(c)
         \/ Promotion!Push(c) \/ Promotion!Refuse(c)
  PROVE  CheckTyped' /\ CheckTidy'
<1>0. /\ CheckCall(c, ui.loads, server) /\ IsCall(c) /\ ui.loads \in Nat
      /\ server \in Promotion!List \cup {None} /\ faults \in 0..MaxFaults
      /\ faults' \in 0..MaxFaults
  BY BoundsAreNumbers DEF CheckTyped, Promotion!TypeOK, Promotion!FindNone, Promotion!Create,
     Promotion!Find, Promotion!Turn, Promotion!Push, Promotion!Refuse, Promotion!Fault, CheckCall
<1>1. UNCHANGED <<page, ui, made, clean>>
  BY DEF Promotion!FindNone, Promotion!Create, Promotion!Find, Promotion!Turn, Promotion!Push,
       Promotion!Refuse
<1>2. \A e \in calls : e.op = "toggle" => server \in Promotion!List /\ e.item \in Item /\ server[e.item] # None
                                          /\ e.prev \in Promotion!Sides
  BY DEF CheckTyped, CheckCall
<1>3. ASSUME NEW x, NEW y, calls' = (calls \ {c}) \cup {Answering(c, x, y)}
      PROVE  \E d : /\ calls' = (calls \ {c}) \cup {d}
                    /\ IsCall(d) /\ SameCall(c, d) /\ d.value = c.value /\ d.prev = c.prev
                    /\ d.at = x /\ d.answer = y
  BY <1>0, <1>3, CheckAnswering
\* The call goes on, and the checklist stays what it is.
<1>4. ASSUME server' = server, c.at # "ok",
             NEW x, NEW y, calls' = (calls \ {c}) \cup {Answering(c, x, y)},
             \/ x = "no"
             \/ x = "creating" /\ c.op \in {"list", "add"} /\ c.at = "out" /\ y = c.answer
             \/ x = "found" /\ c.op = "add" /\ server \in Promotion!List
             \/ x = "read" /\ c.op = "toggle" /\ c.at = "out" /\ y \in BOOLEAN
                /\ y = ~server[c.item][c.prev]
             \/ x = "ok" /\ c.op = "list" /\ server \in Promotion!List /\ y["rows"] = server
      PROVE  CheckTyped' /\ CheckTidy'
  BY <1>3, <1>4, <1>0, <1>2, BooleansDiffer, <1>1, CheckReplaced DEF Grows, CheckCall, SameCall,
     Past, Promotion!List, Promotion!Doc
<1>5. c = [f \in CallFields |-> c[f]]
  BY <1>0 DEF IsCall
<1>6. CASE Promotion!FindNone(c)
  <2>1. /\ c.op \in {"list", "add"} /\ c.at = "out" /\ server' = server
        /\ calls' = (calls \ {c}) \cup {[c EXCEPT !.at = "creating"]}
    BY <1>6 DEF Promotion!FindNone, Promotion!Replace
  <2>2. [c EXCEPT !.at = "creating"] = Answering(c, "creating", c.answer)
    BY <1>5, Zenon DEF Answering, CallFields
  <2> QED
    BY <1>4, <2>1, <2>2
<1>7. CASE Promotion!Refuse(c)
  <2>1. /\ c.at # "ok" /\ server' = server /\ calls' = (calls \ {c}) \cup {Answering(c, "no", None)}
    BY <1>7 DEF Promotion!Refuse, Promotion!Fault, Promotion!Refused, Promotion!Replace, Answering
  <2> QED
    BY <1>4, <2>1
<1>8. CASE Promotion!Find(c)
  <2>1. /\ server # None /\ server \in Promotion!List /\ c.at = "out" /\ server' = server
        /\ \/ Promotion!ReadPart(c, "rows", server)
           \/ c.op = "add" /\ calls' = (calls \ {c}) \cup {[c EXCEPT !.at = "found"]}
           \/ c.op = "toggle" /\ calls' = (calls \ {c}) \cup {[c EXCEPT !.at = "read", !.answer = ~server[c.item][c.prev]]}
    BY <1>0, <1>8 DEF Promotion!Find, Promotion!Replace
  <2>2. CASE Promotion!ReadPart(c, "rows", server)
    <3>1. c.op = "list" /\ c.answer = [p \in {"rows"} |-> None]
      BY <1>0, <2>1, <2>2 DEF Promotion!ReadPart, CheckCall
    <3>2. PICK y : y = [c.answer EXCEPT !["rows"] = server]
      BY Zenon
    <3>3. DOMAIN y = {"rows"} /\ y["rows"] = server
      BY <3>1, <3>2
    <3>4. calls' = (calls \ {c}) \cup {[c EXCEPT !.answer = y, !.at = "ok"]}
      BY <2>1, <2>2, <3>2, <3>3, Zenon DEF Promotion!ReadPart, Promotion!Replace
    <3>5. [c EXCEPT !.answer = y, !.at = "ok"] = Answering(c, "ok", y)
      BY <1>5, Zenon DEF Answering, CallFields
    <3> QED
      BY <1>4, <2>1, <3>1, <3>3, <3>4, <3>5
  <2>3. CASE c.op = "add" /\ calls' = (calls \ {c}) \cup {[c EXCEPT !.at = "found"]}
    <3>1. [c EXCEPT !.at = "found"] = Answering(c, "found", c.answer)
      BY <1>5, Zenon DEF Answering, CallFields
    <3> QED
      BY <1>4, <2>1, <2>3, <3>1
  <2>4. CASE c.op = "toggle" /\ calls' = (calls \ {c}) \cup {[c EXCEPT !.at = "read", !.answer = ~server[c.item][c.prev]]}
    <3>1. PICK y : y = ~server[c.item][c.prev]
      OBVIOUS
    <3> USE <3>1
    <3>2. y \in BOOLEAN
      OBVIOUS
    <3>3. calls' = (calls \ {c}) \cup {Answering(c, "read", y)}
      BY <2>4 DEF Answering
    <3> QED
      BY <1>4, <2>1, <2>4, <3>2, <3>3, Zenon
  <2> QED
    BY <2>1, <2>2, <2>3, <2>4
<1>9. CASE Promotion!Create(c)
  <2>1. CASE server # None
    <3>1. /\ c.at # "ok" /\ server' = server /\ calls' = (calls \ {c}) \cup {Answering(c, "no", None)}
      BY <1>9, <2>1 DEF Promotion!Create, Promotion!Refused, Promotion!Replace, Answering
    <3> QED
      BY <1>4, <3>1
  <2>2. CASE server = None
    <3>1. PICK dd \in Promotion!Defaults : /\ server' = dd
              /\ IF c.op = "list" THEN calls' = (calls \ {c}) \cup {[c EXCEPT !.at = "ok", !.answer = [rows |-> dd]]}
                                  ELSE calls' = (calls \ {c}) \cup {[c EXCEPT !.at = "found"]}
      BY <1>9, <2>2, Zenon DEF Promotion!Create, Promotion!Answered, Promotion!Replace
    <3>2. c.at = "creating" /\ c.op # "toggle"
      BY <1>0, <1>9 DEF Promotion!Create, CheckCall
    <3>3. dd \in Promotion!List
      BY <3>1, Zenon DEF Promotion!Defaults, Promotion!List, Promotion!Doc, Promotion!Undone
    <3>4. PICK y : y = IF c.op = "list" THEN [rows |-> dd] ELSE c.answer
      BY Zenon
    <3>5. PICK x : x = IF c.op = "list" THEN "ok" ELSE "found"
      OBVIOUS
    <3>6. calls' = (calls \ {c}) \cup {Answering(c, x, y)}
      <4>1. [c EXCEPT !.at = "found"] = Answering(c, "found", c.answer)
        BY <1>5, Zenon DEF Answering, CallFields
      <4> QED
        BY <3>1, <3>4, <3>5, <4>1, Zenon DEF Answering
    <3>7. c.op = "list" => y["rows"] = dd
      BY <3>4
    <3>8. PICK d : /\ calls' = (calls \ {c}) \cup {d}
                   /\ IsCall(d) /\ SameCall(c, d) /\ d.value = c.value /\ d.prev = c.prev
                   /\ d.at = x /\ d.answer = y
      BY <1>3, <3>6
    <3>9. Grows(server, server')
      BY <2>2, NoneIsNoChecklist DEF Grows
    <3>10. CheckCall(d, ui.loads, server')
      BY <1>0, <3>1, <3>2, <3>3, <3>5, <3>7, <3>8 DEF CheckCall, SameCall, Past
    <3>11. \A e \in calls : e.op # "toggle"
      BY <1>2, <2>2, NoneIsNoChecklist
    <3> QED
      BY <1>0, <1>1, <2>2, <3>1, <3>2, <3>3, <3>5, <3>7, <3>8, <3>9, <3>10, <3>11, CheckReplaced DEF SameCall
  <2> QED
    BY <2>1, <2>2
<1>10. CASE Promotion!Turn(c)
  <2>1. /\ c.at = "read" /\ c.op = "toggle" /\ server' = [server EXCEPT ![c.item][c.prev] = c.answer]
        /\ calls' = (calls \ {c}) \cup {Answering(c, "ok", None)}
    BY <1>0, <1>10 DEF Promotion!Turn, Promotion!Answered, Promotion!Replace, Answering, CheckCall
  <2>2. PICK d : /\ calls' = (calls \ {c}) \cup {d}
                 /\ IsCall(d) /\ SameCall(c, d) /\ d.value = c.value /\ d.prev = c.prev
                 /\ d.at = "ok" /\ d.answer = None
    BY <1>3, <2>1
  <2>3. /\ server \in Promotion!List /\ c.item \in Item /\ server[c.item] # None /\ c.prev \in Promotion!Sides
        /\ c.answer \in BOOLEAN /\ server[c.item] \in Promotion!Doc
    BY <1>0, <1>2, <2>1 DEF CheckCall, Promotion!List
  <2>4. PICK b : b = [server[c.item] EXCEPT ![c.prev] = c.answer]
    BY Zenon
  <2>5. /\ b \in Promotion!Doc /\ b[c.prev] = c.answer /\ b # None
        /\ \A s \in Promotion!Sides : s # c.prev => b[s] = server[c.item][s]
    BY <2>3, <2>4, NoneIsNoChecklist DEF Promotion!Doc
  <2> USE <2>5
  <2>6. server' = [server EXCEPT ![c.item] = b]
    BY <2>1, <2>3, <2>4 DEF Promotion!List
  <2>7. /\ server' \in Promotion!List /\ server'[c.item] = b
        /\ \A i \in Item : i # c.item => server'[i] = server[i]
    BY <2>3, <2>6 DEF Promotion!List
  <2> USE <2>7
  <2>8. Grows(server, server')
    BY DEF Grows
  <2>9. CheckCall(d, ui.loads, server')
    BY <1>0, <2>1, <2>2, <2>3 DEF CheckCall, SameCall
  <2>10. server'[c.item][c.prev] = c.value \/ c.answer # c.value
    OBVIOUS
  <2>11. \A e \in calls : e.op = "toggle" /\ (e.item # c.item \/ e.prev # c.prev) =>
           server'[e.item][e.prev] = server[e.item][e.prev]
    BY <1>2
  <2>12. WillLoad(calls') /\ Turned(calls', c.item, c.prev)
    BY <2>1, <2>2 DEF WillLoad, Turned, SameCall
  <2>13. \A i \in Item, s \in Promotion!Sides :
            server'[i][s] = server[i][s] \/ Turned(calls', i, s)
    BY <2>12
  <2> QED
    BY <1>0, <1>1, <2>1, <2>2, <2>8, <2>9, <2>10, <2>11, <2>12, <2>13, CheckReplaced, Zenon DEF SameCall
<1>11. CASE Promotion!Push(c)
  <2>1. /\ c.at = "found" /\ c.op = "add" /\ calls' = (calls \ {c}) \cup {Answering(c, "ok", None)}
    BY <1>0, <1>11 DEF Promotion!Push, Promotion!Answered, Promotion!Replace, Answering, CheckCall
  <2> USE <2>1
  <2>2. PICK i \in Item : server[i] = None /\ server' = [server EXCEPT ![i] = Promotion!Undone]
    BY <1>11, Zenon DEF Promotion!Push
  <2>3. PICK d : /\ calls' = (calls \ {c}) \cup {d}
                 /\ IsCall(d) /\ SameCall(c, d) /\ d.value = c.value /\ d.prev = c.prev
                 /\ d.at = "ok" /\ d.answer = None
    BY <1>3
  <2>4. Promotion!Undone \in Promotion!Doc
    BY DEF Promotion!Undone, Promotion!Doc
  <2>5. /\ server \in Promotion!List /\ server' \in Promotion!List /\ server'[i] # None
        /\ \A j \in Item : j # i => server'[j] = server[j]
    BY <1>0, <2>4, NoneIsNoChecklist, <2>2 DEF CheckCall, Promotion!List
  <2> USE <2>5
  <2>6. Grows(server, server')
    BY DEF Grows
  <2>7. CheckCall(d, ui.loads, server')
    BY <1>0, <2>3 DEF CheckCall, SameCall
  <2>8. \A e \in calls : e.op = "toggle" => server'[e.item][e.prev] = server[e.item][e.prev]
    BY <1>2, <2>2
  <2>9. WillLoad(calls')
    BY <2>3 DEF WillLoad, SameCall
  <2>10. \A j \in Item, s \in Promotion!Sides :
            server[j] # None => server'[j][s] = server[j][s] \/ Turned(calls', j, s)
    BY <2>2
  <2> QED
    BY <1>0, <1>1, <2>3, <2>6, <2>7, <2>8, <2>9, <2>10, CheckReplaced, Zenon DEF SameCall
<1> QED
  BY <1>6, <1>7, <1>8, <1>9, <1>10, <1>11

\* Handlers that end, and loads that arrive.
LEMMA CheckEnds ==
  ASSUME CheckTyped, CheckTidy, NEW c \in calls,
         \/ Promotion!Arrives(c) \/ Promotion!LoadFails(c) \/ Promotion!Done(c) \/ Promotion!Fails(c)
  PROVE  CheckTyped' /\ CheckTidy'
<1>0. /\ \A e \in calls : CheckCall(e, ui.loads, server)
      /\ \A e, f \in calls : e.op = "list" /\ f.op = "list" /\ e.id = f.id => e = f
      /\ ui.rows # None => Past(ui.rows, server)
      /\ ui = [f \in CheckFields |-> ui[f]]
      /\ server \in Promotion!List \cup {None} /\ page = "checklist"
  BY DEF CheckTyped, Promotion!TypeOK
<1>n. /\ ui.loads \in Nat /\ ui.newest \in 0..ui.loads /\ made \in 0..MaxCalls[page] /\ faults \in 0..MaxFaults
  BY DEF CheckTyped, Promotion!TypeOK
<1>b. ui.adding \in BOOLEAN /\ clean \in BOOLEAN
  BY DEF CheckTyped, Promotion!TypeOK
<1>s. UNCHANGED <<page, server, made, faults>>
  BY DEF Promotion!Arrives, Promotion!LoadFails, Promotion!Done, Promotion!Fails, Promotion!Loaded
<1>1. CASE Promotion!Fails(c) \/ Promotion!LoadFails(c)
  <2>1. /\ ui' = ui /\ calls' = calls \ {c} /\ c.at = "no"
        /\ \/ clean' = clean /\ c.op # "list"
           \/ clean' = FALSE
    BY <1>1 DEF Promotion!Fails, Promotion!LoadFails, Promotion!Ends
  <2>2. CheckTyped'
    <3>1. clean' \in BOOLEAN
      BY <1>b, <2>1, Zenon
    <3>2. Promotion!TypeOK'
      BY <1>s, <2>1, <3>1 DEF CheckTyped, Promotion!TypeOK
    <3> QED
      BY <1>0, <1>n, <1>s, <2>1, <3>2 DEF CheckTyped
  <2>3. ASSUME clean, c.op # "list"
        PROVE  Turns(calls', server) /\ LoadsCome(ui, calls', server)
    BY <2>3, <2>1, <1>0, LoadsComeKept DEF CheckTidy, Turns, Turned, WillLoad, CheckCall
  <2>4. clean' => clean /\ c.op # "list"
    BY <2>1, Zenon
  <2> QED
    BY <1>s, <2>1, <2>2, <2>3, <2>4 DEF CheckTidy
<1>2. CASE Promotion!Done(c)
  <2>1. /\ c.op \in {"toggle", "add"} /\ c.at = "ok" /\ clean' = clean
        /\ ui' = [ui EXCEPT !.loads = ui.loads + 1, !.adding = ui.adding /\ c.op = "toggle"]
        /\ calls' = (calls \ {c}) \cup
                      {Promotion!Load(k, Promotion!Parts) : k \in (ui.loads + 1)..(ui.loads + 1)}
    BY <1>0, <1>2 DEF Promotion!Done, Promotion!EndsAndLoads, CheckFields
  <2>2. PICK m : m = Promotion!Load(ui.loads + 1, Promotion!Parts)
    OBVIOUS
  <2>3. (ui.loads + 1)..(ui.loads + 1) = {ui.loads + 1}
    BY <1>n
  <2>4. calls' = (calls \ {c}) \cup {m}
    BY <2>1, <2>2, <2>3
  <2>5. PICK a : a = (ui.adding /\ c.op = "toggle")
    OBVIOUS
  <2>6. /\ ui' = [f \in CheckFields |-> ui'[f]] /\ ui'.loads = ui.loads + 1 /\ ui'.adding = a
        /\ ui'.rows = ui.rows /\ ui'.newest = ui.newest
    BY <1>0, <2>1, <2>5, Zenon DEF CheckFields
  <2>7. ui'.loads \in Nat /\ ui.loads <= ui'.loads /\ ui'.newest \in 0..ui'.loads /\ ui'.newest # ui'.loads
        /\ ui.loads # ui'.loads
    BY <1>n, <2>6
  <2>8. CheckCall(m, ui'.loads, server') /\ m.op = "list" /\ m.id = ui'.loads /\ m.at = "out"
    BY <2>2, <2>6, <2>7, LoadIsCheckCall
  <2>9. \A e \in calls : CheckCall(e, ui'.loads, server')
    BY <1>0, <1>n, <1>s, <2>7, CheckCallKept DEF Grows
  <2>10. \A e \in calls : e.op = "list" => e.id # ui'.loads
    BY <1>0, <1>n, <2>6 DEF CheckCall
  <2>11. CheckTyped'
    <3>1. a \in BOOLEAN
      BY <2>5
    <3>2. ui'.adding \in BOOLEAN /\ clean' \in BOOLEAN
      BY <1>b, <2>1, <2>6, <3>1
    <3>3. ui'.rows \in Promotion!List \cup {None} /\ made' \in 0..MaxCalls[page] /\ faults' \in 0..MaxFaults
      BY <1>n, <1>s, <2>6 DEF CheckTyped, Promotion!TypeOK
    <3>4. Promotion!TypeOK'
      BY <1>0, <1>s, <2>7, <3>2, <3>3 DEF Promotion!TypeOK
    <3> QED
      BY <1>0, <1>s, <2>4, <2>6, <2>7, <2>8, <2>9, <2>10, <3>4 DEF CheckTyped
  <2>12. ASSUME clean
         PROVE  Turns(calls', server) /\ LoadsCome(ui', calls', server)
    BY <2>12, <2>4, <2>8, <2>7, <2>10 DEF CheckTidy, Turns, LoadsCome
  <2> QED
    BY <1>s, <2>1, <2>11, <2>12 DEF CheckTidy
<1>3. CASE Promotion!Arrives(c)
  <2>1. /\ c.op = "list" /\ c.at = "ok" /\ calls' = calls \ {c}
        /\ clean' = (clean /\ c.id > ui.newest)
        /\ ui' = [[ui EXCEPT !.rows = c.answer["rows"]] EXCEPT !.newest = c.id]
    BY <1>3 DEF Promotion!Arrives, Promotion!Loaded, Promotion!Ends
  <2>2. PICK r : r = c.answer["rows"]
    OBVIOUS
  <2>3. Past(r, server) /\ c.id \in Nat /\ c.id <= ui.loads
    BY <1>0, <2>1, <2>2 DEF CheckCall
  <2>4. /\ ui' = [f \in CheckFields |-> ui'[f]] /\ ui'.loads = ui.loads /\ ui'.adding = ui.adding
        /\ ui'.rows = r /\ ui'.newest = c.id
    BY <1>0, <2>1, <2>2, Zenon DEF CheckFields
  <2>5. CheckTyped'
    <3>1. ui'.newest \in 0..ui'.loads
      BY <1>n, <2>3, <2>4
    <3>2. clean' \in BOOLEAN /\ ui'.adding \in BOOLEAN
      BY <1>b, <2>1, <2>4
    <3>3. ui'.rows \in Promotion!List \cup {None}
      BY <2>3, <2>4 DEF Past
    <3>4. Promotion!TypeOK'
      BY <1>0, <1>n, <1>s, <3>1, <3>2, <3>3 DEF Promotion!TypeOK
    <3> QED
      BY <1>0, <1>n, <1>s, <2>1, <2>3, <2>4, <3>4, Zenon DEF CheckTyped
  <2>6. ASSUME clean, c.id > ui.newest
        PROVE  Turns(calls', server) /\ LoadsCome(ui', calls', server)
    <3>1. Turns(calls, server) /\ LoadsCome(ui, calls, server)
      BY <2>6 DEF CheckTidy
    <3>2. Turns(calls', server)
      BY <2>1, <3>1 DEF Turns
    <3>3. /\ \A i \in Item, s \in Promotion!Sides : Turned(calls, i, s) => Turned(calls', i, s)
          /\ WillLoad(calls) => WillLoad(calls')
      BY <2>1 DEF Turned, WillLoad
    <3>4. \A x : Past(x, server) /\ FreshRows(x, calls, server) => FreshRows(x, calls', server)
      BY <3>3, FreshKept
    <3>5. ui.newest # ui.loads
      BY <1>n, <2>3, <2>6
    <3>6. c.id = ui.loads => FreshRows(r, calls', server)
      BY <2>1, <2>2, <2>3, <3>1, <3>4, Zenon DEF LoadsCome
    <3>7. \A m \in calls : m.op = "list" /\ m.id = c.id => m = c
      BY <1>0, <2>1
    <3>8. \A m \in calls' : m.op = "list" /\ m.id = ui.loads /\ m.at = "ok" => FreshRows(m.answer["rows"], calls', server)
      <4>1. \A m \in calls : m.op = "list" /\ m.at = "ok" => Past(m.answer["rows"], server)
        BY <1>0 DEF CheckCall
      <4> QED
        BY <2>1, <3>1, <3>4, <4>1, Zenon DEF LoadsCome
    <3>9. LoadsCome(ui', calls', server)
      BY <2>1, <2>4, <3>1, <3>5, <3>6, <3>7, <3>8, Zenon DEF LoadsCome
    <3> QED
      BY <3>2, <3>9
  <2>7. clean' => clean /\ c.id > ui.newest
    BY <2>1, Zenon
  <2> QED
    BY <1>s, <2>5, <2>6, <2>7 DEF CheckTidy
<1> QED
  BY <1>1, <1>2, <1>3

\* The user's steps.
LEMMA CheckUser == CheckTyped /\ CheckTidy /\ Promotion!User => CheckTyped' /\ CheckTidy'
<1> SUFFICES ASSUME CheckTyped, CheckTidy, Promotion!User PROVE CheckTyped' /\ CheckTidy'
  OBVIOUS
<1>0. /\ \A e \in calls : CheckCall(e, ui.loads, server)
      /\ \A e, f \in calls : e.op = "list" /\ f.op = "list" /\ e.id = f.id => e = f
      /\ ui.rows # None => Past(ui.rows, server)
      /\ ui = [f \in CheckFields |-> ui[f]]
      /\ server \in Promotion!List \cup {None} /\ page = "checklist"
  BY DEF CheckTyped, Promotion!TypeOK
<1>n. /\ ui.loads \in Nat /\ ui.newest \in 0..ui.loads /\ made \in 0..MaxCalls["checklist"] /\ faults \in 0..MaxFaults
      /\ MaxCalls["checklist"] \in Nat
  BY <1>0, BoundsAreNumbers, Zenon DEF CheckTyped, Promotion!TypeOK, Pages
<1>b. ui.adding \in BOOLEAN /\ clean \in BOOLEAN
  BY DEF CheckTyped, Promotion!TypeOK
<1>s. UNCHANGED <<page, server, faults>>
  BY DEF Promotion!User, Promotion!Toggle, Promotion!ShowAdd, Promotion!Add
<1>1. CASE Promotion!ShowAdd
  BY <1>0, <1>1, <1>b, <1>s, <1>n DEF Promotion!ShowAdd, CheckFields, CheckTyped,
     Promotion!TypeOK, CheckTidy, LoadsCome
\* A handler starts.
<1>2. ASSUME NEW item, NEW op \in {"toggle", "add"}, NEW value, NEW prev,
             Promotion!Start(0, item, op, value, prev), ui' = ui, clean' => clean, clean' \in BOOLEAN,
             op = "toggle" =>
               /\ server \in Promotion!List /\ item \in Item /\ server[item] # None
               /\ prev \in Promotion!Sides /\ value \in BOOLEAN,
             clean' /\ op = "toggle" =>
               /\ server[item][prev] # value
               /\ \A d \in calls : ~(d.op = "toggle" /\ d.item = item /\ d.prev = prev)
      PROVE  CheckTyped' /\ CheckTidy'
  <2> USE <1>2
  <2>1. calls' = calls \cup {Call(made, 0, item, op, value, prev)}
    BY DEF Promotion!Start, Promotion!Call, Call
  <2>2. PICK n : /\ calls' = calls \cup {n} /\ IsCall(n) /\ n.item = item /\ n.op = op
                 /\ n.value = value /\ n.prev = prev /\ n.at = "out"
    BY <2>1, OneOut
  <2> USE <2>2
  <2>3. made' \in 0..MaxCalls["checklist"]
    BY <1>0, <1>n DEF Promotion!Start, Promotion!Counts
  <2>4. CheckCall(n, ui.loads, server)
    BY DEF CheckCall
  <2>5. CheckTyped'
    BY <1>0, <1>s, <2>3, <1>n, <2>4 DEF CheckTyped, Promotion!TypeOK
  <2>6. ASSUME clean'
        PROVE  Turns(calls', server) /\ LoadsCome(ui, calls', server)
    BY <2>6, <1>0, LoadsComeKept DEF CheckTidy, Turns, Turned, WillLoad, CheckCall
  <2> QED
    BY <1>s, <2>5, <2>6 DEF CheckTidy
<1>3. CASE Promotion!Add
  BY <1>3, <1>b, <1>2 DEF Promotion!Add
<1>4. ASSUME NEW i \in Item, NEW s \in Promotion!Sides, Promotion!Toggle(i, s)
      PROVE  CheckTyped' /\ CheckTidy'
  <2>1. /\ ui.rows # None /\ ui.rows[i] # None /\ ui' = ui
        /\ Promotion!Start(0, i, "toggle", ~ui.rows[i][s], s)
        /\ clean' = (clean /\ Promotion!Turning(i, s) = {} /\ ~Promotion!Waiting(None, {"list"}))
    BY <1>4 DEF Promotion!Toggle, Promotion!Listed
  <2> USE <2>1
  <2>2. /\ server \in Promotion!List /\ server[i] # None /\ ui.rows[i][s] \in BOOLEAN
        /\ server[i][s] \in BOOLEAN
    BY <1>0, Zenon DEF Past, Promotion!List, Promotion!Doc
  <2>3. PICK v : v = ~ui.rows[i][s]
    OBVIOUS
  <2>4. v \in BOOLEAN
    BY <2>3
  <2>5. Promotion!Start(0, i, "toggle", v, s)
    BY <2>3
  <2>6. clean' => clean
    BY Zenon
  <2>7. ASSUME clean'
        PROVE  /\ server[i][s] # v
               /\ \A d \in calls : ~(d.op = "toggle" /\ d.item = i /\ d.prev = s)
    <3>1. /\ \A d \in calls : ~(d.op = "toggle" /\ d.item = i /\ d.prev = s)
          /\ \A d \in calls : ~(d.inst = None /\ d.op = "list")
      BY <2>7, Zenon DEF Promotion!Turning, Promotion!Waiting
    <3> USE <3>1
    <3>2. \A d \in calls : d.op # "list"
      BY <1>0 DEF CheckCall
    <3>3. LoadsCome(ui, calls, server)
      BY <2>6, <2>7 DEF CheckTidy
    <3>4. FreshRows(ui.rows, calls, server)
      BY <3>2, <3>3 DEF LoadsCome
    <3>5. ui.rows[i][s] = server[i][s]
      BY <3>4 DEF FreshRows, Turned
    <3>6. server[i][s] # v
      BY <2>2, <2>3, <3>5
    <3> QED
      BY <3>6
  <2>8. clean' \in BOOLEAN
    OBVIOUS
  <2> QED
    BY <1>2, <2>2, <2>4, <2>5, <2>6, <2>7, <2>8
<1> QED
  BY <1>1, <1>3, <1>4 DEF Promotion!User

LEMMA CheckSteps == CheckTyped /\ CheckTidy /\ Promotion!Next => CheckTyped' /\ CheckTidy'
  BY CheckUser, CheckServes, CheckEnds DEF Promotion!Next

LEMMA CheckTurnsAsLabelled == CheckTidy => Promotion!TurnsAsLabelled
  BY DEF CheckTidy, Turns, Promotion!TurnsAsLabelled

LEMMA CheckSettles == CheckTyped /\ CheckTidy => Promotion!ChecklistSettles
<1> SUFFICES ASSUME CheckTidy, calls = {}, clean PROVE ui.rows = server
  BY DEF Promotion!ChecklistSettles
<1>1. LoadsCome(ui, {}, server)
  BY DEF CheckTidy
<1> QED
  BY <1>1 DEF LoadsCome, FreshRows, WillLoad

-----------------------------------------------------------------------------
(* Task dialogs and checklists                                             *)

LEMMA SettlesAlways == Spec => []SettlesInv
<1>1. Init => SettlesInv
  BY StartsOn, TaskStarts, TaskShowsOwn, TaskSettlesInit, CheckStarts DEF SettlesInv
<1>2. SettlesInv /\ [Next]_vars => SettlesInv'
  <2> SUFFICES ASSUME SettlesInv, [Next]_vars PROVE SettlesInv'
    OBVIOUS
  <2>1. CASE UNCHANGED vars
    <3>0. UNCHANGED <<page, server, ui, calls, made, faults, clean>>
      BY <2>1 DEF vars
    <3> USE <3>0
    <3>1. TaskTyped => TaskTyped'
      BY Zenon DEF TaskTyped, TaskPage!TypeOK, Holds, TaskPage!Staff
    <3>2. TaskShows => TaskShows'
      BY DEF TaskShows, ShowsFor
    <3>3. TaskSettles => TaskSettles'
      BY DEF TaskSettles, Tidy, TaskPage!Staff
    <3>4. CheckTyped => CheckTyped'
      BY DEF CheckTyped, Promotion!TypeOK
    <3>5. CheckTidy => CheckTidy'
      BY DEF CheckTidy
    <3> QED
      BY <3>1, <3>2, <3>3, <3>4, <3>5 DEF SettlesInv
  <2>2. CASE page' = page /\ ~UNCHANGED vars
    BY <2>2, StaysOn, TaskSteps, TaskShowsOwn, TaskSettlesSteps, CheckSteps DEF SettlesInv
  <2> QED
    BY <2>1, <2>2, StaysOn
<1> QED
  BY <1>1, <1>2, PTL DEF Spec

-----------------------------------------------------------------------------
(* Webhooks catch up                                                       *)

LEMMA HooksSettleStarts == Hooks!Init => HooksSettle
  BY DEF Hooks!Init, HooksSettle, CatchesUp

LEMMA HooksSettleSteps == HooksShow /\ HooksSettle /\ Hooks!Next => HooksSettle'
<1> SUFFICES ASSUME HooksShow, HooksSettle, Hooks!Next PROVE HooksSettle'
  OBVIOUS
<1>0. /\ ui = [f \in HookFields |-> ui[f]] /\ AreCalls(calls)
      /\ server = [i \in Item |-> server[i]]
  BY DEF HooksShow
<1> DEFINE Ops == {"create", "delete"}
<1>1. ASSUME NEW live, Hooks!Live' = live, \A c \in calls' : c.op = "list" => Listing(c),
             clean' => CatchesUp(calls', Ops, live, ui'.listed, ui'.failed)
      PROVE  HooksSettle'
  BY <1>1 DEF HooksSettle, Listing, CatchesUp, Due, Counting
<1>2. server' = server => Hooks!Live' = Hooks!Live
  BY DEF Hooks!Live
<1>3. CASE Hooks!OpenCreate \/ Hooks!CloseCreate \/ Hooks!Dismiss \/ \E i \in Item : Hooks!Fill(i)
  <2>1. UNCHANGED <<calls, server, clean>>
    BY <1>3 DEF Hooks!OpenCreate, Hooks!CloseCreate, Hooks!Dismiss, Hooks!Fill
  <2>2. ui'.listed = ui.listed /\ ui'.failed = ui.failed
    BY <1>0, <1>3, Zenon DEF Hooks!OpenCreate, Hooks!CloseCreate, Hooks!Dismiss, Hooks!Fill, HookFields
  <2> QED
    BY <1>1, <1>2, <2>1, <2>2 DEF HooksSettle
<1>4. ASSUME Hooks!Create \/ \E i \in Item : Hooks!Rotate(i) \/ Hooks!Delete(i)
      PROVE  HooksSettle'
  <2>1. /\ ui'.listed = ui.listed /\ ui'.failed = ui.failed /\ server' = server /\ (clean' => clean)
        /\ \E item, op, value : op # "list" /\ Hooks!Start(0, item, op, value, None)
    <3>1. CASE Hooks!Create
      BY <1>0, <3>1 DEF Hooks!Create, HookFields
    <3>2. ASSUME NEW i \in Item, Hooks!Rotate(i)
          PROVE  /\ ui'.listed = ui.listed /\ ui'.failed = ui.failed /\ server' = server
                 /\ (clean' => clean) /\ Hooks!Start(0, i, "rotate", made + 2, None)
      BY <1>0, <3>2, Zenon DEF Hooks!Rotate, HookFields
    <3>3. ASSUME NEW i \in Item, Hooks!Delete(i)
          PROVE  /\ ui'.listed = ui.listed /\ ui'.failed = ui.failed /\ server' = server
                 /\ (clean' => clean) /\ Hooks!Start(0, i, "delete", None, None)
      BY <3>3 DEF Hooks!Delete
    <3> QED
      BY <1>4, <3>1, <3>2, <3>3
  <2>2. PICK item, op, value : op # "list" /\ Hooks!Start(0, item, op, value, None)
    BY <2>1
  <2>3. calls' = calls \cup {Call(made, 0, item, op, value, None)}
    BY <2>2 DEF Hooks!Start, Hooks!Call, Call
  <2>4. PICK n : calls' = calls \cup {n} /\ n.at = "out" /\ n.op = op
    BY <2>3, OneOut
  <2>5. CatchesUp(calls, Ops, Hooks!Live, ui.listed, ui.failed)
          => CatchesUp(calls', Ops, Hooks!Live, ui.listed, ui.failed)
    BY <2>4, CatchesUpCalled
  <2> QED
    BY <1>1, <1>2, <2>1, <2>2, <2>4, <2>5 DEF HooksSettle
<1>5. ASSUME NEW c \in calls, Hooks!Serve(c) \/ Hooks!Refuse(c)
      PROVE  HooksSettle'
  <2>1. PICK x, y : /\ calls' = (calls \ {c}) \cup {Answering(c, x, y)}
                    /\ c.at = "out" /\ UNCHANGED <<ui, clean>>
                    /\ \/ x = "no" /\ server' = server
                       \/ x = "ok" /\ c.op = "list" /\ y = Hooks!Live /\ server' = server
                       \/ /\ x = "ok" /\ c.op # "list"
                          /\ server' = [server EXCEPT ![c.item] = c.value]
                          /\ ~Hooks!Missing(c)
    <3>1. CASE Hooks!Serve(c)
      BY <3>1, Zenon DEF Hooks!Serve, Hooks!Answered, Hooks!Replace, Answering
    <3>2. CASE Hooks!Refuse(c)
      BY <3>2, Zenon DEF Hooks!Refuse, Hooks!Refused, Hooks!Fault, Hooks!Replace, Answering
    <3> QED
      BY <1>5, <3>1, <3>2
  <2> USE <2>1
  <2>2. calls' = (calls \ {c}) \cup {Answering(c, x, y)}
    OBVIOUS
  <2>3. PICK d : /\ calls' = (calls \ {c}) \cup {d} /\ IsCall(d)
                 /\ SameCall(c, d) /\ d.value = c.value /\ d.prev = c.prev /\ d.step = c.step
                 /\ d.at = x /\ d.answer = y
    BY <1>0, <2>2, OneAnswered
  <2> USE <2>3
  <2>4. HookCall(c)
    BY DEF HooksShow
  \* A new secret leaves the subscription in the list.
  <2>5. ASSUME x = "ok", c.op = "rotate"
        PROVE  Hooks!Live' = Hooks!Live
    BY <2>5, <2>4, NoneIsNothing, <1>0 DEF HookCall, Hooks!Missing, Hooks!Live
  <2>6. \A e \in calls' : e.op = "list" => Listing(e)
    BY DEF HooksSettle, Listing, Counting, SameCall
  <2>7. PICK live : live = Hooks!Live'
    OBVIOUS
  <2>8. \/ d.at # "ok" /\ live = Hooks!Live
        \/ d.at = "ok" /\ Counting(c) /\ d.answer = Hooks!Live /\ live = Hooks!Live
        \/ ~Counting(c) /\ live = Hooks!Live
        \/ d.at = "ok" /\ c.op \in Ops
    BY <2>4, <1>2, <2>5, <2>7 DEF HookCall, HooksSettle, Listing, Counting
  <2>9. d.op = c.op
    BY DEF SameCall
  <2>10. CatchesUp(calls, Ops, Hooks!Live, ui.listed, ui.failed)
           => CatchesUp((calls \ {c}) \cup {d}, Ops, live, ui.listed, ui.failed)
    BY <2>8, <2>9, CatchesUpAnswered
  <2> QED
    BY <1>1, <2>6, <2>7, <2>10 DEF HooksSettle
<1>6. ASSUME NEW c \in calls, Hooks!EndsAndFetches(c), server' = server
      PROVE  HooksSettle'
  <2>1. PICK n : n = Hooks!Fetch(None)
    OBVIOUS
  <2>2. Counting(n) /\ n.at = "out"
    BY <2>1 DEF Hooks!Fetch, Hooks!Call, Counting
  <2>3. calls' = (calls \ {c}) \cup {n}
    BY <1>6, <2>1 DEF Hooks!EndsAndFetches
  <2>4. clean' => \A e \in calls : e.op # "list"
    BY <1>6, Zenon DEF Hooks!EndsAndFetches, Hooks!Fetching
  <2>5. \A e \in calls' : e.op = "list" => Listing(e)
    BY <2>2, <2>3 DEF HooksSettle, Listing
  <2>6. clean' => CatchesUp(calls', Ops, Hooks!Live, ui'.listed, ui'.failed)
    BY <2>2, <2>3, <2>4, CatchesUpFetched DEF Counting
  <2> QED
    BY <1>1, <1>2, <1>6, <2>5, <2>6
<1>7. ASSUME NEW c \in calls,
             \/ Hooks!ListArrives(c) \/ Hooks!Created(c) \/ Hooks!CreateFails(c)
             \/ Hooks!Rotated(c) \/ Hooks!Deleted(c)
      PROVE  HooksSettle'
  <2>1. CASE Hooks!EndsAndFetches(c)
    BY <1>6, <1>7, <2>1 DEF Hooks!ListArrives, Hooks!Created, Hooks!CreateFails, Hooks!Rotated,
       Hooks!Deleted
  <2>2. CASE ~Hooks!EndsAndFetches(c)
    <3>1. calls' = calls \ {c} /\ clean' = clean /\ server' = server
      BY <1>7, <2>2 DEF Hooks!ListArrives, Hooks!Created, Hooks!CreateFails, Hooks!Rotated,
         Hooks!Deleted, Hooks!Ends
    <3>2. \/ c.op = "list" /\ c.at = "ok" /\ ui'.listed = c.answer
          \/ c.op = "list" /\ ui'.failed
          \/ c.op # "list" /\ ~(c.op \in Ops /\ c.at = "ok")
             /\ ui'.listed = ui.listed /\ ui'.failed = ui.failed
      <4>1. CASE Hooks!ListArrives(c)
        <5>1. c.op = "list" /\ c.at \in {"ok", "no"}
          BY <4>1 DEF Hooks!ListArrives, HooksSettle, Listing
        <5> QED
          BY <1>0, <4>1, <5>1, Zenon DEF Hooks!ListArrives, HookFields
      <4>2. CASE ~Hooks!ListArrives(c)
        BY <1>0, <1>7, <2>2, <4>2, Zenon DEF Hooks!Created, Hooks!CreateFails, Hooks!Rotated,
           Hooks!Deleted, HookFields
      <4> QED
        BY <4>1, <4>2
    <3>3. c.op = "list" <=> Counting(c)
      BY DEF HooksSettle, Listing, Counting
    <3>4. CatchesUp(calls, Ops, Hooks!Live, ui.listed, ui.failed)
            => CatchesUp(calls \ {c}, Ops, Hooks!Live, ui'.listed, ui'.failed)
      BY <3>2, <3>3, CatchesUpEnded
    <3> QED
      BY <1>1, <1>2, <3>1, <3>4 DEF HooksSettle
  <2> QED
    BY <2>1, <2>2
<1> QED
  BY <1>3, <1>4, <1>5, <1>7 DEF Hooks!Next

-----------------------------------------------------------------------------
(* The lists of accounts catch up                                          *)

LEMMA UsersSettleStarts == Accounts!Init => UsersSettle
  BY DEF Accounts!Init, AccountFields, AreAccounts, Accounts!Contents, Accounts!Lists,
     Accounts!Content, UsersSettle, UsersTyped, ListCatchesUp

\* A change is seen in its own list and in no other.
LEMMA ContentKept ==
  ASSUME NEW accounts, AreAccounts(accounts), NEW after, NEW c, UserCall(c), c.op # "list",
         after = [accounts EXCEPT ![c.item] = Accounts!Write(accounts[c.item], c)],
         c.op \in Accounts!Actions => ~Accounts!Gone(accounts[c.item]),
         c.op = "invite" => accounts[c.item].state = "none",
         c.op = "uninvite" => accounts[c.item].state = "invited",
         c.op # "sessions"
  PROVE  /\ AreAccounts(after)
         /\ \A l \in Accounts!Lists : c.op \notin Changes(l) =>
              Accounts!Contents(after)[l] = Accounts!Contents(accounts)[l]
<1>0. c.item \in Item
  BY DEF UserCall
<1>1. PICK a : a = accounts[c.item]
  OBVIOUS
<1> USE <1>1
<1>2. PICK b : b = Accounts!Write(a, c)
  OBVIOUS
<1>3. a = [f \in AccountFields |-> a[f]]
  BY <1>0 DEF AreAccounts
<1>4. /\ b = [f \in AccountFields |-> b[f]]
      /\ c.op # "unlock" => b.locked = a.locked
      /\ c.op \in Accounts!Actions => b.state \in {"viewer", "rejected", "admin", "none"}
      /\ c.op = "invite" => b.state = "invited"
      /\ c.op = "uninvite" => b.state = "none"
      /\ c.op \in {"unlock", "revoke"} => b.state = a.state
  BY <1>2, <1>3, Zenon DEF Accounts!Write, UserCall, UserOps, Accounts!Actions, AccountFields
<1> USE <1>4
<1>5. /\ after = [i \in Item |-> after[i]]
      /\ \A i \in Item : after[i] = IF i = c.item THEN b ELSE accounts[i]
  BY <1>0, <1>2 DEF AreAccounts
<1> USE <1>5
<1>6. AreAccounts(after)
  BY DEF AreAccounts
<1>7. c.op \in UserOps \ {"list", "sessions"}
  BY DEF UserCall
<1>8. ASSUME c.op \notin Changes("users")
      PROVE  Accounts!Contents(after).users = Accounts!Contents(accounts).users
  BY <1>8, <1>7 DEF Changes, UserOps, Accounts!Contents
<1>9. ASSUME c.op \notin Changes("invitations")
      PROVE  Accounts!Contents(after).invitations = Accounts!Contents(accounts).invitations
  BY <1>9, <1>7 DEF Changes, UserOps, Accounts!Gone, Accounts!Contents
<1>10. ASSUME c.op \notin Changes("lockouts")
       PROVE  Accounts!Contents(after).lockouts = Accounts!Contents(accounts).lockouts
  BY <1>10 DEF Changes, Accounts!Contents
<1> QED
  BY <1>6, <1>8, <1>9, <1>10 DEF Accounts!Lists

LEMMA UsersSettleSteps == UsersShow /\ UsersSettle /\ Accounts!Next => UsersSettle'
<1> SUFFICES ASSUME UsersShow, UsersSettle, Accounts!Next PROVE UsersSettle'
  OBVIOUS
<1>0. /\ ui = [f \in UserFields |-> ui[f]] /\ AreCalls(calls)
      /\ AreAccounts(server) /\ ui.lists = [l \in Accounts!Lists |-> ui.lists[l]]
      /\ ui.target \in Item \cup {None} /\ ui.email \in Item \cup {None}
      /\ ui.for \in Item \cup {None}
      /\ \A c \in calls : UserCall(c)
  BY DEF UsersShow, UsersSettle, UsersTyped
\* What is typed, and what the lists show.
<1> DEFINE Typed == /\ AreAccounts(server')
                    /\ ui'.lists = [l \in Accounts!Lists |-> ui'.lists[l]]
                    /\ ui'.target \in Item \cup {None} /\ ui'.email \in Item \cup {None}
                    /\ ui'.for \in Item \cup {None}
           SameLists == ui'.lists = ui.lists /\ ui'.failed = ui.failed
<1>1. ASSUME Typed, \A c \in calls' : UserCall(c),
             clean' => clean /\ \A l \in Accounts!Lists :
               ListCatchesUp(l, Accounts!Content(l)) => ListCatchesUp(l, Accounts!Content(l))'
      PROVE  UsersSettle'
  BY <1>1 DEF UsersSettle, UsersTyped
<1>2. ASSUME server' = server, NEW l
      PROVE  Accounts!Content(l)' = Accounts!Content(l)
  BY <1>2 DEF Accounts!Content
<1>3. CASE \/ Accounts!CancelDelete \/ Accounts!OpenInvite \/ Accounts!CloseInvite
           \/ Accounts!CloseSessions
           \/ \E i \in Item : Accounts!RequestDelete(i) \/ Accounts!TypeEmail(i)
  <2>1. calls' = calls /\ clean' = clean /\ server' = server
    BY <1>3 DEF Accounts!CancelDelete, Accounts!OpenInvite, Accounts!CloseInvite,
       Accounts!CloseSessions, Accounts!RequestDelete, Accounts!TypeEmail
  <2>2. /\ ui'.lists = ui.lists /\ ui'.failed = ui.failed
        /\ ui'.target \in Item \cup {None} /\ ui'.email \in Item \cup {None}
        /\ ui'.for \in Item \cup {None}
    BY <1>0, <1>3, Zenon DEF Accounts!CancelDelete, Accounts!OpenInvite, Accounts!CloseInvite,
       Accounts!CloseSessions, Accounts!RequestDelete, Accounts!TypeEmail, UserFields
  <2> QED
    BY <1>0, <1>1, <1>2, <2>1, <2>2 DEF ListCatchesUp, Due, FetchOf
<1>4. ASSUME NEW item \in Item, NEW op \in UserOps \ {"list"}, NEW value,
             op = "role" => value \in {"viewer", "admin"},
             Accounts!Start(0, item, op, value, None), server' = server, clean' => clean,
             Typed, SameLists
      PROVE  UsersSettle'
  BY <1>4, OneOut, <1>0, <1>2, <1>1 DEF Accounts!Start, Accounts!Call, Call, UserCall,
     ListCatchesUp, Due, FetchOf
<1>5. CASE \/ Accounts!ConfirmDelete \/ Accounts!Invite \/ Accounts!RevokeSessions
           \/ \E i \in Item :
                \/ \E op \in {"approve", "reject"} : Accounts!Decide(i, op)
                \/ \E role \in {"viewer", "admin"} : Accounts!ChangeRole(i, role)
                \/ Accounts!RevokeInvitation(i) \/ Accounts!ClearLockout(i)
                \/ Accounts!OpenSessions(i)
  <2> USE <1>5
  <2>1. /\ server' = server
        /\ \E item \in Item, op \in UserOps \ {"list"} : \E value :
             /\ op = "role" => value \in {"viewer", "admin"}
             /\ Accounts!Start(0, item, op, value, None)
    BY <1>0, Zenon DEF Accounts!ConfirmDelete, Accounts!Decide, Accounts!ChangeRole, Accounts!Invite,
       Accounts!RevokeInvitation, Accounts!ClearLockout, Accounts!RevokeSessions, Accounts!Act,
       Accounts!OpenSessions, UserOps, Accounts!Actions
  <2>2. clean' => clean
    BY Zenon DEF Accounts!ConfirmDelete, Accounts!Decide, Accounts!ChangeRole, Accounts!Invite,
       Accounts!RevokeInvitation, Accounts!ClearLockout, Accounts!RevokeSessions, Accounts!Act,
       Accounts!OpenSessions
  <2>3. /\ SameLists /\ ui'.target \in Item \cup {None} /\ ui'.email = ui.email
        /\ ui'.for \in Item \cup {None}
    BY <1>0, Zenon DEF Accounts!ConfirmDelete, Accounts!Decide, Accounts!ChangeRole, Accounts!Invite,
       Accounts!RevokeInvitation, Accounts!ClearLockout, Accounts!RevokeSessions,
       Accounts!OpenSessions, UserFields
  <2> QED
    BY <1>0, <1>4, <2>1, <2>2, <2>3
<1>6. ASSUME NEW c \in calls, Accounts!Serve(c) \/ Accounts!Refuse(c)
      PROVE  UsersSettle'
  <2>0. UserCall(c) /\ c.at = "out" /\ UNCHANGED <<ui, clean>>
    BY <1>0, <1>6 DEF Accounts!Serve, Accounts!Refuse
  <2>1. PICK x, y : /\ calls' = (calls \ {c}) \cup {Answering(c, x, y)}
                    /\ x \in {"ok", "no"}
                    /\ \/ (x = "no" \/ c.op = "sessions") /\ server' = server
                       \/ x = "ok" /\ c.op = "list" /\ y = Accounts!Content(c.item) /\ server' = server
                       \/ /\ x = "ok" /\ c.op \notin {"list", "sessions"} /\ ~Accounts!Missing(c)
                          /\ server' = [server EXCEPT ![c.item] = Accounts!Write(@, c)]
    <3>1. CASE Accounts!Serve(c)
      BY <3>1, Zenon DEF Accounts!Serve, Accounts!Answered, Accounts!Replace, Answering
    <3>2. CASE Accounts!Refuse(c)
      <4>1. calls' = (calls \ {c}) \cup {Answering(c, "no", None)} /\ server' = server
        BY <3>2 DEF Accounts!Refuse, Accounts!Refused, Accounts!Fault, Accounts!Replace, Answering
      <4> QED
        BY <4>1
    <3> QED
      BY <1>6, <3>1, <3>2
  <2>2. calls' = (calls \ {c}) \cup {Answering(c, x, y)}
    BY <2>1
  <2>3. PICK d : /\ calls' = (calls \ {c}) \cup {d} /\ IsCall(d)
                 /\ SameCall(c, d) /\ d.value = c.value /\ d.prev = c.prev /\ d.step = c.step
                 /\ d.at = x /\ d.answer = y
    BY <1>0, <2>2, OneAnswered
  <2>4. \A e \in calls' : UserCall(e)
    BY <1>0, <2>1, <2>3 DEF UserCall, SameCall
  <2>5. CASE server' = server /\ (d.at = "ok" /\ d.op = "list" => d.answer = Accounts!Content(d.item))
    BY <2>0, <2>3, <1>2, <2>5, <1>0, <1>1, <2>4 DEF Due, SameCall, FetchOf, ListCatchesUp
  <2>6. CASE /\ x = "ok" /\ c.op \notin {"list", "sessions"} /\ ~Accounts!Missing(c)
             /\ server' = [server EXCEPT ![c.item] = Accounts!Write(@, c)]
    <3>1. server' = [server EXCEPT ![c.item] = Accounts!Write(server[c.item], c)]
      BY <2>6
    <3>2. /\ c.op \in Accounts!Actions => ~Accounts!Gone(server[c.item])
          /\ c.op = "invite" => server[c.item].state = "none"
          /\ c.op = "uninvite" => server[c.item].state = "invited"
      BY <2>6 DEF Accounts!Missing
    <3>3. PICK after : after = server'
      OBVIOUS
    <3>4. /\ AreAccounts(after)
          /\ \A l \in Accounts!Lists : c.op \notin Changes(l) =>
               Accounts!Contents(after)[l] = Accounts!Contents(server)[l]
      <4>1. AreAccounts(server) /\ UserCall(c) /\ c.op # "list" /\ c.op # "sessions"
        BY <1>0, <2>0, <2>6
      <4>2. after = [server EXCEPT ![c.item] = Accounts!Write(server[c.item], c)]
        BY <3>1, <3>3
      <4> QED
        BY ONLY <3>2, <4>1, <4>2, ContentKept, Zenon
    <3>5. AreAccounts(server')
      BY <3>3, <3>4
    <3>6. ASSUME NEW l \in Accounts!Lists, ListCatchesUp(l, Accounts!Content(l))
          PROVE  ListCatchesUp(l, Accounts!Content(l))'
      <4>1. Due(calls, Changes(l)) => Due(calls', Changes(l))
        BY <2>0, <2>3 DEF Due, SameCall
      <4>2. (\E e \in calls : FetchOf(e, l)) => \E e \in calls' : FetchOf(e, l)
        BY <2>3 DEF FetchOf, SameCall
      <4>3. CASE c.op \in Changes(l)
        BY <2>3, <2>6, <4>3 DEF Due, SameCall, ListCatchesUp
      <4>4. CASE c.op \notin Changes(l)
        <5>1. Accounts!Content(l)' = Accounts!Content(l)
          BY <3>3, <3>4, <4>4 DEF Accounts!Content
        <5>2. d.op # "list"
          BY <2>3, <2>6 DEF SameCall
        <5> QED
          BY <2>0, <2>3, <3>6, <4>1, <4>2, <5>1, <5>2 DEF ListCatchesUp, FetchOf
      <4> QED
        BY <4>3, <4>4
    <3> QED
      BY <1>0, <1>1, <2>0, <2>4, <3>5, <3>6
  <2> QED
    BY <2>1, <2>3, <2>5, <2>6 DEF SameCall
<1>7. ASSUME NEW c \in calls, NEW list \in Accounts!Lists, Accounts!EndsAndFetches(c, list),
             c.op \in Changes(list), server' = server, Typed, SameLists
      PROVE  UsersSettle'
  <2> USE <1>7
  <2>1. PICK n : n = Accounts!Fetches(list)
    OBVIOUS
  <2>2. FetchOf(n, list) /\ n.at = "out"
    BY <2>1 DEF Accounts!Fetches, Accounts!Call, FetchOf
  <2>3. calls' = (calls \ {c}) \cup {n}
    BY <2>1 DEF Accounts!EndsAndFetches
  <2>4. clean' => clean /\ \A e \in calls : ~FetchOf(e, list)
    BY Zenon DEF Accounts!EndsAndFetches, Accounts!Fetching, FetchOf
  <2>5. \A e \in calls' : UserCall(e)
    BY <1>0, <2>2, <2>3 DEF UserCall, FetchOf, UserOps
  <2>6. ASSUME NEW l \in Accounts!Lists, ListCatchesUp(l, Accounts!Content(l)), clean'
        PROVE  ListCatchesUp(l, Accounts!Content(l))'
    BY <2>2, <2>3, <2>4, <2>6, <1>2 DEF ListCatchesUp, Changes, Accounts!Lists,
       Accounts!Actions, Due, FetchOf
  <2> QED
    BY <1>1, <2>4, <2>5, <2>6
\* A handler that changed nothing ends.
<1>8. ASSUME NEW c \in calls, calls' = calls \ {c}, c.op # "list",
             \A l \in Accounts!Lists : c.op \in Changes(l) => c.at # "ok",
             server' = server, clean' = clean, Typed, SameLists
      PROVE  UsersSettle'
  BY <1>8, <1>2, <1>0, <1>1 DEF Due, ListCatchesUp, FetchOf
<1>9. ASSUME NEW c \in calls,
             \/ Accounts!Acted(c) \/ Accounts!Cleared(c) \/ Accounts!Invited(c)
             \/ Accounts!InviteFails(c) \/ Accounts!Revoked(c) \/ Accounts!SessionsArrive(c)
      PROVE  UsersSettle'
  <2> USE <1>9
  <2>1. server' = server /\ AreAccounts(server')
    BY <1>0 DEF Accounts!Acted, Accounts!Cleared, Accounts!Invited, Accounts!InviteFails,
       Accounts!Revoked, Accounts!SessionsArrive
  <2>2. SameLists /\ ui'.target = ui.target /\ ui'.email = ui.email /\ ui'.for = ui.for
    BY <1>0, Zenon DEF Accounts!Acted, Accounts!Cleared, Accounts!Invited, Accounts!InviteFails,
       Accounts!Revoked, Accounts!SessionsArrive, UserFields
  <2>3. /\ c.op # "list"
        /\ \/ \E list \in Accounts!Lists : Accounts!EndsAndFetches(c, list) /\ c.op \in Changes(list)
           \/ /\ calls' = calls \ {c} /\ clean' = clean
              /\ \A l \in Accounts!Lists : c.op \in Changes(l) => c.at # "ok"
    BY DEF Accounts!Acted, Accounts!Ends, Accounts!Actions, Accounts!Lists, Changes,
       Accounts!Cleared, Accounts!Invited, Accounts!InviteFails, Accounts!Revoked,
       Accounts!SessionsArrive
  <2> QED
    BY <1>0, <1>7, <1>8, <2>1, <2>2, <2>3
<1>10. ASSUME NEW c \in calls, Accounts!ListArrives(c)
       PROVE  UsersSettle'
  BY <1>0, <1>10, <1>2, <1>1 DEF Accounts!ListArrives, Accounts!Ends, UserCall, UserFields, Due,
     Changes, Accounts!Actions, Accounts!Lists, ListCatchesUp, FetchOf
<1> QED
  BY <1>3, <1>5, <1>6, <1>9, <1>10 DEF Accounts!Next, Accounts!User

-----------------------------------------------------------------------------
(* The conversations catch up                                              *)

LEMMA ThreadsSettleStarts == Threads!Init => ThreadsSettle
  BY DEF Threads!Init, Threads!Ask, Threads!Fetch, Threads!Call, Newest, ThreadCatchesUp,
     ThreadsSettle

\* What fetching a conversation again leaves alone.
LEMMA RefetchedThread ==
  ASSUME NEW S, AreCalls(S), NEW p, NEW f, Newest(f, p), f.at = "out",
         calls' = Threads!Refetching(p, S, f)
  PROVE  /\ \A e \in calls' : Newest(e, p) => e = f
         /\ f \in calls'
         /\ \A q : q # p => \A e : Newest(e, q) => (e \in calls' <=> e \in S)
         /\ \A e : e.op = "send" => (e \in calls' <=> e \in S)
         /\ \A e \in calls' : e.item = p \/ e \in S
<1>1. /\ \A e \in calls' : \/ e = f
                           \/ e \in S /\ ~(e.op \in {"list", "refresh"} /\ e.item = p)
                           \/ \E c \in S : e = Late(c) /\ c.op \in {"list", "refresh"} /\ c.item = p
      /\ f \in calls'
      /\ \A e \in S : ~(e.op \in {"list", "refresh"} /\ e.item = p) => e \in calls'
  BY Zenon DEF Threads!Refetching, Threads!Fetches, Late
<1>2. ASSUME NEW c \in S
      PROVE  Late(c).value = "overtaken" /\ Late(c).op = c.op /\ Late(c).item = c.item
  BY DEF AreCalls, IsCall, CallFields, Late
<1> QED
  BY <1>1, <1>2 DEF Newest

LEMMA ThreadsSettleSteps == ThreadsShow /\ ThreadsSettle /\ Threads!Next => ThreadsSettle'
<1> SUFFICES ASSUME ThreadsShow, ThreadsSettle, Threads!Next PROVE ThreadsSettle'
  OBVIOUS
<1>0. /\ ui = [f \in ThreadsFields |-> ui[f]] /\ AreCalls(calls)
      /\ ui.active \in Item /\ \A c \in calls : c.item \in Item
      /\ ui.cache = [p \in Item |-> ui.cache[p]] /\ ui.failed = [p \in Item |-> ui.failed[p]]
      /\ server = [p \in Item |-> server[p]]
  BY DEF ThreadsShow, ThreadsSettle
<1> DEFINE Typed == /\ ui'.active \in Item
                    /\ ui'.cache = [p \in Item |-> ui'.cache[p]]
                    /\ ui'.failed = [p \in Item |-> ui'.failed[p]]
                    /\ server' = [p \in Item |-> server'[p]]
                    /\ \A c \in calls' : c.item \in Item
           SameThreads == ui'.active = ui.active /\ ui'.cache = ui.cache /\ ui'.failed = ui.failed
<1>1. ASSUME Typed,
             clean' => /\ clean
                       /\ \A p \in Item : ThreadCatchesUp(p, server[p], calls, ui)
                                         => ThreadCatchesUp(p, server[p], calls, ui)'
      PROVE  ThreadsSettle'
  BY <1>1 DEF ThreadsSettle
<1>2. CASE Threads!Write \/ Threads!Send
  <2>1. SameThreads /\ server' = server /\ clean' = clean
    BY <1>0, <1>2 DEF Threads!Write, Threads!Send, ThreadsFields
  <2>2. \/ calls' = calls
        \/ calls' = calls \cup {Call(made, ui.inst, ui.active, "send", ui.draft, None)}
    BY <1>2 DEF Threads!Write, Threads!Send, Threads!Start, Threads!Call, Call
  <2>3. CASE calls' = calls
    BY <1>0, <1>1, <2>1, <2>3 DEF ThreadCatchesUp, Delivered
  <2>4. CASE calls' = calls \cup {Call(made, ui.inst, ui.active, "send", ui.draft, None)}
    <3>1. PICK n : calls' = calls \cup {n} /\ n.item = ui.active /\ n.op = "send" /\ n.at = "out"
      BY <2>4, OneOut
    <3> QED
      BY <1>0, <1>1, <2>1, <3>1 DEF ThreadCatchesUp, Delivered, Newest
  <2> QED
    BY <2>2, <2>3, <2>4
<1>3. ASSUME NEW p \in Item, Threads!Choose(p)
      PROVE  ThreadsSettle'
  <2>1. PICK u : u = [ui EXCEPT !.active = p]
    BY Zenon
  <2>2. Threads!Renders(u) /\ server' = server
    BY <1>3, <2>1 DEF Threads!Choose
  <2>3. /\ u = [f \in ThreadsFields |-> u[f]] /\ u.active = p
        /\ u.cache = ui.cache /\ u.failed = ui.failed
    BY <1>0, <2>1 DEF ThreadsFields
  <2>4. ui'.active = p /\ ui'.cache = ui.cache /\ ui'.failed = ui.failed
    BY <2>2, <2>3 DEF Threads!Renders, ThreadsFields
  <2>5. clean' => clean
    BY <1>3, Zenon DEF Threads!Choose
  <2>6. PICK n : n = Threads!Ask(p)
    OBVIOUS
  <2>7. Newest(n, p) /\ n.at = "out" /\ n.item = p
    BY <2>6 DEF Threads!Ask, Threads!Fetch, Threads!Call, Newest
  <2>8. \/ calls' = calls \cup {n}
        \/ /\ calls' = calls
           /\ (\E c \in calls : Newest(c, p)) \/ (ui.cache[p] # None /\ ~ui.failed[p])
    BY <1>3, <2>6 DEF Threads!Choose, Threads!UnderWay, Threads!Latest, Threads!Fetches, Newest
  <2>9. ASSUME NEW q \in Item, ThreadCatchesUp(q, server[q], calls, ui)
        PROVE  ThreadCatchesUp(q, server[q], calls, ui)'
    BY <2>8, <2>2, <2>4, <2>7, <2>9 DEF Delivered, ThreadCatchesUp, Newest
  <2> QED
    BY <1>0, <1>1, <2>2, <2>4, <2>5, <2>7, <2>8, <2>9
\* The conversation that is shown is fetched again, and nothing was due elsewhere.
<1>4. ASSUME NEW S \in SUBSET calls, NEW f, Newest(f, ui.active), f.at = "out",
             calls' = Threads!Refetching(ui.active, S, f),
             \A c \in calls : c \in S \/ (c.op = "send" /\ (clean => c.item = ui.active)),
             SameThreads, server' = server, clean' = clean
      PROVE  ThreadsSettle'
  <2> USE <1>4
  <2>1. AreCalls(S)
    BY <1>0 DEF AreCalls
  <2>2. /\ \A e \in calls' : Newest(e, ui.active) => e = f
        /\ f \in calls'
        /\ \A q : q # ui.active => \A e : Newest(e, q) => (e \in calls' <=> e \in S)
        /\ \A e : e.op = "send" => (e \in calls' <=> e \in S)
        /\ \A e \in calls' : e.item = ui.active \/ e \in S
    BY <2>1, RefetchedThread
  <2>3. ASSUME clean, NEW q \in Item, ThreadCatchesUp(q, server[q], calls, ui)
        PROVE  ThreadCatchesUp(q, server[q], calls, ui)'
    BY <2>2, <2>3 DEF ThreadCatchesUp, Delivered, Newest
  <2>4. Typed
    BY <1>0, <2>2
  <2> QED
    BY <1>1, <2>3, <2>4
<1>5. CASE Threads!Retry
  BY <1>5, <1>4 DEF Threads!Ask, Threads!Fetch, Threads!Call, Newest, Threads!Retry
<1>6. ASSUME NEW c \in calls, Threads!Sent(c)
      PROVE  ThreadsSettle'
  BY <1>0, <1>6, <1>4 DEF Call, Newest, Threads!Sent, ThreadsFields, Threads!Call, ThreadsShow
<1>7. ASSUME NEW c \in calls, Threads!SendFails(c)
      PROVE  ThreadsSettle'
  BY <1>7, <1>0, <1>1 DEF Threads!SendFails, Threads!Ends, ThreadsFields, ThreadCatchesUp,
     Delivered, Newest
<1>8. ASSUME NEW c \in calls, Threads!Arrives(c) \/ Threads!FetchFails(c)
      PROVE  ThreadsSettle'
  <2>1. /\ calls' = calls \ {c} /\ server' = server /\ clean' = clean
        /\ c.op # "send" /\ c.item \in Item
        /\ Threads!Latest(c) <=> Newest(c, c.item)
    BY <1>0, <1>8 DEF Threads!Arrives, Threads!FetchFails, Threads!Ends, Threads!Latest,
       Threads!Fetches, Newest
  <2>2. PICK cache : cache = [ui.cache EXCEPT ![c.item] = c.answer]
    BY Zenon
  <2>3. PICK ok : ok = [ui.failed EXCEPT ![c.item] = FALSE]
    BY Zenon
  <2>4. PICK no : no = [ui.failed EXCEPT ![c.item] = TRUE]
    BY Zenon
  <2>5. PICK v : /\ Threads!Renders(Threads!Over(c, v))
                 /\ \/ v = ui /\ ~Threads!Latest(c)
                    \/ v = [ui EXCEPT !.cache = cache, !.failed = ok] /\ c.at = "ok" /\ Threads!Latest(c)
                    \/ v = [ui EXCEPT !.failed = no]
    BY <2>2, <2>3, <2>4, <1>8 DEF Threads!Arrives, Threads!FetchFails
  <2>6. PICK u : u = Threads!Over(c, v)
    OBVIOUS
  <2>7. /\ u = [f \in ThreadsFields |-> u[f]] /\ u.active = ui.active
        /\ \/ u.cache = ui.cache /\ u.failed = ui.failed /\ ~Threads!Latest(c)
           \/ u.cache = cache /\ u.failed = ok /\ c.at = "ok" /\ Threads!Latest(c)
           \/ u.cache = ui.cache /\ u.failed = no
    <3>1. /\ v = [f \in ThreadsFields |-> v[f]] /\ v.active = ui.active
          /\ \/ v.cache = ui.cache /\ v.failed = ui.failed /\ ~Threads!Latest(c)
             \/ v.cache = cache /\ v.failed = ok /\ c.at = "ok" /\ Threads!Latest(c)
             \/ v.cache = ui.cache /\ v.failed = no
      BY <1>0, <2>5, Zenon DEF ThreadsFields
    <3> QED
      BY <2>6, <3>1, Zenon DEF Threads!Over, ThreadsFields
  <2>8. Threads!Renders(u)
    BY <2>5, <2>6
  <2>9. ui'.active = u.active /\ ui'.cache = u.cache /\ ui'.failed = u.failed
    BY <2>7, <2>8 DEF Threads!Renders, ThreadsFields
  <2>13. /\ cache = [p \in Item |-> cache[p]] /\ ok = [p \in Item |-> ok[p]]
         /\ no = [p \in Item |-> no[p]]
    BY <1>0, <2>2, <2>3, <2>4, Zenon
  <2>10. /\ cache[c.item] = c.answer /\ no[c.item]
         /\ \A p \in Item : p # c.item => /\ cache[p] = ui.cache[p]
                                          /\ ok[p] = ui.failed[p] /\ no[p] = ui.failed[p]
    BY <1>0, <2>1, <2>2, <2>3, <2>4
  <2>11. Typed
    <3>1. ui'.active \in Item /\ ui'.cache = [p \in Item |-> ui'.cache[p]]
      BY <1>0, <2>7, <2>9, <2>13, Zenon
    <3>2. ui'.failed = [p \in Item |-> ui'.failed[p]]
      BY <1>0, <2>7, <2>9, <2>13, Zenon
    <3> QED
      BY <1>0, <2>1, <3>1, <3>2
  <2>12. ASSUME NEW q \in Item, ThreadCatchesUp(q, server[q], calls, ui)
         PROVE  ThreadCatchesUp(q, server[q], calls, ui)'
    BY <2>1, <2>7, <2>9, <2>12, <2>10 DEF Delivered, ThreadCatchesUp, Newest
  <2> QED
    BY <1>1, <2>1, <2>11, <2>12, Zenon
<1>9. ASSUME NEW c \in calls, Threads!Serve(c) \/ Threads!Refuse(c)
      PROVE  ThreadsSettle'
  <2>1. PICK x, y, s : /\ calls' = (calls \ {c}) \cup {Answering(c, x, y)}
                    /\ ui' = ui /\ clean' = clean /\ c.at = "out"
                    /\ \/ x = "no" /\ server' = server
                       \/ x = "ok" /\ c.op = "send" /\ server' = [server EXCEPT ![c.item] = s]
                       \/ x = "ok" /\ c.op # "send" /\ server' = server
                          /\ (Newest(c, c.item) => y = server[c.item])
    <3>1. CASE Threads!Serve(c)
      BY <3>1, Zenon DEF Threads!Serve, Threads!Answered, Threads!Replace, Answering, Threads!Latest,
         Threads!Fetches, Newest
    <3>2. CASE Threads!Refuse(c)
      <4>1. calls' = (calls \ {c}) \cup {Answering(c, "no", None)} /\ server' = server
        BY <3>2 DEF Threads!Refuse, Threads!Refused, Threads!Fault, Threads!Replace, Answering
      <4>2. ui' = ui /\ clean' = clean /\ c.at = "out"
        BY <3>2 DEF Threads!Refuse
      <4> QED
        BY <4>1, <4>2
    <3> QED
      BY <1>9, <3>1, <3>2
  <2> USE <2>1
  <2>2. calls' = (calls \ {c}) \cup {Answering(c, x, y)}
    OBVIOUS
  <2>3. PICK d : /\ calls' = (calls \ {c}) \cup {d} /\ IsCall(d)
                 /\ SameCall(c, d) /\ d.value = c.value /\ d.prev = c.prev /\ d.step = c.step
                 /\ d.at = x /\ d.answer = y
    BY <1>0, <2>2, OneAnswered
  <2> USE <2>3
  <2>4. d.op = c.op /\ d.item = c.item /\ c.item \in Item
    BY <1>0 DEF SameCall
  <2> USE <2>4
  <2>5. /\ server' = [p \in Item |-> server'[p]]
        /\ \A p \in Item : p # c.item => server'[p] = server[p]
    BY <1>0
  <2>6. Typed
    BY <1>0, <2>5
  <2>7. ASSUME NEW q \in Item, ThreadCatchesUp(q, server[q], calls, ui)
        PROVE  ThreadCatchesUp(q, server[q], calls, ui)'
    BY <2>5, <2>7 DEF Delivered, Newest, ThreadCatchesUp
  <2> QED
    BY <1>1, <2>6, <2>7
<1> QED
  BY <1>2, <1>3, <1>5, <1>6, <1>7, <1>8, <1>9 DEF Threads!Next, Threads!User

-----------------------------------------------------------------------------
(* The settings catch up                                                   *)

\* What a page asks for when it is loaded.
LEMMA SettingsLoaded ==
  ASSUME NEW inst, NEW ops, NEW c \in Personal!Loads(inst, ops)
  PROVE  IsCall(c) /\ c.inst = inst /\ c.at = "out" /\ c.op \in ops /\ c.answer = None
  BY DEF Personal!Loads, Personal!Call, Call, IsCall, CallFields

LEMMA OneOfEach ==
  ASSUME NEW inst, NEW ops, NEW ops2, NEW c \in Personal!Loads(inst, ops),
         NEW d \in Personal!Loads(inst, ops2), c.op = d.op
  PROVE  c = d
  BY DEF Personal!Loads, Personal!Call, Call

LEMMA SettingsKeepStarts == Personal!Init => SettingsKeep
<1> SUFFICES ASSUME Personal!Init PROVE SettingsKeep
  OBVIOUS
<1>1. /\ ui = [f \in SettingsFields |-> ui[f]] /\ ui.inst = 0
      /\ ui.employee = None /\ ui.prefs = None /\ ui.prefsLoading
  BY Zenon DEF Personal!Init, Personal!Loaded, SettingsFields
<1> USE <1>1
<1>2. server = [f \in ServerFields |-> server[f]]
  BY DEF Personal!Init, ServerFields
<1>3. calls = Personal!Loads(0, Personal!AtMount)
  BY DEF Personal!Init
<1>4. \A c \in calls : IsCall(c) /\ c.inst = 0 /\ c.at = "out" /\ c.op \in Personal!AtMount
  BY <1>3, SettingsLoaded
<1> USE <1>4
<1>5. PrefsInTurn(calls, ui)
  BY <1>3, OneOfEach DEF OneAtATime, FlagsTell, Personal!AtMount, PrefsInTurn
<1>6. ui.inst \in Nat /\ \A c \in calls : c.inst \in 0..ui.inst
  OBVIOUS
<1> QED
  BY <1>2, <1>5, <1>6 DEF SettingsKeep, ConnectionsCatchUp, PrefsCatchUp, AreCalls

LEMMA SettingsKeepSteps == SettingsKeep /\ Personal!Next => SettingsKeep'
<1> SUFFICES ASSUME SettingsKeep, Personal!Next PROVE SettingsKeep'
  OBVIOUS
<1>0. ui = [f \in SettingsFields |-> ui[f]] /\ AreCalls(calls)
      /\ server = [f \in ServerFields |-> server[f]]
  BY DEF SettingsKeep
<1>n. ui.inst \in Nat /\ \A c \in calls : c.inst \in 0..ui.inst
  BY DEF SettingsKeep
<1>p. FlagsTell(calls, ui) /\ OneAtATime(calls, ui.inst)
  BY DEF SettingsKeep, PrefsInTurn
<1> DEFINE Up(S, u, s) == ConnectionsCatchUp(S, u, s.connected) /\ PrefsCatchUp(S, u, s.prefs)
\* The same page, with what it has asked for and what it asks for now.
<1>1. ASSUME ui' = [f \in SettingsFields |-> ui'[f]], ui'.inst = ui.inst,
             server' = [f \in ServerFields |-> server'[f]],
             \A c \in calls' : IsCall(c) /\ (c.inst = ui.inst \/ \E d \in calls : c.inst = d.inst),
             PrefsInTurn(calls', ui'),
             clean' => clean /\ (Up(calls, ui, server) => Up(calls', ui', server'))
      PROVE  SettingsKeep'
  BY <1>1, <1>n DEF SettingsKeep, AreCalls
<1>2. ASSUME NEW i \in Item, Personal!Connect(i) \/ Personal!Disconnect(i)
      PROVE  SettingsKeep'
  <2>1. UNCHANGED <<ui, server, clean>>
    BY <1>2 DEF Personal!Connect, Personal!Disconnect
  <2> USE <2>1
  <2>2. PICK op : op \in {"connect", "disconnect"} /\ Personal!Start(ui.inst, i, op, None, None)
    BY <1>2 DEF Personal!Connect, Personal!Disconnect
  <2> USE <2>2
  <2>3. calls' = calls \cup {Call(made, ui.inst, i, op, None, None)}
    BY DEF Personal!Start, Personal!Call, Call
  <2>4. PICK n : calls' = calls \cup {n} /\ IsCall(n) /\ n.inst = ui.inst /\ n.op = op /\ n.at = "out"
    BY <2>3, OneOut
  <2> USE <2>4
  <2>5. PrefsInTurn(calls', ui')
    BY <1>p DEF FlagsTell, Own, OneAtATime, PrefsInTurn
  <2>6. Up(calls, ui, server) => Up(calls', ui', server')
    BY DEF ConnectionsCatchUp, PrefsCatchUp, AsksEmployee
  <2> QED
    BY <1>0, <1>1, <2>5, <2>6 DEF AreCalls
<1>3. ASSUME NEW p \in Value, Personal!ChangePrefs(p)
      PROVE  SettingsKeep'
  <2>1. /\ ~ui.prefsLoading /\ ~ui.saving /\ UNCHANGED <<server, clean>>
        /\ ui' = [ui EXCEPT !.prefs = p, !.saving = TRUE]
        /\ Personal!Start(ui.inst, None, "save", p, None)
    BY <1>3 DEF Personal!ChangePrefs
  <2> USE <2>1
  <2>2. calls' = calls \cup {Call(made, ui.inst, None, "save", p, None)}
    BY DEF Personal!Start, Personal!Call, Call
  <2>3. PICK n : calls' = calls \cup {n} /\ IsCall(n) /\ n.inst = ui.inst /\ n.op = "save" /\ n.at = "out"
    BY <2>2, OneOut
  <2> USE <2>3
  <2>4. /\ ui' = [f \in SettingsFields |-> ui'[f]] /\ ui'.inst = ui.inst /\ ui'.saving
        /\ ui'.employee = ui.employee
    BY <1>0, Zenon DEF SettingsFields
  <2> USE <2>4
  <2>b. ~ui'.prefsLoading
    BY <1>0 DEF SettingsFields
  <2>5. PrefsInTurn(calls', ui')
    BY <1>p, <2>b DEF FlagsTell, Own, OneAtATime, PrefsInTurn
  <2>6. Up(calls, ui, server) => Up(calls', ui', server')
    BY DEF ConnectionsCatchUp, PrefsCatchUp, AsksEmployee, Own
  <2> QED
    BY <1>0, <1>1, <2>5, <2>6, Zenon DEF AreCalls
<1>4. CASE Personal!TypePassword \/ Personal!ChangePassword
  BY <1>4, <1>0, OneOut, <1>p, <1>1 DEF Personal!TypePassword, Personal!ChangePassword,
     SettingsFields, Personal!Start, Personal!Call, Call, FlagsTell, Own, OneAtATime, PrefsInTurn,
     ConnectionsCatchUp, PrefsCatchUp, AsksEmployee, AreCalls
\* A handler ends; what it leaves due is that of another.
<1>5. ASSUME NEW c \in calls, calls' = calls \ {c}, UNCHANGED server,
             ui' = [f \in SettingsFields |-> ui'[f]], ui'.inst = ui.inst,
             ui'.prefsLoading => ui.prefsLoading,
             ui.prefsLoading /\ ~ui'.prefsLoading => c.op = "prefs" /\ Own(c, ui),
             ui.saving /\ ~ui'.saving => c.op = "save" /\ Own(c, ui),
             clean' => /\ clean
                       /\ IF AsksEmployee(c, ui)
                            THEN ui'.employee \in {None, c.answer} /\ (ui'.employee # None => c.at = "ok")
                            ELSE ui'.employee = ui.employee
                       /\ c.op = "disconnect" /\ Own(c, ui) => c.at # "ok"
                       /\ IF c.op \in {"prefs", "save"} /\ Own(c, ui)
                            THEN \/ ui'.prefs = c.answer /\ c.at = "ok"
                                 \/ ui'.prefs = ui.prefs /\ c.op = "prefs"
                            ELSE ui'.prefs = ui.prefs
      PROVE  SettingsKeep'
  <2> USE <1>5
  <2>1. PrefsInTurn(calls', ui')
    BY <1>p DEF FlagsTell, OneAtATime, Own, PrefsInTurn
  <2>2. ASSUME clean', ConnectionsCatchUp(calls, ui, server.connected)
        PROVE  ConnectionsCatchUp(calls', ui', server'.connected)
    BY <2>2 DEF ConnectionsCatchUp, AsksEmployee, Own
  <2>3. ASSUME clean', PrefsCatchUp(calls, ui, server.prefs)
        PROVE  PrefsCatchUp(calls', ui', server'.prefs)
    BY <1>p, <2>3 DEF PrefsCatchUp, Own, OneAtATime
  <2> QED
    BY <1>0, <1>1, <2>1, <2>2, <2>3 DEF AreCalls
<1>6. ASSUME NEW c \in calls, Personal!EmployeeAnswered(c)
      PROVE  SettingsKeep'
  <2> USE <1>6
  <2>1. /\ c.op \in {"employee", "again"} /\ calls' = calls \ {c} /\ UNCHANGED <<server, clean>>
    BY DEF Personal!EmployeeAnswered, Personal!Ends
  <2>2. /\ ui' = [f \in SettingsFields |-> ui'[f]] /\ ui'.inst = ui.inst /\ ui'.prefs = ui.prefs
        /\ IF c.inst = ui.inst
             THEN ui'.employee = IF c.at = "ok" THEN c.answer ELSE None
             ELSE ui'.employee = ui.employee
    BY <1>0, Zenon DEF Personal!EmployeeAnswered, Personal!Mine, SettingsFields
  <2>b. ui'.prefsLoading = ui.prefsLoading /\ ui'.saving = ui.saving
    BY <1>0 DEF Personal!EmployeeAnswered, SettingsFields
  <2>3. IF AsksEmployee(c, ui)
          THEN ui'.employee \in {None, c.answer} /\ (ui'.employee # None => c.at = "ok")
          ELSE ui'.employee = ui.employee
    BY <2>1, <2>2 DEF AsksEmployee, Own
  <2> QED
    BY <1>5, <2>1, <2>2, <2>b, <2>3
<1>7. ASSUME NEW c \in calls,
             \/ Personal!ConfigAnswered(c) \/ Personal!PasswordChanged(c) \/ Personal!ConnectFails(c)
      PROVE  SettingsKeep'
  <2> USE <1>7
  <2>1. /\ c.op \in {"config", "password", "connect"} /\ calls' = calls \ {c}
        /\ UNCHANGED <<server, clean>>
    BY DEF Personal!ConfigAnswered, Personal!PasswordChanged, Personal!ConnectFails,
       Personal!Ends
  <2>2. /\ ui' = [f \in SettingsFields |-> ui'[f]] /\ ui'.inst = ui.inst /\ ui'.prefs = ui.prefs
        /\ ui'.employee = ui.employee
    BY <1>0, Zenon DEF Personal!ConfigAnswered, Personal!PasswordChanged, Personal!ConnectFails,
       SettingsFields
  <2>b. ui'.prefsLoading = ui.prefsLoading /\ ui'.saving = ui.saving
    BY <1>0, Zenon DEF Personal!ConfigAnswered, Personal!PasswordChanged, Personal!ConnectFails,
       SettingsFields
  <2> QED
    BY <1>5, <2>1, <2>2, <2>b DEF AsksEmployee
<1>8. ASSUME NEW c \in calls, Personal!PrefsAnswered(c)
      PROVE  SettingsKeep'
  <2> USE <1>8
  <2>1. c.op = "prefs" /\ calls' = calls \ {c} /\ UNCHANGED <<server, clean>>
    BY DEF Personal!PrefsAnswered, Personal!Ends
  <2>2. /\ ui' = [f \in SettingsFields |-> ui'[f]] /\ ui'.inst = ui.inst
        /\ ui'.employee = ui.employee
        /\ IF Own(c, ui) THEN ui'.prefs = IF c.at = "ok" THEN c.answer ELSE ui.prefs
                         ELSE ui'.prefs = ui.prefs
    BY <1>0, Zenon DEF Personal!PrefsAnswered, Personal!Mine, Own, SettingsFields
  <2>b. /\ ui'.saving = ui.saving
        /\ IF Own(c, ui) THEN ui'.prefsLoading = FALSE ELSE ui'.prefsLoading = ui.prefsLoading
    BY <1>0 DEF Personal!PrefsAnswered, Personal!Mine, Own, SettingsFields
  <2> QED
    BY <1>5, <2>1, <2>2, <2>b DEF AsksEmployee
<1>9. ASSUME NEW c \in calls, Personal!Saved(c)
      PROVE  SettingsKeep'
  <2> USE <1>9
  <2>1. /\ c.op = "save" /\ calls' = calls \ {c} /\ server' = server
        /\ clean' => clean /\ c.at = "ok"
    BY Zenon DEF Personal!Saved, Personal!Ends
  <2>2. /\ ui' = [f \in SettingsFields |-> ui'[f]] /\ ui'.inst = ui.inst
        /\ ui'.employee = ui.employee
        /\ IF Own(c, ui) THEN ui'.prefs = IF c.at = "ok" THEN c.answer ELSE ui.prefs
                         ELSE ui'.prefs = ui.prefs
    BY <1>0, Zenon DEF Personal!Saved, Personal!Mine, Own, SettingsFields
  <2>b. /\ ui'.prefsLoading = ui.prefsLoading
        /\ IF Own(c, ui) THEN ui'.saving = FALSE ELSE ui'.saving = ui.saving
    BY <1>0 DEF Personal!Saved, Personal!Mine, Own, SettingsFields
  <2> QED
    BY <1>5, <2>1, <2>2, <2>b DEF AsksEmployee
<1>10. ASSUME NEW c \in calls, Personal!Disconnected(c)
       PROVE  SettingsKeep'
  <2>1. UNCHANGED <<ui, server, clean>> /\ c.op = "disconnect"
    BY <1>10 DEF Personal!Disconnected
  <2> USE <2>1
  <2>2. CASE Own(c, ui) /\ c.at = "ok"
    <3>1. PICK n : n = Call(None, ui.inst, None, "again", None, None)
      OBVIOUS
    <3>2. IsCall(n) /\ n.inst = ui.inst /\ n.op = "again" /\ n.at = "out"
      BY <3>1, NewCall
    <3> USE <3>2
    <3>3. calls' = (calls \ {c}) \cup {n}
      BY <1>10, <2>2, <3>1 DEF Personal!Disconnected, Personal!Mine, Own, Personal!Loads,
         Personal!Call, Call
    <3> USE <3>3
    <3>4. PrefsInTurn(calls', ui')
      BY <1>p DEF FlagsTell, OneAtATime, PrefsInTurn
    <3>5. Up(calls, ui, server) => Up(calls', ui', server')
      BY DEF ConnectionsCatchUp, PrefsCatchUp, AsksEmployee, Own
    <3> QED
      BY <1>0, <1>1, <3>4, <3>5 DEF AreCalls
  <2>3. CASE ~(Own(c, ui) /\ c.at = "ok")
    BY <1>10, <2>3, <1>0, <1>5 DEF Personal!Disconnected, Personal!Mine, Own, AsksEmployee
  <2> QED
    BY <2>2, <2>3
\* What the page that was left had asked for is none of the new page's.
<1>11. ASSUME NEW c \in calls, Personal!Connected(c)
       PROVE  SettingsKeep'
  <2>1. CASE UNCHANGED <<ui, server, clean>> /\ calls' = calls \ {c} /\ c.op = "connect"
    BY <1>0, <1>5, <2>1 DEF AsksEmployee
  <2>2. ASSUME NEW consents \in BOOLEAN,
               /\ ui' = Personal!Loaded(ui.inst + 1)
               /\ server' = IF consents THEN [server EXCEPT !.connected = @ \cup {c.item}] ELSE server
               /\ calls' = {d \in calls : d.at = "out" /\ d.op \in {"save", "disconnect", "password"}}
                             \cup Personal!Loads(ui.inst + 1, Personal!AtMount)
                             \cup Personal!Loads(ui.inst + 1, IF consents THEN {"again"} ELSE {})
        PROVE  SettingsKeep'
    <3>1. PICK inst : inst = ui.inst + 1
      OBVIOUS
    <3>2. inst \in Nat /\ \A d \in calls : d.inst # inst /\ d.inst \in 0..inst
      BY <1>n, <3>1
    <3>3. PICK again : again = IF consents THEN {"again"} ELSE {}
      BY Zenon
    <3>4. ui' = Personal!Loaded(inst)
      BY <2>2, <3>1
    <3>5. \A e \in calls' : \/ e \in calls
                            \/ e \in Personal!Loads(inst, Personal!AtMount)
                            \/ e \in Personal!Loads(inst, again)
      BY <2>2, <3>1, <3>3
    <3>6. server' = [f \in ServerFields |-> server'[f]]
      BY <1>0, <2>2, Zenon DEF ServerFields
    <3>7. /\ ui' = [f \in SettingsFields |-> ui'[f]] /\ ui'.inst = inst
          /\ ui'.employee = None /\ ui'.prefs = None
      BY <3>4, Zenon DEF Personal!Loaded, SettingsFields
    <3>b. ui'.prefsLoading
      BY <3>4 DEF Personal!Loaded, SettingsFields
    <3>8. \A e \in calls' : \/ e \in calls /\ e.inst # inst
                            \/ IsCall(e) /\ e.inst = inst /\ e.at = "out" /\ e.op # "save"
      BY SettingsLoaded, <3>3, <3>2, <3>5 DEF Personal!AtMount
    <3> USE <3>8
    <3>9. OneAtATime(calls', inst)
      BY <3>2, <3>5, OneOfEach DEF OneAtATime
    <3>10. FlagsTell(calls', ui')
      BY <3>7, <3>b DEF FlagsTell, Own
    <3>11. \A e \in calls' : IsCall(e) /\ e.inst \in 0..inst
      BY <1>0, <3>2 DEF AreCalls
    <3>12. ConnectionsCatchUp(calls', ui', server'.connected) /\ PrefsCatchUp(calls', ui', server'.prefs)
      BY <3>7 DEF ConnectionsCatchUp, PrefsCatchUp, AsksEmployee, Own
    <3> QED
      BY <3>2, <3>6, <3>7, <3>9, <3>10, <3>11, <3>12 DEF SettingsKeep, AreCalls, PrefsInTurn
  <2> QED
    BY <1>11, <2>1, <2>2 DEF Personal!Connected, Personal!Ends
<1>12. ASSUME NEW c \in calls, Personal!Serve(c) \/ Personal!Refuse(c)
       PROVE  SettingsKeep'
  <2>0. ui' = ui /\ c.at = "out"
    BY <1>12 DEF Personal!Serve, Personal!Refuse
  <2>1. PICK s : s = CASE c.op = "disconnect" -> [server EXCEPT !.connected = @ \ {c.item}]
                       [] c.op = "save" -> [server EXCEPT !.prefs = c.value]
                       [] OTHER -> server
    BY Zenon
  <2>2. PICK x, y :
          /\ calls' = (calls \ {c}) \cup {Answering(c, x, y)}
          /\ \/ /\ x = "no" /\ server' = server /\ clean' = clean
             \/ /\ x = "ok" /\ server' = s
                /\ c.op \in {"employee", "again"} => y = s.connected
                /\ c.op \in {"prefs", "save"} => y = s.prefs
                /\ clean' => /\ clean /\ (s # server => Own(c, ui))
                             /\ s.connected # server.connected => ~Personal!Overtaken
    <3>1. CASE Personal!Serve(c)
      <4>1. PICK y : y = CASE c.op \in {"employee", "again"} -> s.connected
                           [] c.op = "config" -> s.offered
                           [] c.op \in {"prefs", "save"} -> s.prefs
                           [] OTHER -> None
        OBVIOUS
      <4>2. /\ calls' = (calls \ {c}) \cup {Answering(c, "ok", y)} /\ server' = s
            /\ clean' => /\ clean /\ (s # server => Own(c, ui))
                         /\ s.connected # server.connected => ~Personal!Overtaken
        BY <2>1, <3>1, <4>1, Zenon DEF Personal!Serve, Personal!Answered, Personal!Replace, Answering,
           Personal!Mine, Own
      <4>3. /\ c.op \in {"employee", "again"} => y = s.connected
            /\ c.op \in {"prefs", "save"} => y = s.prefs
        BY <4>1
      <4> QED
        BY <4>2, <4>3
    <3>2. CASE Personal!Refuse(c)
      <4>1. calls' = (calls \ {c}) \cup {Answering(c, "no", None)} /\ server' = server /\ clean' = clean
        BY <3>2 DEF Personal!Refuse, Personal!Refused, Personal!Fault, Personal!Replace, Answering
      <4> QED
        BY <4>1
    <3> QED
      BY <1>12, <3>1, <3>2
  <2>3. calls' = (calls \ {c}) \cup {Answering(c, x, y)}
    BY <2>2
  <2>4. PICK d : /\ calls' = (calls \ {c}) \cup {d} /\ IsCall(d)
                 /\ SameCall(c, d) /\ d.value = c.value /\ d.prev = c.prev /\ d.step = c.step
                 /\ d.at = x /\ d.answer = y
    BY <1>0, <2>3, OneAnswered
  <2> USE <2>4
  <2>5. d.op = c.op /\ d.inst = c.inst
    BY DEF SameCall
  <2>6. /\ s = [f \in ServerFields |-> s[f]]
        /\ c.op # "disconnect" => s.connected = server.connected
        /\ c.op # "save" => s.prefs = server.prefs
    BY <1>0, <2>1 DEF ServerFields
  <2>7. PrefsInTurn(calls', ui')
    BY <1>p, <2>0, <2>5 DEF FlagsTell, Own, OneAtATime, PrefsInTurn
  <2>8. ASSUME clean', ConnectionsCatchUp(calls, ui, server.connected)
        PROVE  ConnectionsCatchUp(calls', ui', server'.connected)
    <3>1. CASE server'.connected = server.connected
      BY <2>0, <2>2, <2>5, <2>6, <2>8, <3>1, Zenon DEF ConnectionsCatchUp, AsksEmployee, Own
    <3>2. CASE server'.connected # server.connected
      <4>1. c.op = "disconnect" /\ x = "ok" /\ Own(c, ui) /\ ~Personal!Overtaken
        BY <2>2, <2>6, <2>8, <3>2, Zenon
      <4> QED
        BY <2>0, <2>5, <4>1 DEF ConnectionsCatchUp, AsksEmployee, Own, Personal!Overtaken
    <3> QED
      BY <3>1, <3>2
  <2>9. ASSUME clean', PrefsCatchUp(calls, ui, server.prefs)
        PROVE  PrefsCatchUp(calls', ui', server'.prefs)
    <3>1. CASE server'.prefs = server.prefs
      BY <2>0, <2>2, <2>5, <2>6, <2>9, <3>1, Zenon DEF PrefsCatchUp, Own
    <3>2. CASE server'.prefs # server.prefs
      <4>1. c.op = "save" /\ x = "ok" /\ Own(c, ui) /\ y = server'.prefs
        BY <2>2, <2>6, <2>9, <3>2, Zenon
      \* No other answer about the preferences is on its way to this page.
      <4>2. \A e \in calls : e.op \in {"prefs", "save"} /\ Own(e, ui) => e = c
        BY <1>p, <4>1 DEF FlagsTell, OneAtATime, Own
      <4> QED
        BY <2>0, <2>5, <4>1, <4>2 DEF PrefsCatchUp, Own
    <3> QED
      BY <3>1, <3>2
  <2>10. server' = [f \in ServerFields |-> server'[f]]
    BY <1>0, <2>2, <2>6
  <2> QED
    BY <1>0, <1>1, <2>0, <2>2, <2>5, <2>7, <2>8, <2>9, <2>10 DEF AreCalls
<1> QED
  BY <1>2, <1>3, <1>4, <1>6, <1>7, <1>8, <1>9, <1>10, <1>11, <1>12 DEF Personal!Next

-----------------------------------------------------------------------------
(* The outcomes catch up                                                   *)

\* A load starts with nothing.
LEMMA LoadIsEmpty ==
  ASSUME NEW n, NEW c, c = Funnels!Load(n, Funnels!Parts)
  PROVE  /\ c.op = "list" /\ c.at = "out" /\ c.id = n /\ BringsParts(c)
         /\ c.answer["rows"] = None /\ c.answer["funnel"] = None
  BY DEF Funnels!Load, Funnels!Call, BringsParts, Funnels!Parts

LEMMA OutcomesKeepStarts == Funnels!Init => OutcomesKeep
  BY LoadIsEmpty DEF Funnels!Init, Numbered, LoadsAfter, OutcomesKeep, Full, PartsCatchUp,
     RowsCatchUp

LEMMA LoadsAgain ==
  ASSUME NEW S, NEW c, NEW loads, NEW newest, NEW n \in Nat \ {0}, NEW T,
         Numbered(S, loads, newest),
         Full(S),
         T = LoadingAgain(S, c, loads, n)
  PROVE  /\ Numbered(T, loads + n, newest)
         /\ Full(T)
         /\ \A doc, count : PartsCatchUp(T, newest, doc, count)
         /\ LoadsAfter(T, newest)
  BY LoadIsEmpty DEF Numbered, NewLoads, LoadingAgain, LoadsAfter, PartsCatchUp, Full

LEMMA PartsUp ==
  ASSUME NEW S, NEW newest, NEW doc, NEW count, PartsCatchUp(S, newest, doc, count),
         NEW c \in S, c.op = "list", c.id > newest, c.at = "out"
  PROVE  \/ Carried(S) \/ LoadsAfter(S, c.id)
         \/ c.answer["rows"] \in {None, doc} /\ c.answer["funnel"] \in {None, count}
  BY DEF PartsCatchUp

\* A call that goes on: only what was carried out changes the documents.
LEMMA LoadsGoOn ==
  ASSUME NEW S, NEW c \in S, NEW d, d.op = c.op, d.id = c.id, c.at # "ok",
         NEW newest, NEW rows, NEW funnel, NEW doc, NEW count, NEW doc2, NEW count2,
         PartsCatchUp(S, newest, doc, count),
         RowsCatchUp(S, newest, rows, funnel, doc, count),
         \/ d.op \in {"put", "force", "quick", "bulk"} /\ d.at = "ok"
         \/ /\ doc2 = doc /\ count2 = count
            /\ d.op = "list" =>
                 \/ d.at = "no"
                 \/ /\ c.at = "out"
                    /\ d.answer["rows"] \in {c.answer["rows"], doc}
                    /\ d.answer["funnel"] \in {c.answer["funnel"], count}
  PROVE  /\ PartsCatchUp((S \ {c}) \cup {d}, newest, doc2, count2)
         /\ RowsCatchUp((S \ {c}) \cup {d}, newest, rows, funnel, doc2, count2)
<1> DEFINE T == (S \ {c}) \cup {d}
<1>1. Carried(S) => Carried(T)
  BY DEF Carried
<1>2. \A k : LoadsAfter(S, k) => LoadsAfter(T, k)
  BY DEF LoadsAfter
<1>3. CASE d.op \in {"put", "force", "quick", "bulk"} /\ d.at = "ok"
  BY <1>3 DEF Carried, PartsCatchUp, RowsCatchUp
<1>4. CASE /\ doc2 = doc /\ count2 = count
           /\ d.op = "list" =>
                \/ d.at = "no"
                \/ /\ c.at = "out"
                   /\ d.answer["rows"] \in {c.answer["rows"], doc}
                   /\ d.answer["funnel"] \in {c.answer["funnel"], count}
  <2>1. ASSUME NEW e \in T, e.op = "list", e.id > newest, e.at \in {"out", "ok"}
        PROVE  \/ Carried(T) \/ LoadsAfter(T, e.id)
               \/ e.answer["rows"] \in {None, doc} /\ e.answer["funnel"] \in {None, count}
    <3> USE <2>1
    <3>1. CASE e \in S
      BY <1>1, <1>2, <3>1 DEF PartsCatchUp
    <3>2. CASE e = d
      <4> USE <3>2
      <4>0. c.op = "list" /\ c.id > newest /\ c.at = "out"
        BY <1>4
      <4>1. \/ Carried(S) \/ LoadsAfter(S, c.id)
            \/ c.answer["rows"] \in {None, doc} /\ c.answer["funnel"] \in {None, count}
        BY ONLY <4>0, PartsUp, PartsCatchUp(S, newest, doc, count), c \in S
      <4>2. e.answer["rows"] \in {c.answer["rows"], doc} /\ e.answer["funnel"] \in {c.answer["funnel"], count}
        BY <1>4
      <4> QED
        BY <1>1, <1>2, <4>1, <4>2
    <3> QED
      BY <3>1, <3>2
  <2> HIDE DEF T
  <2>2. PartsCatchUp(T, newest, doc2, count2)
    BY <1>4, <2>1 DEF PartsCatchUp
  <2>3. RowsCatchUp(T, newest, rows, funnel, doc2, count2)
    BY <1>1, <1>2, <1>4 DEF RowsCatchUp
  <2> QED
    BY <2>2, <2>3 DEF T
<1> QED
  BY <1>3, <1>4
LEMMA OutcomesKeepSteps == OutcomesShow /\ OutcomesKeep /\ Funnels!Next => OutcomesKeep'
<1> SUFFICES ASSUME OutcomesShow, OutcomesKeep, Funnels!Next PROVE OutcomesKeep'
  OBVIOUS
<1>0. ui = [f \in OutcomesFields |-> ui[f]] /\ AreCalls(calls)
  BY DEF OutcomesShow
<1> DEFINE Count == Funnels!Funnel(server)
<1>1. /\ Numbered(calls, ui.loads, ui.newest) /\ Full(calls)
      /\ clean => /\ PartsCatchUp(calls, ui.newest, server, Count)
                  /\ RowsCatchUp(calls, ui.newest, ui.rows, ui.funnel, server, Count)
  BY DEF OutcomesKeep
<1>2. ASSUME NEW count, Funnels!Funnel(server') = count,
             Numbered(calls', ui'.loads, ui'.newest), Full(calls'),
             clean' => /\ PartsCatchUp(calls', ui'.newest, server', count)
                       /\ RowsCatchUp(calls', ui'.newest, ui'.rows, ui'.funnel, server', count)
      PROVE  OutcomesKeep'
  <2>1. Funnels!Funnel(server)' = count
    BY <1>2 DEF Funnels!Funnel
  <2> QED
    BY <1>2, <2>1 DEF OutcomesKeep, Numbered, Full, BringsParts, PartsCatchUp, RowsCatchUp,
       Carried, LoadsAfter
<1> HIDE DEF Count
\* What leaves the loads and the rows alone.
<1>3. ASSUME ui'.loads = ui.loads, ui'.newest = ui.newest, ui'.rows = ui.rows,
             ui'.funnel = ui.funnel, server' = server, clean' => clean,
             \A c \in calls' : c \in calls \/ (c.op # "list" /\ c.at = "out"),
             \A c \in calls : \/ c \in calls'
                              \/ c.op # "list" /\ c.at # "ok"
      PROVE  OutcomesKeep'
  BY <1>1, <1>3, <1>2 DEF Numbered, Full, Carried, LoadsAfter, PartsCatchUp, RowsCatchUp, Count
<1>4. ASSUME NEW c, NEW n \in {1, 2}, Funnels!EndsAndLoads(c, n, Funnels!Parts),
             ui'.loads = ui.loads + n, ui'.newest = ui.newest, server' = server
      PROVE  OutcomesKeep'
  <2>1. calls' = (calls \ {c}) \cup NewLoads(ui.loads, n)
    BY <1>4 DEF Funnels!EndsAndLoads, NewLoads
  <2>2. n \in Nat \ {0}
    BY <1>4
  <2>3. Numbered(calls, ui.loads, ui.newest) /\ Full(calls)
    BY <1>1
  <2>4. /\ Numbered(calls', ui.loads + n, ui.newest) /\ Full(calls')
        /\ PartsCatchUp(calls', ui.newest, server, Count) /\ LoadsAfter(calls', ui.newest)
    <3>1. PICK T : T = calls'
      OBVIOUS
    <3>2. PICK S, loads, newest : S = calls /\ loads = ui.loads /\ newest = ui.newest
      OBVIOUS
    <3>3. Numbered(S, loads, newest) /\ Full(S)
      BY <2>3, <3>2
    <3>0. T = LoadingAgain(S, c, loads, n)
      BY <2>1, <3>1, <3>2 DEF LoadingAgain
    <3>4. LoadsAfter(T, newest)
      BY ONLY <2>2, <3>3, <3>0, LoadsAgain
    <3>5. Numbered(T, loads + n, newest) /\ Full(T)
      BY ONLY <2>2, <3>3, <3>0, LoadsAgain
    <3>6. \A doc, count : PartsCatchUp(T, newest, doc, count)
      BY ONLY <2>2, <3>3, <3>0, LoadsAgain, Zenon
    <3> QED
      BY <3>1, <3>2, <3>4, <3>5, <3>6
  <2>5. RowsCatchUp(calls', ui.newest, ui'.rows, ui'.funnel, server, Count)
    BY <2>4 DEF RowsCatchUp
  <2> QED
    BY <1>2, <1>4, <2>4, <2>5 DEF Count
<1>5. CASE \/ Funnels!ToggleQuick \/ Funnels!OpenBulk \/ Funnels!Preview
           \/ Funnels!BackToText \/ Funnels!CloseBulk \/ Funnels!CancelWarning
  BY <1>5, <1>0, <1>3 DEF Funnels!ToggleQuick, Funnels!OpenBulk, Funnels!Preview,
     Funnels!BackToText, Funnels!CloseBulk, Funnels!Edits, Funnels!CancelWarning, OutcomesFields
<1>6. CASE \/ Funnels!QuickAdd \/ Funnels!BulkAdd \/ Funnels!Confirm
           \/ \E i \in Item, s \in Funnels!Statuses : Funnels!Change(i, s)
  <2>1. PICK item, op, value, prev :
          op # "list" /\ Funnels!Start(0, item, op, value, prev)
    BY <1>6 DEF Funnels!QuickAdd, Funnels!BulkAdd, Funnels!Confirm, Funnels!Change
  <2>2. /\ \/ ui' = [ui EXCEPT !.quickAdding = TRUE]
           \/ ui' = [ui EXCEPT !.adding = TRUE]
           \/ ui' = ui
        /\ server' = server /\ (clean' => clean)
    <3>1. CASE Funnels!QuickAdd \/ Funnels!BulkAdd
      BY <3>1 DEF Funnels!QuickAdd, Funnels!BulkAdd
    <3>2. CASE Funnels!Confirm \/ \E i \in Item, s \in Funnels!Statuses : Funnels!Change(i, s)
      BY <3>2, Zenon DEF Funnels!Confirm, Funnels!Change
    <3> QED
      BY <1>6, <3>1, <3>2
  <2>3. /\ ui'.loads = ui.loads /\ ui'.newest = ui.newest
        /\ ui'.rows = ui.rows /\ ui'.funnel = ui.funnel
    BY <1>0, <2>2 DEF OutcomesFields
  <2>4. calls' = calls \cup {Call(made, 0, item, op, value, prev)}
    BY <2>1 DEF Funnels!Start, Funnels!Call, Call
  <2>5. PICK n : calls' = calls \cup {n} /\ n.at = "out" /\ n.op = op
    BY <2>4, OneOut
  <2> QED
    BY <1>3, <2>1, <2>2, <2>3, <2>5
<1>7. ASSUME NEW c \in calls,
             Funnels!Warned(c) \/ Funnels!AddFails(c) \/ (Funnels!ChangeFails(c) /\ c.op = "put")
      PROVE  OutcomesKeep'
  BY <1>7, <1>0, <1>3 DEF Funnels!Warned, Funnels!AddFails, Funnels!ChangeFails, Funnels!Ends,
     OutcomesShow, OutcomesFields
<1>8. ASSUME NEW c \in calls,
             \/ Funnels!Changed(c) \/ Funnels!Added(c)
             \/ (Funnels!ChangeFails(c) /\ c.op # "put")
      PROVE  OutcomesKeep'
  <2>1. PICK n \in {1, 2} :
          Funnels!EndsAndLoads(c, n, Funnels!Parts) /\ ui'.loads = ui.loads + n
          /\ ui'.newest = ui.newest /\ server' = server
    <3>1. CASE Funnels!Changed(c)
      BY <1>0, <3>1 DEF Funnels!Changed, OutcomesFields
    <3>2. CASE Funnels!Added(c)
      BY <1>0, <3>2 DEF Funnels!Added, OutcomesFields
    <3>3. CASE Funnels!ChangeFails(c) /\ c.op # "put"
      BY <1>0, <3>3, Zenon DEF Funnels!ChangeFails, OutcomesFields
    <3> QED
      BY <1>8, <3>1, <3>2, <3>3
  <2> QED
    BY <1>4, <2>1
<1>9. ASSUME NEW c \in calls, Funnels!Arrives(c)
      PROVE  OutcomesKeep'
  <2>1. /\ calls' = calls \ {c} /\ server' = server /\ c.op = "list" /\ c.at = "ok"
        /\ clean' => clean /\ c.id > ui.newest
    BY <1>9, Zenon DEF Funnels!Arrives, Funnels!Loaded, Funnels!Ends
  <2>2. /\ ui'.loads = ui.loads /\ ui'.newest = c.id
        /\ ui'.rows = c.answer["rows"] /\ ui'.funnel = c.answer["funnel"]
    BY <1>0, <1>9 DEF Funnels!Arrives, Funnels!Loaded, OutcomesFields
  <2>3. Numbered(calls', ui.loads, c.id) /\ Full(calls')
    BY <1>1, <2>1 DEF Numbered, Full
  <2>4. BringsParts(c) /\ c.id \in Nat /\ ui.newest \in Nat
    BY <1>1, <2>1 DEF Full, Numbered
  <2>5. Carried(calls) => Carried(calls')
    BY <2>1 DEF Carried
  <2>6. \A k \in Nat : k >= c.id => (LoadsAfter(calls, k) => LoadsAfter(calls', k))
    BY <1>1, <2>1, <2>4 DEF LoadsAfter, Numbered
  <2>7. clean' => PartsCatchUp(calls', c.id, server, Count)
    BY <1>1, <2>1, <2>4, <2>5, <2>6 DEF Numbered, PartsCatchUp
  <2>8. clean' => RowsCatchUp(calls', c.id, c.answer["rows"], c.answer["funnel"], server, Count)
    BY <1>1, <2>1, <2>4, <2>5, <2>6 DEF PartsCatchUp, BringsParts, RowsCatchUp
  <2> QED
    BY <1>2, <2>1, <2>2, <2>3, <2>7, <2>8 DEF Count
<1>10. ASSUME NEW c \in calls, Funnels!LoadFails(c)
       PROVE  OutcomesKeep'
  BY <1>10, <1>1, <1>2 DEF Funnels!LoadFails, Funnels!Ends, Numbered, Full
\* A call that goes on.
<1>11. ASSUME NEW c \in calls, NEW d, calls' = (calls \ {c}) \cup {d}, d.op = c.op, d.id = c.id,
              c.at # "ok", ui' = ui, clean' = clean, NEW count, Funnels!Funnel(server') = count,
              d.op = "list" /\ d.at \in {"out", "ok"} => BringsParts(d),
              \/ d.op \in {"put", "force", "quick", "bulk"} /\ d.at = "ok"
              \/ /\ server' = server /\ count = Count
                 /\ d.op = "list" =>
                      \/ d.at = "no"
                      \/ /\ c.at = "out"
                         /\ d.answer["rows"] \in {c.answer["rows"], server}
                         /\ d.answer["funnel"] \in {c.answer["funnel"], Count}
       PROVE  OutcomesKeep'
  BY <1>1, <1>11, LoadsGoOn, <1>2 DEF Numbered, Full
<1>12. ASSUME NEW c \in calls, NEW x, NEW y,
              \/ Funnels!Replace(c, Answering(c, x, y))
              \/ Funnels!Replace(c, Filling(c, x, y))
              \/ Funnels!Replace(c, Reading(c, x)) /\ y = c.answer
       PROVE  \E d : /\ calls' = (calls \ {c}) \cup {d} /\ d.op = c.op /\ d.id = c.id
                     /\ d.at = x /\ d.answer = y
  <2>1. PICK d : /\ Funnels!Replace(c, d)
                 /\ \/ d = Answering(c, x, y)
                    \/ d = Filling(c, x, y)
                    \/ d = Reading(c, x) /\ y = c.answer
    BY <1>12
  <2>2. d.op = c.op /\ d.id = c.id /\ d.at = x /\ d.answer = y
    BY <1>0, <2>1, Zenon DEF AreCalls, IsCall, CallFields, Answering, Filling, Reading
  <2> QED
    BY <2>1, <2>2 DEF Funnels!Replace
<1>13. ASSUME NEW c \in calls, Funnels!Serve(c), Funnels!ServeLoad(c)
       PROVE  OutcomesKeep'
  <2>0. ui' = ui /\ clean' = clean /\ c.at = "out" /\ server' = server /\ c.op = "list"
    BY <1>13 DEF Funnels!Serve, Funnels!ServeLoad, Funnels!ReadPart
  <2>1. PICK part, what : /\ \/ part = "rows" /\ what = server
                             \/ part = "funnel" /\ what = Count
                          /\ Funnels!ReadPart(c, part, what)
    BY <1>13 DEF Funnels!ServeLoad, Count
  <2>2. PICK got : got = [c.answer EXCEPT ![part] = what]
    BY Zenon
  <2>3. BringsParts(c)
    BY <1>1, <2>0 DEF Full
  <2>4. /\ got = [p \in Funnels!Parts |-> got[p]] /\ DOMAIN got = Funnels!Parts
        /\ \A p \in Funnels!Parts : got[p] = IF p = part THEN what ELSE c.answer[p]
    BY <2>1, <2>2, <2>3, Zenon DEF BringsParts, Funnels!Parts
  <2>5. PICK x : /\ x = IF \A p \in DOMAIN got : got[p] # None THEN "ok" ELSE "out"
                 /\ Funnels!Replace(c, Filling(c, x, got))
    BY <2>1, <2>2, Zenon DEF Funnels!ReadPart, Filling
  <2>6. PICK d : /\ calls' = (calls \ {c}) \cup {d} /\ d.op = c.op /\ d.id = c.id
                 /\ d.at = x /\ d.answer = got
    BY <1>12, <2>5
  <2>7. BringsParts(d)
    BY <2>4, <2>5, <2>6 DEF BringsParts, Funnels!Parts
  <2>8. /\ d.answer["rows"] \in {c.answer["rows"], server}
        /\ d.answer["funnel"] \in {c.answer["funnel"], Count}
    BY <2>1, <2>4, <2>6 DEF Funnels!Parts
  <2>9. Funnels!Funnel(server') = Count
    BY <2>0 DEF Count
  <2> QED
    BY <1>11, <2>0, <2>6, <2>7, <2>8, <2>9
<1>14. ASSUME NEW c \in calls, Funnels!Serve(c), Funnels!ReadStatus(c)
       PROVE  OutcomesKeep'
  <2>0. ui' = ui /\ clean' = clean /\ c.at = "out" /\ server' = server /\ c.op # "list"
    BY <1>14 DEF Funnels!Serve, Funnels!ReadStatus
  <2>1. \E x : \/ Funnels!Replace(c, Answering(c, x, server[c.item]))
               \/ Funnels!Replace(c, Reading(c, x))
    BY <1>14, Zenon DEF Funnels!ReadStatus, Answering, Reading
  <2>2. PICK d : calls' = (calls \ {c}) \cup {d} /\ d.op = c.op /\ d.id = c.id
    BY <1>12, <2>1
  <2>3. Funnels!Funnel(server') = Count
    BY <2>0 DEF Count
  <2> QED
    BY <1>11, <2>0, <2>2, <2>3
<1>15. ASSUME NEW c \in calls, (Funnels!Serve(c) /\ Funnels!Insert(c)) \/ Funnels!WriteStatus(c)
       PROVE  OutcomesKeep'
  <2>0. ui' = ui /\ clean' = clean /\ c.at # "ok" /\ c.op \in {"put", "force", "quick", "bulk"}
    BY <1>15 DEF Funnels!Serve, Funnels!Insert, Funnels!WriteStatus, OutcomesShow, IsChange
  <2>1. Funnels!Replace(c, Answering(c, "ok", None))
    BY <1>15 DEF Funnels!Insert, Funnels!WriteStatus, Funnels!Answered, Answering
  <2>2. PICK d : calls' = (calls \ {c}) \cup {d} /\ d.op = c.op /\ d.id = c.id /\ d.at = "ok"
    BY <1>12, <2>1
  <2>3. PICK count : Funnels!Funnel(server') = count
    OBVIOUS
  <2> QED
    BY <1>11, <2>0, <2>2, <2>3
<1>16. ASSUME NEW c \in calls, Funnels!Refuse(c)
       PROVE  OutcomesKeep'
  <2>0. ui' = ui /\ clean' = clean /\ server' = server /\ c.at # "ok"
    BY <1>16 DEF Funnels!Refuse
  <2>1. Funnels!Replace(c, Answering(c, "no", None))
    BY <1>16 DEF Funnels!Refuse, Funnels!Refused, Funnels!Fault, Answering
  <2>2. PICK d : calls' = (calls \ {c}) \cup {d} /\ d.op = c.op /\ d.id = c.id /\ d.at = "no"
    BY <1>12, <2>1
  <2>3. Funnels!Funnel(server') = Count
    BY <2>0 DEF Count
  <2> QED
    BY <1>11, <2>0, <2>2, <2>3
<1>17. CASE Funnels!User
  BY <1>5, <1>6, <1>17 DEF Funnels!User
<1>18. ASSUME NEW c \in calls, Funnels!Serve(c)
       PROVE  OutcomesKeep'
  BY <1>13, <1>14, <1>15, <1>18 DEF Funnels!Serve
<1> QED
  BY <1>7, <1>8, <1>9, <1>10, <1>15, <1>16, <1>17, <1>18 DEF Funnels!Next

-----------------------------------------------------------------------------
(* The project boards catch up                                             *)

LEMMA FetchesUpCalled ==
  ASSUME NEW S, NEW doc, NEW shown, NEW failed, FetchesUp(S, doc, shown, failed),
         NEW n, n.at = "out"
  PROVE  FetchesUp(S \cup {n}, doc, shown, failed)
  BY DEF FetchesUp, Stored

LEMMA FetchesUpAnswered ==
  ASSUME NEW S, NEW doc, NEW shown, NEW failed, FetchesUp(S, doc, shown, failed),
         NEW c \in S, c.at # "ok", NEW d, d.op = c.op, d.value = c.value, d.step = c.step, NEW doc2,
         \/ d.at # "ok" /\ doc2 = doc
         \/ d.at = "ok" /\ Counting(c) /\ d.answer = doc /\ doc2 = doc
         \/ ~Counting(c) /\ doc2 = doc
         \/ d.at = "ok" /\ c.op \in Projects!Moves /\ c.step = 1
  PROVE  FetchesUp((S \ {c}) \cup {d}, doc2, shown, failed)
<1> DEFINE T == (S \ {c}) \cup {d}
<1>1. Stored(S) => Stored(T)
  BY DEF Stored
<1>2. (\E e \in S : Counting(e)) => \E e \in T : Counting(e)
  BY DEF Counting
<1>3. CASE d.at = "ok" /\ c.op \in Projects!Moves /\ c.step = 1
  BY <1>3 DEF Stored, FetchesUp
<1>4. CASE doc2 = doc /\ (Counting(d) /\ d.at = "ok" => d.answer = doc)
  BY <1>1, <1>2, <1>4 DEF FetchesUp
<1> QED
  BY <1>3, <1>4 DEF Counting

LEMMA FetchesUpEnded ==
  ASSUME NEW S, NEW doc, NEW shown, NEW failed, FetchesUp(S, doc, shown, failed),
         NEW c \in S, NEW shown2, NEW failed2,
         \/ Counting(c) /\ c.at = "ok" /\ shown2 = c.answer
         \/ Counting(c) /\ failed2
         \/ ~Counting(c) /\ ~(c.op \in Projects!Moves /\ c.step = 1 /\ c.at = "ok")
            /\ shown2 = shown /\ failed2 = failed
  PROVE  FetchesUp(S \ {c}, doc, shown2, failed2)
  BY DEF Projects!Moves, Stored, Counting, FetchesUp

\* The list is fetched again.
LEMMA FetchesUpAgain ==
  ASSUME NEW S, AreCalls(S), NEW T, T = Projects!Refetching(S), NEW doc, NEW shown, NEW failed,
         ListsAreFull(S, shown)
  PROVE  /\ FetchesUp(T, doc, shown, failed) /\ ListsAreFull(T, shown)
         /\ \A e \in T : e \in S \/ e.op = "list"
         /\ \A e \in S : e \in T \/ e.op = "list"
<1>1. T = Lookups!Refetching(S)
  BY Zenon DEF Projects!Refetching, Projects!Overtaken, Projects!Fetch, Projects!Call,
     Lookups!Refetching, Lookups!Overtaken, Lookups!Fetch, Lookups!Call
<1>2. (\E e \in T : Counting(e)) /\ \A e \in T : Counting(e) => e.at # "ok"
  BY <1>1, RefetchCounts
<1>3. \A e \in T : e \in S \/ e.op = "list"
  BY Refetches DEF AreCalls
<1>4. \A e \in S : e \in T \/ e.op = "list"
  BY Zenon DEF Projects!Refetching, Projects!Overtaken
<1> QED
  BY <1>2, <1>3, <1>4 DEF FetchesUp, ListsAreFull

\* The changes are the same calls.
LEMMA DrawnWellStill ==
  ASSUME NEW S, NEW T, NEW board, NEW shown, NEW doc, DrawnWell(S, board, shown, doc),
         \A c \in T : c.op \in Projects!Moves => c \in S,
         \A c \in S : c.op \in Projects!Moves => c \in T \/ ~Unsettled(c)
  PROVE  DrawnWell(T, board, shown, doc)
  BY DEF DrawnWell, Unsettled

\* The board starts anew from what was fetched.
LEMMA DrawnAnew ==
  ASSUME NEW S, NEW board, NEW shown, board = shown, NEW doc,
         \A c, d \in S : c.op \in Projects!Moves /\ d.op \in Projects!Moves => c = d
  PROVE  DrawnWell(S, board, shown, doc)
  BY DEF DrawnWell

LEMMA DrawnWhenAnswered ==
  ASSUME NEW S, NEW board, NEW shown, NEW doc, DrawnWell(S, board, shown, doc), OverItems(doc),
         NEW c \in S, c.op \in Projects!Moves => c.item \in Item, c.at # "ok",
         NEW d, d.op = c.op, d.value = c.value, d.item = c.item, d.inst = c.inst,
         d.step = c.step, NEW doc2,
         \/ d.at # "ok" /\ doc2 = doc
         \/ c.op \notin Projects!Moves /\ doc2 = doc
         \/ c.op \in Projects!Moves /\ c.step # 1 /\ doc2 = doc
         \/ c.op \in {"move", "toggle"} /\ c.step = 1 /\ doc2 = [doc EXCEPT ![c.item] = c.value]
  PROVE  DrawnWell((S \ {c}) \cup {d}, board, shown, doc2)
<1> DEFINE T == (S \ {c}) \cup {d}
<1>1. \A e, g \in T : e.op \in Projects!Moves /\ g.op \in Projects!Moves => e = g
  BY DEF DrawnWell
<1>2. ASSUME NEW e \in T, Unsettled(e)
      PROVE  \/ board[e.item] = shown[e.item]
             \/ Projects!RollsBack(e) /\ board[e.item] = e.value
  BY <1>2 DEF DrawnWell, Unsettled, Projects!RollsBack
<1>3. ASSUME NEW i \in Item
      PROVE  \/ board[i] \in {shown[i], doc2[i]}
             \/ \E e \in T : Unsettled(e) /\ e.item = i
  BY DEF DrawnWell, Unsettled, Projects!Moves, OverItems
<1> HIDE DEF T
<1>4. DrawnWell(T, board, shown, doc2)
  BY <1>1, <1>2, <1>3 DEF DrawnWell
<1> QED
  BY <1>4 DEF T
LEMMA BoardsKeepStarts == Projects!Init => BoardsKeep
<1> SUFFICES ASSUME Projects!Init PROVE BoardsKeep
  OBVIOUS
<1>1. ui.shown = None /\ ui.board = None
  BY Zenon DEF Projects!Init
<1> USE <1>1
<1>2. PICK n : n = Projects!Fetch(None)
  OBVIOUS
<1>3. Counting(n) /\ n.at = "out" /\ n.op = "list"
  BY <1>2 DEF Projects!Fetch, Projects!Call, Counting
<1> USE <1>3
<1>4. calls = {n}
  BY <1>2, Zenon DEF Projects!Init
<1> USE <1>4
<1>5. /\ FetchesUp(calls, server, ui.shown, ui.failed) /\ ListsAreFull(calls, ui.shown)
      /\ \A c \in calls : Known(c)
  BY DEF FetchesUp, ListsAreFull, Known
<1>6. "list" \notin Projects!Moves
  BY DEF Projects!Moves
<1>7. DrawnWell(calls, ui.board, ui.shown, server)
  BY <1>6, DrawnAnew
<1> QED
  BY <1>5, <1>7 DEF BoardsKeep, PortalCalls

LEMMA BoardsKeepSteps ==
  ProjectsWaits /\ BoardsKeep /\ Projects!Next /\ page' = page => BoardsKeep'
<1> SUFFICES ASSUME ProjectsWaits, BoardsKeep, Projects!Next, page' = page PROVE BoardsKeep'
  OBVIOUS
<1>0. /\ ui = [f \in BoardsFields |-> ui[f]] /\ AreCalls(calls) /\ OverItems(server)
      /\ page # "projects" => Ungated
  BY DEF ProjectsWaits, PlainInv, AreCalls, OverItems
<1>1. /\ FetchesUp(calls, server, ui.shown, ui.failed)
      /\ ListsAreFull(calls, ui.shown)
  BY DEF BoardsKeep
<1> DEFINE Portal == ~Projects!Staff
<1>2. /\ \A c \in calls : Known(c)
      /\ Projects!Staff => ui.board = ui.shown
      /\ Portal => PortalCalls(calls)
      /\ Portal /\ clean => DrawnWell(calls, ui.board, ui.shown, server)
      /\ Portal /\ clean => (ui.rows => ui.board = ui.shown)
  BY DEF BoardsKeep
<1>3. ASSUME FetchesUp(calls', server', ui'.shown, ui'.failed),
             ListsAreFull(calls', ui'.shown),
             Projects!Staff => ui'.board = ui'.shown,
             Portal => PortalCalls(calls'),
             Portal /\ clean' => DrawnWell(calls', ui'.board, ui'.shown, server'),
             Portal /\ clean' => (ui'.rows => ui'.board = ui'.shown)
      PROVE  BoardsKeep'
  <2>1. Projects!Staff' <=> Projects!Staff
    BY DEF Projects!Staff
  <2>2. \A c \in calls' : Known(c)
    <3>1. CASE Projects!User
      <4>1. \/ calls' = calls \/ calls' = Projects!Refetching(calls)
            \/ calls' = {[c EXCEPT !.inst = None] : c \in calls}
            \/ \E i, op, value, prev : Projects!Ask(i, op, value, prev) /\ op \in Projects!Moves
        BY <3>1, Zenon DEF Projects!User, Projects!Retry, Projects!ForceAdvance, Projects!CancelGate,
           Projects!SwitchView, Projects!DeleteTask, Projects!ToggleTask, Projects!DragPending,
           Projects!DropProject, Projects!DropTask, Projects!AddTask, Projects!DragTask,
           Projects!Moves
      <4>2. CASE calls' = Projects!Refetching(calls)
        BY <1>0, <1>2, <4>2, Refetches DEF AreCalls, Known
      <4>3. CASE calls' = {[c EXCEPT !.inst = None] : c \in calls}
        BY <1>0, <1>2, <4>3 DEF AreCalls, IsCall, CallFields, Known
      <4>4. ASSUME NEW i, NEW op, NEW value, NEW prev, Projects!Ask(i, op, value, prev),
                   op \in Projects!Moves
            PROVE  \A c \in calls' : Known(c)
        BY <4>4, OneOut, <1>2 DEF Projects!Ask, Projects!Start, Projects!Call, Call, Known
      <4> QED
        BY <1>2, <4>1, <4>2, <4>3, <4>4
    <3>2. CASE ~Projects!User
      BY <3>2, AnswerSteps, <1>2 DEF ProjectsWaits, Projects!Next, Known
    <3> QED
      BY <3>1, <3>2
  <2> QED
    BY <1>3, <2>1, <2>2 DEF BoardsKeep, Known, FetchesUp, Stored, Counting, ListsAreFull, OverItems, PortalCalls,
       DrawnWell, Unsettled, Projects!RollsBack
<1>4. "list" \notin Projects!Moves /\ {"move", "toggle"} \subseteq Projects!Moves
  BY DEF Projects!Moves
<1> DEFINE Keeps == /\ ui'.shown = ui.shown /\ ui'.board = ui.board /\ ui'.failed = ui.failed
                    /\ ui'.rows = ui.rows
\* A call more.
<1>5. ASSUME NEW i, NEW op, NEW value, NEW prev, Projects!Ask(i, op, value, prev)
      PROVE  \E n : /\ calls' = calls \cup {n} /\ n.item = i /\ n.op = op /\ n.value = value
                    /\ n.prev = prev /\ n.inst = 0 /\ n.step = 1 /\ n.at = "out"
  <2>1. calls' = calls \cup {Call(made, 0, i, op, value, prev)}
    BY <1>5 DEF Projects!Ask, Projects!Start, Projects!Call, Call
  <2> QED
    BY <2>1, OneOut
<1>6. CASE Projects!Retry
  <2>1. calls' = Projects!Refetching(calls) /\ UNCHANGED <<ui, server, clean>>
    BY <1>6 DEF Projects!Retry
  <2>2. PICK T : T = calls'
    OBVIOUS
  <2>3. /\ FetchesUp(T, server, ui.shown, ui.failed) /\ ListsAreFull(T, ui.shown)
        /\ \A e \in T : e \in calls \/ e.op = "list"
        /\ \A e \in calls : e \in T \/ e.op = "list"
    BY <1>0, <1>1, <2>1, <2>2, FetchesUpAgain
  <2> USE <2>3
  <2>4. Portal => PortalCalls(T)
    BY <1>2 DEF PortalCalls
  <2>5. Portal /\ clean => DrawnWell(T, ui.board, ui.shown, server)
    BY <1>2, <1>4, DrawnWellStill
  <2> QED
    BY <1>2, <1>3, <2>1, <2>2, <2>4, <2>5
\* The staff's handlers: a call more.
<1>7. CASE \/ Projects!ForceAdvance
           \/ \E i \in Item : \/ Projects!DeleteTask(i)
                              \/ \E l \in Projects!Lane : \/ Projects!DropProject(i, l)
                                                          \/ Projects!DropTask(i, l)
                                                          \/ Projects!AddTask(i, l)
  BY <1>7, <1>0, <1>5, <1>1, FetchesUpCalled, <1>2, <1>3 DEF Projects!ForceAdvance,
     Projects!DeleteTask, Projects!DropProject, Projects!DropTask, Projects!AddTask,
     Projects!Staff, Ungated, BoardsFields, ListsAreFull
<1>8. CASE Projects!CancelGate
  BY <1>8, <1>0, <1>1, <1>2, <1>3 DEF Projects!CancelGate, BoardsFields
\* The board starts anew.
<1>9. ASSUME ui'.board = ui.shown, ui'.shown = ui.shown, ui'.failed = ui.failed, server' = server,
             clean' => clean, FetchesUp(calls', server, ui.shown, ui.failed),
             \A c \in calls' : Counting(c) /\ c.at = "ok" => OverItems(c.answer),
             Portal => PortalCalls(calls'),
             Portal /\ clean => \A c, d \in calls' :
                                  c.op \in Projects!Moves /\ d.op \in Projects!Moves => c = d
      PROVE  BoardsKeep'
  BY <1>1, <1>9, DrawnAnew, <1>3 DEF ListsAreFull
<1>10. Portal /\ clean => \A c, d \in calls :
                            c.op \in Projects!Moves /\ d.op \in Projects!Moves => c = d
  BY <1>2 DEF DrawnWell
<1>11. CASE \E i \in Item : Projects!DragPending(i)
  <2>1. UNCHANGED <<calls, server, clean>>
    BY <1>11, Zenon DEF Projects!DragPending
  <2>2. ui'.board = ui.shown /\ ui'.shown = ui.shown /\ ui'.failed = ui.failed
    BY <1>0, <1>11, Zenon DEF Projects!DragPending, BoardsFields
  <2> QED
    BY <1>1, <1>2, <1>9, <1>10, <2>1, <2>2 DEF ListsAreFull
<1>12. CASE Projects!SwitchView
  <2>1. UNCHANGED <<server, clean>> /\ calls' = {[c EXCEPT !.inst = None] : c \in calls}
    BY <1>12, Zenon DEF Projects!SwitchView
  <2>2. ui'.board = ui.shown /\ ui'.shown = ui.shown /\ ui'.failed = ui.failed
    BY <1>0, <1>12, Zenon DEF Projects!SwitchView, BoardsFields
  <2> DEFINE Unmounted(c) == [c EXCEPT !.inst = None]
  <2>3. \A c \in calls : LET d == Unmounted(c)
                         IN  /\ d.op = c.op /\ d.value = c.value /\ d.item = c.item
                             /\ d.step = c.step /\ d.at = c.at /\ d.answer = c.answer
    BY <1>0 DEF AreCalls, IsCall, CallFields
  <2> USE <2>3
  <2> HIDE DEF Unmounted
  <2>4. \A d \in calls' : \E c \in calls : d = Unmounted(c)
    BY <2>1 DEF Unmounted
  <2> USE <2>4
  <2>5. \A c \in calls : Unmounted(c) \in calls'
    BY <2>1 DEF Unmounted
  <2>6. FetchesUp(calls', server, ui.shown, ui.failed)
    BY <1>1, <2>5 DEF FetchesUp, Stored, Counting
  <2>7. \A c \in calls' : Counting(c) /\ c.at = "ok" => OverItems(c.answer)
    BY <1>1 DEF ListsAreFull, Counting
  <2>8. Portal => PortalCalls(calls')
    BY <1>2 DEF PortalCalls
  <2>9. Portal /\ clean => \A c, d \in calls' :
                             c.op \in Projects!Moves /\ d.op \in Projects!Moves => c = d
    BY <1>10
  <2> QED
    BY <1>9, <2>1, <2>2, <2>6, <2>7, <2>8, <2>9
\* A partner's change: it starts when no other is under way.
<1>13. ASSUME NEW i \in Item,
              Projects!ToggleTask(i) \/ \E l \in Projects!Lane : Projects!DragTask(i, l)
       PROVE  BoardsKeep'
  <2>1. PICK op, value, prev :
          /\ Projects!Ask(i, op, value, prev)
          /\ \/ op = "toggle" /\ Projects!ToggleTask(i) /\ ui.rows
                /\ ui' = [ui EXCEPT !.pending = @ \cup {i}]
             \/ op = "move" /\ Projects!Drawn(i) # None /\ ~ui.rows
                /\ ui' = [ui EXCEPT !.board[i] = value, !.pending = @ \cup {i}]
    BY <1>13, Zenon DEF Projects!ToggleTask, Projects!DragTask
  <2>2. server' = server /\ Portal /\ page = "portal board"
    BY <1>13, Zenon DEF Projects!ToggleTask, Projects!DragTask, Projects!Staff
  <2>3. PICK n : /\ calls' = calls \cup {n} /\ n.item = i /\ n.op = op /\ n.value = value
                 /\ n.prev = prev /\ n.inst = 0 /\ n.step = 1 /\ n.at = "out"
    BY <1>5, <2>1
  <2>4. /\ ui'.shown = ui.shown /\ ui'.failed = ui.failed /\ ui'.rows = ui.rows
        /\ \/ op = "toggle" /\ ui'.board = ui.board
           \/ op = "move" /\ ui'.board = [ui.board EXCEPT ![i] = value]
    BY <1>0, <2>1, Zenon DEF BoardsFields
  <2>5. clean' => clean /\ \A c \in calls : c.op \notin Projects!Moves
    BY <2>1, <2>2, Zenon DEF Projects!Ask, Projects!Alone
  <2>6. FetchesUp(calls', server, ui.shown, ui.failed)
    BY <1>1, <2>3, FetchesUpCalled
  <2>7. ASSUME clean', op = "move"
        PROVE  OverItems(ui.board)
    <3>1. ui.board = ui.shown \/ OverItems(ui.board)
      BY <1>2, <2>2, <2>5, <2>7, Zenon DEF DrawnWell
    <3>2. ui.board # None
      BY <2>1, <2>7 DEF Projects!Drawn
    <3> QED
      BY <1>1, <3>1, <3>2 DEF ListsAreFull
  <2>8. clean' /\ op = "move" =>
          /\ OverItems(ui'.board) /\ ui'.board[i] = value
          /\ \A j \in Item : j # i => ui'.board[j] = ui.board[j]
    BY <2>4, <2>7 DEF OverItems
  <2>9. ListsAreFull(calls', ui'.shown)
    BY <1>1, <2>3, <2>4 DEF ListsAreFull
  <2>10. PortalCalls(calls')
    BY <1>2, <2>1, <2>2, <2>3, Zenon DEF PortalCalls
  <2>11. ASSUME clean'
         PROVE  DrawnWell(calls', ui'.board, ui.shown, server)
    <3> USE <2>11
    <3>1. DrawnWell(calls, ui.board, ui.shown, server)
      BY <1>2, <2>2, <2>5, Zenon
    <3>2. ui.rows => ui.board = ui.shown
      BY <1>2, <2>2, <2>5, Zenon
    <3>3. op = "toggle" => ui.board = ui.shown
      BY <2>1, <3>2
    <3>4. Unsettled(n) /\ n \in calls'
      BY <1>4, <2>1, <2>3 DEF Unsettled
    <3>5. \A c \in calls' : c.op \in Projects!Moves => c = n
      BY <2>3, <2>5
    <3>6. op = "move" => Projects!RollsBack(n)
      BY <2>3, NoneIsNothing DEF Projects!RollsBack
    <3>7. \A j \in Item : \/ ui'.board[j] \in {ui.shown[j], server[j]}
                          \/ \E c \in calls' : Unsettled(c) /\ c.item = j
      BY <2>5, <3>1, <2>4, <2>8, <2>3, <3>4 DEF DrawnWell, Unsettled
    <3>8. \/ ui'.board[n.item] = ui.shown[n.item]
          \/ Projects!RollsBack(n) /\ ui'.board[n.item] = n.value
      BY <2>3, <2>4, <2>8, <3>3, <3>6
    <3>9. ui'.board = ui.shown \/ OverItems(ui'.board)
      BY <2>4, <2>8, <3>3
    <3> QED
      BY <3>5, <3>7, <3>8, <3>9 DEF DrawnWell, Unsettled
  <2>12. clean' => (ui'.rows => ui'.board = ui'.shown)
    <3>1. ASSUME clean', ui'.rows
          PROVE  ui'.board = ui'.shown
      <4>1. clean /\ Portal /\ ui.rows
        BY <2>2, <2>4, <2>5, <3>1, Zenon
      <4>2. op = "toggle"
        BY <2>1, <4>1
      <4> QED
        BY <1>2, <2>4, <4>1, <4>2
    <3> QED
      BY <3>1
  <2> QED
    BY <1>3, <2>2, <2>4, <2>6, <2>9, <2>10, <2>11, <2>12, Zenon
<1>14. CASE Projects!User
  BY <1>6, <1>7, <1>8, <1>11, <1>12, <1>13, <1>14 DEF Projects!User
\* A call that goes on.
<1>15. ASSUME NEW c \in calls, NEW x, NEW y,
              \/ Projects!Replace(c, Answering(c, x, y))
              \/ Projects!Replace(c, Reading(c, x)) /\ y = c.answer
       PROVE  \E d : /\ calls' = (calls \ {c}) \cup {d}
                     /\ d.op = c.op /\ d.value = c.value /\ d.item = c.item /\ d.inst = c.inst
                     /\ d.step = c.step /\ d.at = x /\ d.answer = y
  <2>1. PICK d : /\ Projects!Replace(c, d)
                 /\ d = Answering(c, x, y) \/ (d = Reading(c, x) /\ y = c.answer)
    BY <1>15
  <2>2. /\ d.op = c.op /\ d.value = c.value /\ d.item = c.item /\ d.inst = c.inst
        /\ d.step = c.step /\ d.at = x /\ d.answer = y
    BY <1>0, <2>1, Zenon DEF AreCalls, IsCall, CallFields, Answering, Reading
  <2> QED
    BY <2>1, <2>2 DEF Projects!Replace
<1>16. ASSUME NEW c \in calls, NEW d, calls' = (calls \ {c}) \cup {d},
              d.op = c.op, d.value = c.value, d.item = c.item, d.inst = c.inst, d.step = c.step,
              c.at # "ok", ui' = ui, clean' = clean,
              Counting(d) /\ d.at = "ok" => d.answer = server,
              \/ d.at # "ok" /\ server' = server
              \/ c.op \notin Projects!Moves /\ server' = server
              \/ c.op \in Projects!Moves /\ c.step # 1 /\ server' = server
              \/ /\ d.at = "ok" /\ c.op \in Projects!Moves /\ c.step = 1
                 /\ c.op \in {"move", "toggle"} => server' = [server EXCEPT ![c.item] = c.value]
       PROVE  BoardsKeep'
  BY <1>4, <1>16, <1>1, FetchesUpAnswered, <1>0, <1>2, DrawnWhenAnswered, <1>3 DEF Counting,
     ListsAreFull, PortalCalls
<1>17. ASSUME NEW c \in calls, Projects!Serve(c)
       PROVE  BoardsKeep'
  <2>0. ui' = ui /\ clean' = clean /\ c.at = "out"
    BY <1>17 DEF Projects!Serve
  <2>1. CASE Projects!Listing(c, server)
    <3>1. /\ c.op = "list" /\ server' = server
          /\ Projects!Replace(c, Answering(c, "ok", IF Projects!Latest(c) THEN server ELSE None))
      BY <2>1 DEF Projects!Listing, Projects!Answered, Answering
    <3>2. PICK y : y = IF Projects!Latest(c) THEN server ELSE None
      OBVIOUS
    <3>3. PICK d : /\ calls' = (calls \ {c}) \cup {d}
                   /\ d.op = c.op /\ d.value = c.value /\ d.item = c.item /\ d.inst = c.inst
                   /\ d.step = c.step /\ d.at = "ok" /\ d.answer = y
      BY <1>15, <3>1, <3>2
    <3>4. Counting(d) => d.answer = server
      BY <3>2, <3>3 DEF Counting, Projects!Latest
    <3> QED
      BY <1>4, <1>16, <2>0, <3>1, <3>3, <3>4
  <2>2. CASE c.op # "list" /\ c.step = 2 /\ Projects!Answered(c, None) /\ UNCHANGED server
    <3> USE <2>2
    <3>1. Projects!Replace(c, Answering(c, "ok", None))
      BY DEF Projects!Answered, Answering
    <3>2. PICK d : /\ calls' = (calls \ {c}) \cup {d}
                   /\ d.op = c.op /\ d.value = c.value /\ d.item = c.item /\ d.inst = c.inst
                   /\ d.step = c.step /\ d.at = "ok"
      BY <1>15, <3>1
    <3>3. ~Counting(d)
      BY <3>2 DEF Counting
    <3> QED
      BY <1>16, <2>0, <3>2, <3>3
  <2>3. CASE c.op # "list" /\ Projects!Gate(c)
    <3>1. PICK y : Projects!Replace(c, Answering(c, "warn", y)) /\ server' = server
      BY <2>3, Zenon DEF Projects!Gate, Answering
    <3>2. PICK d : /\ calls' = (calls \ {c}) \cup {d}
                   /\ d.op = c.op /\ d.value = c.value /\ d.item = c.item /\ d.inst = c.inst
                   /\ d.step = c.step /\ d.at = "warn"
      BY <1>15, <3>1
    <3> QED
      BY <1>16, <2>0, <3>1, <3>2
  <2>4. CASE /\ c.op # "list" /\ c.step = 1
             /\ Projects!Answered(c, Projects!Next1(c))
             /\ server' = [server EXCEPT ![c.item] = Projects!Next1(c)]
    <3> USE <2>4
    <3>1. Projects!Replace(c, Answering(c, "ok", Projects!Next1(c)))
      BY DEF Projects!Answered, Answering
    <3>2. PICK d : /\ calls' = (calls \ {c}) \cup {d}
                   /\ d.op = c.op /\ d.value = c.value /\ d.item = c.item /\ d.inst = c.inst
                   /\ d.step = c.step /\ d.at = "ok"
      BY <1>15, <3>1
    <3>3. ~Counting(d)
      BY <3>2 DEF Counting
    <3>4. c.op \in {"move", "toggle"} => Projects!Next1(c) = c.value
      BY DEF Projects!Next1
    <3>5. c.op \in Projects!Moves
      BY <1>2 DEF Known
    <3> QED
      BY <1>16, <2>0, <3>2, <3>3, <3>4, <3>5, Zenon
  <2> QED
    BY <1>17, <2>1, <2>2, <2>3, <2>4 DEF Projects!Serve
<1>18. ASSUME NEW c \in calls, Projects!Refuse(c)
       PROVE  BoardsKeep'
  <2>0. ui' = ui /\ clean' = clean /\ server' = server /\ c.at = "out"
    BY <1>18 DEF Projects!Refuse
  <2>1. Projects!Replace(c, Answering(c, "no", None))
    BY <1>18 DEF Projects!Refuse, Projects!Refused, Projects!Fault, Answering
  <2>2. PICK d : /\ calls' = (calls \ {c}) \cup {d}
                 /\ d.op = c.op /\ d.value = c.value /\ d.item = c.item /\ d.inst = c.inst
                 /\ d.step = c.step /\ d.at = "no"
    BY <1>15, <2>1
  <2> QED
    BY <1>16, <2>0, <2>2
<1>19. ASSUME NEW c \in calls, Projects!PortalListed(c)
       PROVE  BoardsKeep'
  BY <1>19, <1>15, <1>16 DEF Projects!PortalListed, Reading
\* A fetch ends: a board that is filled starts anew.
<1>20. ASSUME NEW c \in calls, Projects!Arrives(c) \/ Projects!ListFails(c)
       PROVE  BoardsKeep'
  <2>1. UNCHANGED <<server, clean>> /\ c.op = "list" /\ calls' = calls \ {c}
    BY <1>20 DEF Projects!Arrives, Projects!ListArrives, Projects!ListFails, Projects!Ends
  <2>2. /\ ui'.rows = ui.rows
        /\ \/ /\ Counting(c) /\ c.at = "ok" /\ ui'.shown = c.answer
              /\ \/ ui'.board = c.answer
                 \/ ui'.shown = ui.shown /\ ui'.board = ui.board
           \/ Counting(c) /\ ui'.failed /\ ui'.shown = ui.shown /\ ui'.board = ui.board
           \/ /\ ~Counting(c) /\ ui'.shown = ui.shown /\ ui'.board = ui.board
              /\ ui'.failed = ui.failed
    <3>1. CASE Projects!Arrives(c)
      <4>1. PICK u : /\ u = Projects!Fills(c.answer) /\ c.at = "ok"
                     /\ ui' = IF Counting(c) THEN [u EXCEPT !.failed = FALSE] ELSE ui
        BY <3>1, Zenon DEF Projects!Arrives, Projects!ListArrives, Projects!Latest, Counting
      <4>2. /\ u = [f \in BoardsFields |-> u[f]] /\ u.shown = c.answer /\ u.rows = ui.rows
            /\ u.board = c.answer \/ (u.shown = ui.shown /\ u.board = ui.board)
        BY <1>0, <4>1, Zenon DEF Projects!Fills, BoardsFields
      <4> QED
        BY <4>1, <4>2, Zenon DEF BoardsFields
    <3>2. CASE Projects!ListFails(c)
      BY <1>0, <3>2, Zenon DEF Projects!ListFails, Projects!Latest, Counting, BoardsFields
    <3> QED
      BY <1>20, <3>1, <3>2
  <2> USE <2>2
  <2>3. FetchesUp(calls', server, ui'.shown, ui'.failed)
    BY <1>4, <2>1, <1>1, FetchesUpEnded
  <2>4. ListsAreFull(calls', ui'.shown)
    BY <1>1, <2>1 DEF ListsAreFull
  <2>5. Portal => PortalCalls(calls')
    BY <1>2, <2>1 DEF PortalCalls
  <2>6. Portal /\ clean => DrawnWell(calls', ui'.board, ui'.shown, server)
    BY <1>10, <2>1, DrawnAnew, <1>2, <1>4, DrawnWellStill
  <2>7. /\ Projects!Staff => ui'.board = ui'.shown
        /\ Portal /\ clean => (ui'.rows => ui'.board = ui'.shown)
    BY <1>2
  <2> QED
    BY <1>3, <2>1, <2>3, <2>4, <2>5, <2>6, <2>7
<1>21. ASSUME NEW c \in calls, Projects!Warned(c) \/ Projects!StaffFails(c)
       PROVE  BoardsKeep'
  <2>1. /\ server' = server /\ calls' = calls \ {c} /\ ~Counting(c) /\ c.at # "ok"
        /\ Projects!Staff
    BY <1>0, <1>4, <1>21 DEF Projects!Warned, Projects!StaffFails, Projects!Ends, Projects!Staff,
       Ungated, Counting
  <2> USE <2>1
  <2>2. Keeps
    <3>1. CASE Projects!Warned(c)
      BY <1>0, <3>1 DEF Projects!Warned, BoardsFields
    <3>2. CASE Projects!StaffFails(c)
      BY <1>0, <3>2 DEF Projects!StaffFails, Projects!Done, BoardsFields
    <3> QED
      BY <1>21, <3>1, <3>2
  <2>3. FetchesUp(calls', server, ui.shown, ui.failed)
    BY <1>1, FetchesUpEnded
  <2>4. ListsAreFull(calls', ui.shown)
    BY <1>1 DEF ListsAreFull
  <2> QED
    BY <1>2, <1>3, <2>2, <2>3, <2>4
<1>22. ASSUME NEW c \in calls, Projects!StaffDone(c)
       PROVE  BoardsKeep'
  BY <1>22, <1>0, <1>1, FetchesUpAgain, <1>2, <1>3 DEF Projects!StaffDone,
     Projects!EndsAndFetches, Projects!Done, BoardsFields, AreCalls, ListsAreFull
<1>23. ASSUME NEW c \in calls, Projects!PortalSaved(c)
       PROVE  BoardsKeep'
  <2>1. PICK d : d = [c EXCEPT !.step = 2, !.at = "waits"]
    OBVIOUS
  <2>2. /\ UNCHANGED <<server, ui, clean>> /\ Portal /\ c.op \in Projects!Moves /\ c.at = "ok"
        /\ calls' = Projects!Refetching((calls \ {c}) \cup {d})
    BY <1>23, <2>1 DEF Projects!PortalSaved
  <2> USE <2>2
  <2>3. IsCall(d) /\ d.op = c.op /\ d.item = c.item /\ d.step = 2 /\ d.at = "waits"
    BY <1>0, <2>1, Zenon DEF AreCalls, IsCall, CallFields
  <2>4. PICK S : S = (calls \ {c}) \cup {d}
    BY Zenon
  <2> USE <2>4
  <2>5. AreCalls(S) /\ ListsAreFull(S, ui.shown)
    BY <1>0, <1>1, <2>3 DEF AreCalls, ListsAreFull
  <2>6. PICK T : T = calls'
    OBVIOUS
  <2>7. /\ FetchesUp(T, server, ui.shown, ui.failed) /\ ListsAreFull(T, ui.shown)
        /\ \A e \in T : e \in S \/ e.op = "list"
        /\ \A e \in S : e \in T \/ e.op = "list"
    BY <2>5, <2>6, FetchesUpAgain
  <2> USE <2>7
  <2>8. PortalCalls(T)
    BY <1>2, <2>3 DEF PortalCalls
  <2>9. ASSUME clean
        PROVE  DrawnWell(T, ui.board, ui.shown, server)
    <3>1. DrawnWell(calls, ui.board, ui.shown, server)
      BY <1>2, <2>9
    <3>2. DrawnWell(S, ui.board, ui.shown, server)
      BY <2>3, <3>1 DEF DrawnWell, Unsettled
    <3> QED
      BY <1>4, <3>2, DrawnWellStill
  <2> QED
    BY <1>2, <1>3, <2>6, <2>8, <2>9
<1>24. ASSUME NEW c \in calls, Projects!PortalRefreshed(c) \/ Projects!PortalFails(c)
       PROVE  BoardsKeep'
  <2>1. /\ server' = server /\ calls' = calls \ {c} /\ Portal /\ c.op \in Projects!Moves
        /\ ~(c.step = 1 /\ c.at = "ok") /\ (clean' => clean)
    <3>1. CASE Projects!PortalRefreshed(c)
      BY <3>1 DEF Projects!PortalRefreshed, Projects!Ends
    <3>2. CASE Projects!PortalFails(c)
      BY <3>2, Zenon DEF Projects!PortalFails, Projects!Ends
    <3> QED
      BY <1>24, <3>1, <3>2
  <2> USE <2>1
  <2>2. /\ ui'.shown = ui.shown /\ ui'.failed = ui.failed /\ ui'.rows = ui.rows
        /\ \/ ui'.board = ui.board /\ (Unsettled(c) => ~Projects!RollsBack(c))
           \/ ui'.board = c.prev /\ (clean' => c.prev = ui.shown) /\ Projects!RollsBack(c)
    <3>1. CASE Projects!PortalRefreshed(c)
      BY <1>0, <3>1 DEF Projects!PortalRefreshed, BoardsFields, Unsettled
    <3>2. CASE Projects!PortalFails(c)
      BY <1>0, <3>2, Zenon DEF Projects!PortalFails, BoardsFields
    <3> QED
      BY <1>24, <3>1, <3>2
  <2> USE <2>2
  <2>3. FetchesUp(calls', server, ui.shown, ui.failed)
    BY <1>1, <1>4, FetchesUpEnded DEF Counting
  <2>4. ListsAreFull(calls', ui'.shown)
    BY <1>1 DEF ListsAreFull
  <2>5. PortalCalls(calls')
    BY <1>2 DEF PortalCalls
  <2>6. ASSUME clean'
        PROVE  DrawnWell(calls', ui'.board, ui.shown, server)
    BY <1>10, <2>6, DrawnAnew, <1>2 DEF DrawnWell
  <2>7. clean' => (ui'.rows => ui'.board = ui'.shown)
    BY <1>2
  <2> QED
    BY <1>3, <2>3, <2>4, <2>5, <2>6, <2>7
<1> QED
  BY <1>14, <1>17, <1>18, <1>19, <1>20, <1>21, <1>22, <1>23, <1>24 DEF Projects!Next

-----------------------------------------------------------------------------
(* All pages catch up: the day                                             *)

LEMMA DayCatchesUpStarts == Calendar!Init => DayCatchesUp
  BY DEF Calendar!Init, DayCatchesUp

\* A move that is under way stays until it has fetched the list again; what the
\* list is answered then is what the backend has, until the next move.
LEMMA DayCatchesUpSteps == DayCatchesUp /\ Calendar!Next => DayCatchesUp'
<1> SUFFICES ASSUME DayCatchesUp, Calendar!Next PROVE DayCatchesUp'
  OBVIOUS
<1> DEFINE Dragging(S) == \E c \in S : c.op = "relocate"
           Agrees(S, items, list) ==
             /\ \A c \in S : c.op = "list" /\ c.at = "ok" => c.answer = list
             /\ items = list \/ \E c \in S : c.op = "list"
           Formed(u, S) == u = [items |-> u.items, dragged |-> u.dragged] /\ \A c \in S : IsCall(c)
<1>1. Formed(ui, calls) /\ (Dragging(calls) \/ Agrees(calls, ui.items, server))
  BY DEF DayCatchesUp
<1>2. SUFFICES Formed(ui', calls') /\ (Dragging(calls') \/ Agrees(calls', ui'.items, server'))
  BY DEF DayCatchesUp
<1>3. \A i, v : IsCall(Calendar!Call(made, 0, i, "relocate", v, None))
  BY DEF IsCall, CallFields, Calendar!Call
<1>4. /\ IsCall(Calendar!Fetch(None)) /\ Calendar!Fetch(None).op = "list"
      /\ Calendar!Fetch(None).at = "out"
  BY DEF IsCall, CallFields, Calendar!Call, Calendar!Fetch
<1>5. ASSUME NEW c \in calls, NEW at, NEW answer,
             calls' = (calls \ {c}) \cup {[c EXCEPT !.at = at, !.answer = answer]}
      PROVE  /\ calls \ {c} \subseteq calls' /\ \E d \in calls' : d.op = c.op
             /\ \A d \in calls' : IsCall(d)
             /\ \A d \in calls' : d \in calls \/ (d.op = c.op /\ d.answer = answer)
  <2>1. PICK d : d = [c EXCEPT !.at = at, !.answer = answer]
    OBVIOUS
  <2>2. IsCall(c)
    BY <1>1
  <2>3. IsCall(d) /\ d.op = c.op /\ d.answer = answer
    BY <2>1, <2>2, Zenon DEF IsCall, CallFields
  <2>4. \A e \in calls : IsCall(e)
    BY <1>1
  <2> QED
    BY <1>5, <2>1, <2>3, <2>4, Zenon
<1>6. ASSUME Calendar!DragCancel \/ \E i \in Calendar!Day : Calendar!DragStart(i)
      PROVE  Formed(ui', calls') /\ (Dragging(calls') \/ Agrees(calls', ui'.items, server'))
  <2>1. /\ server' = server /\ calls' = calls
        /\ \E d : ui' = [items |-> ui.items, dragged |-> d]
    BY <1>1, <1>6 DEF Calendar!DragCancel, Calendar!DragStart
  <2> QED
    BY <1>1, <2>1
<1>7. ASSUME NEW start, Calendar!DragEnd(start)
      PROVE  Formed(ui', calls') /\ (Dragging(calls') \/ Agrees(calls', ui'.items, server'))
  <2>1. server' = server
    BY <1>7 DEF Calendar!DragEnd
  <2>2. CASE start = ui.items[ui.dragged].start
    <3>1. ui' = [items |-> ui.items, dragged |-> None] /\ calls' = calls
      BY <1>1, <1>7, <2>2 DEF Calendar!DragEnd
    <3> QED
      BY <1>1, <2>1, <3>1
  <2>3. CASE start # ui.items[ui.dragged].start
    <3>1. PICK items, v :
            /\ ui' = [items |-> items, dragged |-> None]
            /\ calls' = Calendar!Moves \cup {Calendar!Call(made, 0, ui.dragged, "relocate", v, None)}
      BY <1>7, <2>3 DEF Calendar!DragEnd
    <3>2. Calendar!Moves \subseteq calls
      BY DEF Calendar!Moves
    <3>3. Dragging(calls')
      <4>1. Calendar!Call(made, 0, ui.dragged, "relocate", v, None).op = "relocate"
        BY DEF Calendar!Call
      <4> QED
        BY <3>1, <4>1, Zenon
    <3>4. \A c \in calls' : IsCall(c)
      BY <1>1, <1>3, <3>1, <3>2
    <3>5. ui' = [items |-> ui'.items, dragged |-> ui'.dragged]
      BY <3>1
    <3> QED
      BY <3>3, <3>4, <3>5
  <2> QED
    BY <2>2, <2>3
<1>8. ASSUME NEW c \in calls, Calendar!Relocated(c)
      PROVE  Formed(ui', calls') /\ (Dragging(calls') \/ Agrees(calls', ui'.items, server'))
  <2>1. ui' = ui /\ calls' = (Calendar!Moves \ {c}) \cup {Calendar!Fetch(None)}
    BY <1>8 DEF Calendar!Relocated
  <2>2. \A d \in calls' : d = Calendar!Fetch(None) \/ (d \in calls /\ d.op = "relocate")
    BY <2>1 DEF Calendar!Moves
  <2> QED
    BY <1>1, <1>4, <2>1, <2>2
<1>9. ASSUME NEW c \in calls, Calendar!ListArrives(c)
      PROVE  Formed(ui', calls') /\ (Dragging(calls') \/ Agrees(calls', ui'.items, server'))
  <2>1. /\ c.op = "list" /\ c.at = "ok" /\ server' = server /\ calls' = calls \ {c}
        /\ ui' = [items |-> c.answer, dragged |-> ui.dragged]
    BY <1>1, <1>9 DEF Calendar!ListArrives, Calendar!Ends
  <2> QED
    BY <1>1, <2>1
<1>10. ASSUME NEW c \in calls, Calendar!Serve(c)
       PROVE  Formed(ui', calls') /\ (Dragging(calls') \/ Agrees(calls', ui'.items, server'))
  <2>1. CASE c.op = "relocate"
    <3>1. ui' = ui /\ calls' = (calls \ {c}) \cup {[c EXCEPT !.at = "ok", !.answer = None]}
      BY <1>10, <2>1 DEF Calendar!Serve, Calendar!Answered, Calendar!Replace
    <3>2. (\A d \in calls' : IsCall(d)) /\ Dragging(calls')
      BY <1>5, <2>1, <3>1, Zenon
    <3> QED
      BY <1>1, <3>1, <3>2
  <2>2. CASE c.op # "relocate"
    <3>1. /\ c.op = "list" /\ ui' = ui /\ server' = server
          /\ calls' = (calls \ {c}) \cup {[c EXCEPT !.at = "ok", !.answer = server]}
      BY <1>10, <2>2 DEF Calendar!Serve, Calendar!Answered, Calendar!Replace
    <3>2. /\ \A d \in calls' : IsCall(d) /\ (d \in calls \/ d.answer = server)
          /\ calls \ {c} \subseteq calls' /\ \E d \in calls' : d.op = "list"
      BY <1>5, <3>1, Zenon
    <3>3. Dragging(calls) => Dragging(calls')
      BY <2>2, <3>2
    <3>4. Agrees(calls, ui.items, server) => Agrees(calls', ui'.items, server')
      BY <3>1, <3>2
    <3> QED
      BY <1>1, <3>1, <3>2, <3>3, <3>4
  <2> QED
    BY <2>1, <2>2
<1>11. ASSUME NEW c \in calls, Calendar!Refuse(c)
       PROVE  Formed(ui', calls') /\ (Dragging(calls') \/ Agrees(calls', ui'.items, server'))
  <2>1. /\ c.op = "relocate" /\ ui' = ui
        /\ calls' = (calls \ {c}) \cup {[c EXCEPT !.at = "no", !.answer = None]}
    BY <1>11 DEF Calendar!Refuse, Calendar!Fault, Calendar!Refused, Calendar!Replace
  <2>2. (\A d \in calls' : IsCall(d)) /\ Dragging(calls')
    BY <1>5, <2>1, Zenon
  <2> QED
    BY <1>1, <2>1, <2>2
<1> HIDE DEF Dragging, Agrees, Formed
<1> QED
  BY <1>6, <1>7, <1>8, <1>9, <1>10, <1>11 DEF Calendar!Next

-----------------------------------------------------------------------------
(* All pages catch up                                                      *)

LEMMA CatchStarts == Init => CatchInv
  BY StartsOn, BoardKeepsStarts, BoardsKeepStarts, RecordsSettleStarts, UsersSettleStarts,
     HooksSettleStarts, InboxKeepsStarts, SettingsKeepStarts, OutcomesKeepStarts,
     ThreadsSettleStarts, DayCatchesUpStarts DEF CatchInv

LEMMA CatchStays == CatchInv /\ UNCHANGED vars => CatchInv'
<1> SUFFICES ASSUME CatchInv, UNCHANGED vars PROVE CatchInv'
  OBVIOUS
<1>0. UNCHANGED <<page, ui, calls, server, made, clean>>
  BY DEF vars
<1> USE <1>0
<1> USE DEF AreCalls, IsCall
<1>1. BoardKeeps => BoardKeeps'
  BY DEF BoardKeeps, BoardForms, KeyCatchesUp
<1>2. BoardsKeep => BoardsKeep'
  BY DEF BoardsKeep, FetchesUp, ListsAreFull, Projects!Staff, PortalCalls, DrawnWell,
     Projects!RollsBack
<1>3. (RecordsSettle => RecordsSettle') /\ (HooksSettle => HooksSettle')
  BY DEF RecordsSettle, CatchesUp, HooksSettle, Hooks!Live
<1>4. UsersSettle => UsersSettle'
  BY DEF UsersSettle, UsersTyped, ListCatchesUp, Accounts!Content
<1>5. InboxKeeps => InboxKeeps'
  BY Zenon DEF InboxKeeps, InboxFits, Undisturbed, Bell!Rows
<1>6. SettingsKeep => SettingsKeep'
  BY DEF SettingsKeep
<1>7. DayCatchesUp => DayCatchesUp'
  BY DEF DayCatchesUp
<1>8. OutcomesKeep => OutcomesKeep'
  BY DEF OutcomesKeep, Funnels!Funnel
<1>9. ThreadsSettle => ThreadsSettle'
  BY DEF ThreadsSettle, ThreadCatchesUp
<1> QED
  BY <1>1, <1>2, <1>3, <1>4, <1>5, <1>6, <1>7, <1>8, <1>9 DEF CatchInv

LEMMA CatchSteps == StuckInv /\ ShowsInv /\ CatchInv /\ [Next]_vars => CatchInv'
<1> SUFFICES ASSUME StuckInv, ShowsInv, CatchInv, [Next]_vars PROVE CatchInv'
  OBVIOUS
<1>1. CASE UNCHANGED vars
  BY <1>1, CatchStays
<1>2. CASE page' = page /\ ~UNCHANGED vars
  <2> USE <1>2
  <2>1. page = "board" => BoardKeeps'
    BY StaysOn, BoardKeepsSteps DEF CatchInv, StuckInv
  <2>2. page \in Boards => BoardsKeep'
    BY StaysOn, BoardsKeepSteps DEF CatchInv, StuckInv
  <2>3. page \in Managers => RecordsSettle'
    BY StaysOn, RecordsSettleSteps DEF CatchInv, StuckInv
  <2>4. page = "users" => UsersSettle'
    BY StaysOn, UsersSettleSteps DEF CatchInv, ShowsInv
  <2>5. page = "webhooks" => HooksSettle'
    BY StaysOn, HooksSettleSteps DEF CatchInv, ShowsInv
  <2>6. page \in Bells => InboxKeeps'
    BY StaysOn, InboxKeepsSteps DEF CatchInv, StuckInv
  <2>7. page = "settings" => SettingsKeep'
    BY StaysOn, SettingsKeepSteps DEF CatchInv
  <2>8. page = "outcomes" => OutcomesKeep'
    BY StaysOn, OutcomesKeepSteps DEF CatchInv, ShowsInv
  <2>9. page = "messages" => ThreadsSettle'
    BY StaysOn, ThreadsSettleSteps DEF CatchInv, ShowsInv
  <2>10. page = "day" => DayCatchesUp'
    BY StaysOn, DayCatchesUpSteps DEF CatchInv
  <2> QED
    BY <2>1, <2>2, <2>3, <2>4, <2>5, <2>6, <2>7, <2>8, <2>9, <2>10 DEF CatchInv
<1> QED
  BY <1>1, <1>2, StaysOn

\* Without calls, a page that catches up has caught up.
LEMMA BoardCaughtUp == BoardKeeps => Board!ListCatchesUp
<1> SUFFICES ASSUME BoardKeeps, calls = {} PROVE Board!Shown = server \/ (ui.failed[Board!Current] /\ ui.banner)
  BY DEF Board!ListCatchesUp
<1>1. PICK k : k = Board!Current
  OBVIOUS
<1>2. k \in Board!Keys /\ ui.fresh[k] /\ (ui.failed[k] => ui.banner)
  BY <1>1 DEF BoardKeeps, BoardForms, Board!Current, Board!Key, Board!Keys
<1>3. KeyCatchesUp(k, server, calls, ui)
  BY <1>2 DEF BoardKeeps
<1> QED
  BY <1>1, <1>2, <1>3 DEF KeyCatchesUp, Changed, Board!Shown

LEMMA BoardsCaughtUp == ProjectsWaits /\ BoardsKeep => Projects!BoardCatchesUp
<1> SUFFICES ASSUME ProjectsWaits, BoardsKeep, clean, calls = {}, ~ui.failed
             PROVE  ui.board = server
  BY DEF Projects!BoardCatchesUp, Projects!BoardSettles
<1>1. ui.shown = server
  BY DEF BoardsKeep, FetchesUp, Stored
<1>2. CASE Projects!Staff
  BY <1>1, <1>2 DEF BoardsKeep
<1>3. CASE ~Projects!Staff
  BY <1>3, <1>1 DEF BoardsKeep, DrawnWell, OverItems, ProjectsWaits, PlainInv
<1> QED
  BY <1>2, <1>3

LEMMA InboxCaughtUp == InboxKeeps => Bell!InboxReconciles
<1> SUFFICES ASSUME InboxKeeps, clean, calls = {} PROVE ui.rows = Bell!Rows
  BY DEF Bell!InboxReconciles
<1>1. /\ ui.rows = [i \in Item |-> ui.rows[i]]
      /\ \A i \in Item : RowFits(calls, server.row[i], ui.rows[i], i)
  BY DEF InboxKeeps, InboxFits, Lost
<1>2. \A i \in Item : ui.rows[i] = IF server.row[i] \in Bell!Kept THEN server.row[i] ELSE None
  BY <1>1 DEF RowFits, Away, Seen, Bell!Kept
<1> QED
  BY <1>1, <1>2 DEF Bell!Rows

LEMMA CaughtUp ==
  ASSUME StuckInv, CatchInv, SettlesInv
  PROVE  PagesSettle
<1>1. page = "board" => Board!ListCatchesUp
  BY BoardCaughtUp DEF CatchInv
<1>2. page \in Boards => Projects!BoardCatchesUp
  BY BoardsCaughtUp DEF CatchInv, StuckInv
<1>3. page \in Managers => Lookups!RecordsCatchUp
  BY DEF CatchInv, RecordsSettle, CatchesUp, Due, Lookups!RecordsCatchUp
<1>4. page = "users" => Accounts!ListsSettle
  BY DEF CatchInv, UsersSettle, ListCatchesUp, Due, Accounts!ListsSettle
<1>5. page = "webhooks" => Hooks!SubscriptionsSettle
  BY DEF CatchInv, HooksSettle, CatchesUp, Due, Hooks!SubscriptionsSettle
<1>6. page \in Bells => Bell!InboxReconciles
  BY InboxCaughtUp DEF CatchInv
<1>7. page = "settings" => Personal!SettingsSettle
  BY DEF CatchInv, SettingsKeep, ConnectionsCatchUp, PrefsCatchUp, Personal!SettingsSettle
<1>8. page = "outcomes" => Funnels!OutcomesSettle
  BY DEF CatchInv, OutcomesKeep, RowsCatchUp, Carried, LoadsAfter, Funnels!OutcomesSettle
<1>9. page = "checklist" => Promotion!ChecklistSettles
  BY CheckSettles DEF SettlesInv
<1>10. page = "messages" => Threads!ThreadSettles
  BY DEF CatchInv, ThreadsSettle, ThreadCatchesUp, Delivered, Threads!ThreadSettles
<1>11. page = "day" => Calendar!DaySettles
  BY DEF CatchInv, DayCatchesUp, Calendar!DaySettles
<1> QED
  BY <1>1, <1>2, <1>3, <1>4, <1>5, <1>6, <1>7, <1>8, <1>9, <1>10, <1>11 DEF PagesSettle

-----------------------------------------------------------------------------
(* Types: the schedule board                                               *)

LEMMA BoardFetches ==
  ASSUME NEW S, BoardCalls(S), NEW keys, NEW k \in Board!Keys, NEW T,
         T \subseteq Board!Overtaken(S, keys) \cup {Fetch(k)}
  PROVE  BoardCalls(T)
<1>1. <<"list", k, "latest">> \in BoardAsks
  BY Zenon DEF BoardAsks
<1>2. \A c \in S : c.op = "list" => <<"list", c.item, "overtaken">> \in BoardAsks
  BY Zenon DEF Asking, BoardCalls, BoardAsks, Board!Bulk
<1>3. \A e \in T : e = Fetch(k) \/ e \in S \/ \E c \in S : c.op = "list" /\ e = Late(c)
  BY Zenon DEF Board!Overtaken, Late
<1> QED
  BY <1>1, <1>2, <1>3, AskingAgain DEF BoardCalls

LEMMA BoardTypesStart == Board!Init => BoardTyped
<1> SUFFICES ASSUME Board!Init PROVE BoardTyped
  OBVIOUS
<1> USE DEF Board!View, Board!Keys, Board!Key
<1>1. server \in Board!List /\ ui \in Board!Ui
  BY DEF Board!Init, Board!Doc, Board!Ui, Board!Cold, Board!List
<1>2. BoardCalls({}) /\ \E k \in Board!Keys : calls \subseteq Board!Overtaken({}, {}) \cup {Fetch(k)}
  BY DEF Asking, BoardCalls, Board!Init, Board!Fetch, Board!Call, Fetch, Call
<1> QED
  BY <1>1, <1>2, BoardFetches DEF BoardTyped

LEMMA BoardTypes == made \in Nat /\ BoardTyped /\ Board!Next => BoardTyped'
<1> SUFFICES ASSUME made \in Nat, BoardTyped, Board!Next PROVE BoardTyped'
  OBVIOUS
<1> USE DEF Board!Keys, Board!Call, Call, Board!Fetch, Fetch
<1>0. server \in Board!List /\ ui \in Board!Ui /\ BoardCalls(calls)
  BY DEF BoardTyped
<1>1. /\ Board!Current \in Board!Keys /\ Board!Shown \in Board!List
      /\ \A v \in Board!View : Board!Key(v) \in Board!Keys
  BY <1>0 DEF Board!Current, Board!Key, Board!Shown, Board!Ui
<1>2. ASSUME NEW u \in Board!Ui
      PROVE  Board!Stale(u) \in Board!Ui /\ \A set \in SUBSET Item : Board!Choose(u, set) \in Board!Ui
  BY Zenon DEF Board!Ui, Board!Stale, Board!Choose
<1>3. ASSUME ui' \in Board!Ui, UNCHANGED server, calls' \subseteq calls PROVE BoardTyped'
  BY <1>0, <1>3, AskingFewer DEF BoardTyped, BoardCalls
<1>4. ASSUME ui' \in Board!Ui, UNCHANGED server, NEW S \in SUBSET calls, NEW keys, NEW k \in Board!Keys,
             calls' \subseteq Board!Overtaken(S, keys) \cup {Fetch(k)}
      PROVE  BoardTyped'
  <2>1. BoardCalls(S)
    BY <1>0, AskingFewer DEF BoardCalls
  <2> QED
    BY <1>0, <1>4, <2>1, BoardFetches DEF BoardTyped
<1>5. PICK u \in Board!Ui : u = Board!Choose(ui, {})
  BY <1>0, <1>2
<1>6. ASSUME Board!AskBulk \/ Board!CancelBulk \/ Board!TypeReason \/ Board!CloseConflict PROVE BoardTyped'
  BY <1>0, <1>3, <1>6 DEF Board!AskBulk, Board!CancelBulk, Board!TypeReason, Board!CloseConflict, Board!Ui
<1>7. ASSUME NEW s, \/ s \in Item /\ Board!ToggleItem(s)
                    \/ s \in Status /\ Board!SelectColumn(s)
      PROVE  BoardTyped'
  <2>1. PICK set \in SUBSET Item : ui' = Board!Choose(ui, set)
    BY <1>0, <1>7 DEF Board!ToggleItem, Board!SelectColumn, Board!Listed, Board!Column, Board!Ui
  <2> QED
    BY <1>0, <1>2, <1>3, <1>7, <2>1 DEF Board!ToggleItem, Board!SelectColumn
<1>8. ASSUME Board!Retry PROVE BoardTyped'
  BY <1>0, <1>1, <1>2, <1>4, <1>8 DEF Board!Retry, Board!Refetching
<1>9. ASSUME Board!Turn \/ Board!ToggleSelectionMode \/ Board!Widen PROVE BoardTyped'
  <2>1. /\ [u EXCEPT !.selecting = ~@] \in Board!Ui
        /\ [u EXCEPT !.cache["window"] = Board!Cold, !.fresh["window"] = TRUE,
                     !.failed["window"] = FALSE] \in Board!Ui
    BY Zenon DEF Board!Ui, Board!Cold, Board!List
  <2>2. ui' \in Board!Ui
    BY <1>5, <1>9, <2>1 DEF Board!Turn, Board!ToggleSelectionMode, Board!Widen, Board!Choose
  <2>3. UNCHANGED server /\ \/ UNCHANGED calls
                            \/ calls' = Board!Overtaken(calls, {"window"}) \cup {Fetch("window")}
    BY <1>9 DEF Board!Turn, Board!ToggleSelectionMode, Board!Widen
  <2> QED
    BY <1>3, <1>4, <2>2, <2>3
<1>10. ASSUME NEW v \in Board!View, Board!Navigate(v) PROVE BoardTyped'
  <2>0. PICK n \in Nat : n = made + 1
    OBVIOUS
  <2>1. PICK f \in [Board!Keys -> BOOLEAN] : f = [ui.fresh EXCEPT ![Board!Key(v)] = TRUE]
    BY <1>0, <1>1, Zenon DEF Board!Ui
  <2>2. ui' = [ui EXCEPT !.view = v, !.inst = n, !.selecting = FALSE, !.chosen = {},
                         !.busy = None, !.confirm = None, !.conflict = None, !.reason = None,
                         !.fresh = f]
    BY <1>0, <1>10, <2>0, <2>1 DEF Board!Navigate, Board!Ui
  <2>3. ui' \in Board!Ui
    BY <1>0, <2>1, <2>2, Zenon DEF Board!Ui
  <2> QED
    BY <1>1, <1>3, <1>4, <1>10, <2>3 DEF Board!Navigate
\* A change shows at once.
<1>11. ASSUME NEW s \in Item, NEW doc \in Board!Doc \cup {None}, NEW op, NEW value, NEW prev,
              <<op, s, value>> \in BoardAsks, Board!Swapped(s, doc),
              Board!StartSwapped(s, op, value, prev), UNCHANGED server
       PROVE  BoardTyped'
  <2>1. ui' \in Board!Ui
    BY <1>0, <1>11, Zenon DEF Board!Swapped, Board!Ui, Board!List
  <2>2. BoardCalls(Board!Overtaken(calls, Board!Keys))
    BY <1>0, <1>1, BoardFetches
  <2> QED
    BY <1>0, <1>11, <2>1, <2>2, AskingMore, Zenon DEF Board!StartSwapped, BoardTyped, BoardCalls
<1>12. ASSUME NEW s \in Item, NEW status \in Status, Board!ChangeStatus(s, status) PROVE BoardTyped'
  BY <1>1, <1>11, <1>12, Zenon DEF Board!ChangeStatus, Board!Listed, Board!List, Board!Doc, BoardAsks
<1>13. ASSUME NEW s \in Item, NEW slot \in Value, NEW reason, Board!Relocate(s, slot, reason) PROVE BoardTyped'
  <2>1. <<"relocate", s, slot>> \in BoardAsks
    BY Zenon DEF BoardAsks
  <2>2. (IF Board!Shown[s] = None THEN None ELSE [Board!Shown[s] EXCEPT !.slot = slot]) \in Board!Doc \cup {None}
    BY <1>1 DEF Board!List, Board!Doc
  <2> QED
    BY <1>11, <1>13, <2>1, <2>2 DEF Board!Relocate
<1>14. ASSUME Board!ForceRelocate PROVE BoardTyped'
  BY <1>0, <1>13, <1>14 DEF Board!ForceRelocate, Board!Ui, Board!Target
<1>15. ASSUME Board!ConfirmBulk \/ \E status \in Status : Board!BulkStatus(status) PROVE BoardTyped'
  <2>1. PICK op, set, value : /\ <<op, set, value>> \in BoardAsks
                              /\ calls' = calls \cup {Call(made, ui.inst, set, op, value, None)}
    BY <1>0, <1>15, Zenon DEF Board!ConfirmBulk, Board!BulkStatus, Board!Start, BoardAsks, Board!Bulk, Board!Ui
  <2>2. server' = server /\ ui' \in Board!Ui
    BY <1>0, <1>15, Zenon DEF Board!ConfirmBulk, Board!BulkStatus, Board!Begin, Board!Ui
  <2> QED
    BY <1>0, <2>1, <2>2, AskingMore, Zenon DEF BoardTyped, BoardCalls
<1>16. ASSUME NEW c \in calls, Board!Serve(c) PROVE BoardTyped'
  <2>1. PICK y : /\ calls' = (calls \ {c}) \cup {[c EXCEPT !.at = "ok", !.answer = y]}
                 /\ c.op = "list" /\ c.value = "latest" => y = server
    BY <1>16, Zenon DEF Board!Serve, Board!Answered, Board!Replace
  <2>2. ASSUME NEW s \in Board!Targets(c), s \in Item, c.op # "list"
        PROVE  Board!Write(server[s], c) \in Board!Doc \cup {None}
    <3>1. \/ c.op = "bulk delete"
          \/ c.op \in {"status", "bulk status"} /\ c.value \in Status
          \/ c.op = "relocate" /\ c.value \in Value
      BY <1>0, <2>2, Zenon DEF Asking, BoardCalls, BoardAsks
    <3> QED
      BY <1>0, <2>2, <3>1, Zenon DEF Board!Write, Board!List, Board!Doc
  <2>3. \/ server' = server
        \/ /\ c.op # "list"
           /\ server' = [s \in Item |-> IF s \in Board!Targets(c) THEN Board!Write(server[s], c) ELSE server[s]]
    BY <1>16 DEF Board!Serve
  <2>4. server' \in Board!List
    BY <1>0, <2>2, <2>3 DEF Board!List
  <2>5. BoardCalls(calls')
    BY <1>0, <2>1, AskingStill, Zenon DEF BoardCalls
  <2> QED
    BY <1>0, <1>16, <2>4, <2>5 DEF BoardTyped, Board!Serve
<1>20. ASSUME NEW c \in calls, Board!Refuse(c) PROVE BoardTyped'
  <2>1. PICK y : UNCHANGED <<server, ui>> /\ calls' = (calls \ {c}) \cup {[c EXCEPT !.at = "no", !.answer = y]}
    BY <1>20, Zenon DEF Board!Refuse, Board!Refused, Board!Fault, Board!Replace
  <2> QED
    BY <1>0, <2>1, AskingStill, Zenon DEF BoardCalls, BoardTyped
<1>17. ASSUME NEW c \in calls, Board!ListArrives(c) \/ Board!ListFails(c) \/ Board!BulkFails(c) PROVE BoardTyped'
  <2>1. c.op = "list" => c.item \in Board!Keys /\ (Arrived(c) => c.answer \in Board!List)
    BY <1>0, Zenon DEF Asking, BoardCalls, BoardAsks, Board!Bulk
  <2>2. \/ ui' \in {ui, [ui EXCEPT !.busy = None, !.confirm = None]}
        \/ Arrived(c) /\ ui' = [ui EXCEPT !.cache[c.item] = c.answer, !.failed[c.item] = FALSE]
        \/ c.op = "list" /\ ui' = [ui EXCEPT !.banner = TRUE, !.failed[c.item] = @ \/ c.value = "latest"]
    BY <1>17 DEF Board!ListArrives, Board!ListFails, Board!BulkFails, Board!Idle, Arrived
  <2>3. /\ c.op = "list" => \A b \in BOOLEAN :
             [ui.failed EXCEPT ![c.item] = b] \in [Board!Keys -> BOOLEAN] /\ ui.failed[c.item] \in BOOLEAN
        /\ Arrived(c) => [ui.cache EXCEPT ![c.item] = c.answer] \in [Board!Keys -> Board!List]
    BY <1>0, <2>1 DEF Arrived, Board!Ui
  <2>4. ui' \in Board!Ui
    BY <1>0, <2>2, <2>3, ZenonT(30) DEF Arrived, Board!Ui
  <2> QED
    BY <1>3, <1>17, <2>4 DEF Board!ListArrives, Board!ListFails, Board!BulkFails, Board!Ends
<1>18. ASSUME NEW c \in calls, NEW v \in Board!Ui, Board!AnsweredAndFetches(c, v), UNCHANGED server PROVE BoardTyped'
  BY <1>1, <1>2, <1>4, <1>18 DEF Board!AnsweredAndFetches, Board!Refetching
<1>19. ASSUME NEW c \in calls, \/ Board!StatusAnswered(c) \/ Board!Relocated(c)
                               \/ Board!RelocateFails(c) \/ Board!BulkDone(c)
       PROVE  BoardTyped'
  <2>1. c.op = "relocate" => [item |-> c.item, slot |-> c.value] \in Board!Target
    BY <1>0, Zenon DEF Asking, BoardCalls, BoardAsks, Board!Bulk, Board!Target
  <2>2. /\ [ui EXCEPT !.conflict = None] \in Board!Ui
        /\ c.op = "relocate" =>
             [ui EXCEPT !.conflict = [item |-> c.item, slot |-> c.value], !.reason = None] \in Board!Ui
    BY <1>0, <2>1, Zenon DEF Board!Ui
  <2> QED
    BY <1>0, <1>2, <1>18, <1>19, <2>2
       DEF Board!StatusAnswered, Board!Relocated, Board!RelocateFails, Board!BulkDone
<1> QED
  BY <1>5, <1>6, <1>7, <1>8, <1>9, <1>10, <1>12, <1>13, <1>14, <1>15, <1>16, <1>17, <1>19, <1>20
     DEF Board!Next, Board!User, Board!DropOnSlot

-----------------------------------------------------------------------------
(* Types: the project boards                                               *)

LEMMA ProjectsTypesStart == Projects!Init => ProjectsTyped
<1> SUFFICES ASSUME Projects!Init PROVE ProjectsTyped
  OBVIOUS
<1>1. server \in Projects!List /\ ui \in Projects!Ui
  BY Zenon DEF Projects!Init, Projects!List, Projects!Ui
<1>2. Asking({}, ProjectAsks, Projects!List) /\ <<"list", None, "latest">> \in ProjectAsks
  BY DEF Asking, ProjectAsks
<1>3. calls = {Call(None, None, None, "list", "latest", None)}
  BY Zenon DEF Projects!Init, Projects!Fetch, Projects!Call, Call
<1>4. \A c \in calls : AsksBack(c)
  BY <1>3, NewCall DEF AsksBack
<1>5. Asking(calls, ProjectAsks, Projects!List)
  BY <1>2, <1>3, AskingMore
<1> QED
  BY <1>1, <1>4, <1>5 DEF ProjectsTyped

LEMMA ProjectsTypes == made \in Nat /\ BoardsKeep /\ ProjectsTyped /\ Projects!Next => ProjectsTyped'
<1> SUFFICES ASSUME made \in Nat, BoardsKeep, ProjectsTyped, Projects!Next PROVE ProjectsTyped'
  OBVIOUS
<1> USE DEF Projects!Call, Call, Projects!Fetch, Fetch
<1>0. /\ server \in Projects!List /\ ui \in Projects!Ui /\ Asking(calls, ProjectAsks, Projects!List)
      /\ \A c \in calls : AsksBack(c)
  BY DEF ProjectsTyped
<1>1. PICK n \in Nat : n = made
  OBVIOUS
<1>p. page' = page
  BY Zenon DEF Projects!Next, Projects!User, Projects!Retry, Projects!ForceAdvance, Projects!CancelGate,
     Projects!SwitchView, Projects!DeleteTask, Projects!ToggleTask, Projects!DragPending, Projects!DropProject,
     Projects!DropTask, Projects!AddTask, Projects!DragTask, Projects!Serve, Projects!Refuse, Projects!Arrives,
     Projects!ListArrives, Projects!ListFails, Projects!Warned, Projects!StaffDone, Projects!StaffFails,
     Projects!PortalSaved, Projects!PortalListed, Projects!PortalRefreshed, Projects!PortalFails
<1>2. \A c : AsksBack(c)' <=> AsksBack(c)
  BY <1>p DEF AsksBack, Projects!Staff
<1>3. ASSUME ui' \in Projects!Ui, UNCHANGED server, calls' \subseteq calls PROVE ProjectsTyped'
  <2>1. Asking(calls', ProjectAsks, Projects!List)
    BY <1>0, <1>3, AskingFewer
  <2> QED
    BY <1>0, <1>2, <1>3, <2>1 DEF ProjectsTyped
<1>4. ASSUME ui' \in Projects!Ui, UNCHANGED server, NEW i \in Item, NEW op, NEW value, NEW prev,
             <<op, i, value>> \in ProjectAsks, Projects!Ask(i, op, value, prev),
             ~Projects!Staff /\ op = "move" => prev \in Projects!List \cup {None}
      PROVE  ProjectsTyped'
  <2> USE <1>4
  <2>1. calls' = calls \cup {Call(made, 0, i, op, value, prev)}
    BY DEF Projects!Ask, Projects!Start
  <2>2. Asking(calls', ProjectAsks, Projects!List)
    BY <1>0, <2>1, AskingMore
  <2>3. AsksBack(Call(made, 0, i, op, value, prev))
    BY NewCall DEF AsksBack
  <2> QED
    BY <1>0, <1>2, <2>1, <2>2, <2>3 DEF ProjectsTyped
<1>5. ASSUME NEW S, Asking(S, ProjectAsks, Projects!List), \A c \in S : AsksBack(c),
             ui' \in Projects!Ui, UNCHANGED server, calls' = Projects!Refetching(S)
      PROVE  ProjectsTyped'
  <2> USE <1>5
  <2>1. /\ <<"list", None, "latest">> \in ProjectAsks
        /\ \A c \in S : c.op = "list" => <<"list", c.item, "overtaken">> \in ProjectAsks
    BY Zenon DEF ProjectAsks, Asking
  <2>2. \A e \in calls' : e = Fetch(None) \/ e \in S \/ \E c \in S : c.op = "list" /\ e = Late(c)
    BY Zenon DEF Projects!Refetching, Projects!Overtaken, Late
  <2>3. Asking(calls', ProjectAsks, Projects!List)
    BY <2>1, <2>2, AskingAgain
  <2>4. \A c \in S : c.op = "list" => Late(c).op = "list" /\ Late(c).at = c.at /\ c.at # "warn"
    BY DEF Asking, Late, IsCall, CallFields, AsksBack
  <2>5. \A c \in calls' : AsksBack(c)
    BY <2>2, <2>4 DEF AsksBack
  <2> QED
    BY <1>0, <1>2, <2>3, <2>5 DEF ProjectsTyped
<1>6. ASSUME Projects!Retry PROVE ProjectsTyped'
  BY <1>0, <1>5, <1>6 DEF Projects!Retry
<1>7. ASSUME Projects!ForceAdvance \/ Projects!CancelGate PROVE ProjectsTyped'
  <2>1. ui' \in Projects!Ui /\ UNCHANGED server
    BY <1>0, <1>7 DEF Projects!ForceAdvance, Projects!CancelGate, Projects!Ui
  <2>2. CASE Projects!CancelGate
    BY <1>3, <2>1, <2>2 DEF Projects!CancelGate
  <2>3. CASE Projects!ForceAdvance
    <3>1. ui.gate.item \in Item /\ ui.gate.to \in Projects!Lane
      BY <1>0, <2>3 DEF Projects!ForceAdvance, Projects!Ui
    <3>2. <<"force", ui.gate.item, ui.gate.to>> \in ProjectAsks
      BY <3>1 DEF ProjectAsks
    <3> QED
      BY <1>4, <2>1, <2>3, <3>1, <3>2 DEF Projects!ForceAdvance
  <2> QED
    BY <1>7, <2>2, <2>3
<1>8. ASSUME NEW i \in Item, NEW l \in Projects!Lane,
             \/ Projects!DropProject(i, l) \/ Projects!DropTask(i, l) \/ Projects!AddTask(i, l)
             \/ Projects!DragTask(i, l)
      PROVE  ProjectsTyped'
  <2>1. \A op \in {"move", "advance", "add"} : <<op, i, l>> \in ProjectAsks
    BY DEF ProjectAsks
  <2>3. CASE Projects!DropProject(i, l) \/ Projects!DropTask(i, l)
    <3>1. ui' \in Projects!Ui /\ UNCHANGED server /\ Projects!Staff
      BY <1>0, <2>3 DEF Projects!DropProject, Projects!DropTask, Projects!Staff
    <3>2. PICK op \in {"move", "advance"} : Projects!Ask(i, op, l, Projects!Drawn(i))
      BY <2>3 DEF Projects!DropProject, Projects!DropTask
    <3> QED
      BY <1>4, <2>1, <3>1, <3>2
  <2>5. CASE Projects!AddTask(i, l)
    <3>1. ui' = [ui EXCEPT !.adding = n]
      BY <1>1, <2>5 DEF Projects!AddTask
    <3>2. ui' \in Projects!Ui
      BY <1>0, <3>1 DEF Projects!Ui
    <3> QED
      BY <1>4, <2>1, <2>5, <3>2 DEF Projects!AddTask
  <2>6. CASE Projects!DragTask(i, l)
    <3> USE <2>6
    <3>1. ui.board \in Projects!List /\ ui.shown \in Projects!List \cup {None}
      BY <1>0, Zenon DEF Projects!DragTask, Projects!Drawn, Projects!Ui
    <3>2. PICK b \in Projects!List : b = [ui.board EXCEPT ![i] = l]
      BY <3>1, Zenon DEF Projects!List
    <3>3. ui' = [ui EXCEPT !.board = b, !.pending = @ \cup {i}]
      BY <1>0, <3>2, Zenon DEF Projects!DragTask, Projects!Ui
    <3>4. ui' \in Projects!Ui
      BY <1>0, <3>3, Zenon DEF Projects!Ui
    <3> QED
      BY <1>4, <2>1, <3>1, <3>4, Zenon DEF Projects!DragTask
  <2> QED
    BY <1>8, <2>3, <2>5, <2>6
<1>d. ASSUME NEW i \in Item, Projects!DeleteTask(i) PROVE ProjectsTyped'
  <2>1. <<"delete", i, None>> \in ProjectAsks
    BY DEF ProjectAsks
  <2> QED
    BY <1>0, <1>4, <1>d, <2>1 DEF Projects!DeleteTask
<1>9. ASSUME NEW i \in Item, Projects!ToggleTask(i) PROVE ProjectsTyped'
  <2> USE <1>9
  <2>1. Projects!Drawn(i) \in Projects!Lane
    BY <1>0, Zenon DEF Projects!ToggleTask, Projects!Drawn, Projects!Ui, Projects!List
  <2>2. 1 \in Projects!Lane /\ Last \in Projects!Lane
    BY <2>1, ColumnsAreNumbered DEF Projects!Lane
  <2>3. PICK l \in Projects!Lane : Projects!Ask(i, "toggle", l, None)
    BY <2>2, Zenon DEF Projects!ToggleTask
  <2>4. ui' \in Projects!Ui /\ UNCHANGED server
    BY <1>0, Zenon DEF Projects!ToggleTask, Projects!Ui
  <2>5. <<"toggle", i, l>> \in ProjectAsks
    BY DEF ProjectAsks
  <2> QED
    BY <1>4, <2>3, <2>4, <2>5
<1>10. ASSUME NEW i \in Item, Projects!DragPending(i) PROVE ProjectsTyped'
  <2>1. ui' \in Projects!Ui
    BY <1>0, <1>10, Zenon DEF Projects!DragPending, Projects!Ui
  <2> QED
    BY <1>3, <1>10, <2>1, Zenon DEF Projects!DragPending
<1>11. ASSUME NEW S, Asking(S, ProjectAsks, Projects!List), \A c \in S : AsksBack(c),
              ui' \in Projects!Ui, server' \in Projects!List, calls' = S
       PROVE  ProjectsTyped'
  BY <1>2, <1>11 DEF ProjectsTyped
<1>12. ASSUME Projects!SwitchView PROVE ProjectsTyped'
  <2>1. ui' \in Projects!Ui /\ UNCHANGED server
    <3>1. PICK b \in BOOLEAN : b = ~ui.rows
      BY Zenon
    <3>2. ui' = [ui EXCEPT !.rows = b, !.board = ui.shown] /\ UNCHANGED server
      BY <1>12, <3>1, Zenon DEF Projects!SwitchView
    <3> QED
      BY <1>0, <3>2, Zenon DEF Projects!Ui
  <2>2. ASSUME NEW c \in calls, NEW e, e = [c EXCEPT !.inst = None]
        PROVE  /\ IsCall(e) /\ e.op = c.op /\ e.item = c.item /\ e.value = c.value /\ e.at = c.at
               /\ e.answer = c.answer /\ e.prev = c.prev
    BY <1>0, <2>2, Zenon DEF Asking, IsCall, CallFields
  <2>3. \A e \in calls' : \E c \in calls : e = [c EXCEPT !.inst = None]
    BY <1>12, Zenon DEF Projects!SwitchView
  <2>4. Asking(calls', ProjectAsks, Projects!List)
    <3>1. ASSUME NEW e \in calls'
          PROVE  IsCall(e) /\ <<e.op, e.item, e.value>> \in ProjectAsks /\ (Arrived(e) => e.answer \in Projects!List)
      <4>1. PICK c \in calls : e = [c EXCEPT !.inst = None]
        BY <2>3
      <4> QED
        BY <1>0, <2>2, <4>1 DEF Asking, Arrived
    <3> QED
      BY <3>1, Zenon DEF Asking
  <2>5. \A e \in calls' : AsksBack(e)
    BY <1>0, <2>2, <2>3 DEF AsksBack
  <2> QED
    BY <1>0, <1>11, <2>1, <2>4, <2>5
<1>13. ASSUME NEW c \in calls, \/ Projects!Warned(c) \/ Projects!StaffDone(c) \/ Projects!StaffFails(c)
                               \/ Projects!Arrives(c) \/ Projects!ListFails(c) \/ Projects!PortalRefreshed(c)
       PROVE  ProjectsTyped'
  <2>1. Projects!Latest(c) /\ c.at = "ok" => Projects!Fills(c.answer) \in Projects!Ui
    BY <1>0, Zenon DEF Projects!Latest, Asking, Arrived, Projects!Fills, Projects!Ui
  <2>2. ui' \in Projects!Ui
    <3>1. CASE Projects!Arrives(c)
      <4>1. \A u \in Projects!Ui : [u EXCEPT !.failed = FALSE] \in Projects!Ui
        BY Zenon DEF Projects!Ui
      <4> QED
        BY <1>0, <2>1, <3>1, <4>1 DEF Projects!Arrives, Projects!ListArrives
    <3>2. CASE Projects!Warned(c)
      BY <1>0, <3>2 DEF Projects!Warned, AsksBack, Gate, Projects!Ui
    <3>3. CASE Projects!StaffDone(c) \/ Projects!StaffFails(c) \/ Projects!ListFails(c) \/ Projects!PortalRefreshed(c)
      BY <1>0, <3>3, Zenon DEF Projects!StaffDone, Projects!StaffFails, Projects!Done, Projects!ListFails,
         Projects!PortalRefreshed, Projects!Ui
    <3> QED
      BY <1>13, <3>1, <3>2, <3>3
  <2>3. UNCHANGED server /\ (calls' = calls \ {c} \/ calls' = Projects!Refetching(calls \ {c}))
    BY <1>13 DEF Projects!Warned, Projects!StaffDone, Projects!StaffFails, Projects!Arrives, Projects!ListArrives,
       Projects!ListFails, Projects!PortalRefreshed, Projects!Ends, Projects!EndsAndFetches
  <2>4. Asking(calls \ {c}, ProjectAsks, Projects!List)
    BY <1>0, AskingFewer
  <2> QED
    BY <1>0, <1>3, <1>5, <2>2, <2>3, <2>4
<1>14. ASSUME NEW c \in calls, Projects!PortalFails(c) PROVE ProjectsTyped'
  <2>1. ui' \in Projects!Ui
    BY <1>0, <1>14, Zenon DEF Projects!PortalFails, Projects!RollsBack, AsksBack, Projects!Ui
  <2> QED
    BY <1>3, <1>14, <2>1 DEF Projects!PortalFails, Projects!Ends
<1>15. ASSUME NEW c \in calls, NEW e, IsCall(e), e.op = c.op, e.item = c.item, e.value = c.value, e.prev = c.prev,
              Arrived(e) => e.answer \in Projects!List, e.at = "warn" => e.op = "advance" /\ e.answer \in Gate,
              NEW T, T = (calls \ {c}) \cup {e}
       PROVE  Asking(T, ProjectAsks, Projects!List) /\ \A d \in T : AsksBack(d)
  <2>1. AsksBack(e)
    BY <1>0, <1>15 DEF AsksBack
  <2> QED
    BY <1>0, <1>15, <2>1 DEF Asking
<1>16. ASSUME NEW c \in calls, Projects!PortalSaved(c) \/ Projects!PortalListed(c) PROVE ProjectsTyped'
  <2>1. PICK e : e \in {[c EXCEPT !.step = 2, !.at = "waits"], [c EXCEPT !.at = "out"]} /\
                 (calls' = Projects!Refetching((calls \ {c}) \cup {e}) \/ calls' = (calls \ {c}) \cup {e})
    BY <1>16, Zenon DEF Projects!PortalSaved, Projects!PortalListed, Projects!Replace
  <2>2. /\ IsCall(e) /\ e.op = c.op /\ e.item = c.item /\ e.value = c.value /\ e.prev = c.prev
        /\ e.at \in {"waits", "out"}
    BY <1>0, <2>1, Zenon DEF Asking, IsCall, CallFields
  <2>3. PICK T : T = (calls \ {c}) \cup {e}
    BY Zenon
  <2>4. Asking(T, ProjectAsks, Projects!List) /\ \A d \in T : AsksBack(d)
    BY <1>15, <2>2, <2>3 DEF Arrived
  <2>5. ui' = ui /\ server' = server
    BY <1>16 DEF Projects!PortalSaved, Projects!PortalListed
  <2> QED
    BY <1>0, <1>5, <1>11, <2>1, <2>3, <2>4, <2>5
<1>17. ASSUME NEW c \in calls, Projects!Serve(c) \/ Projects!Refuse(c) PROVE ProjectsTyped'
  <2>0. /\ c.op # "list" => c.item \in Item
        /\ c.op \notin {"list", "delete"} => c.value \in Projects!Lane
    BY <1>0, Zenon DEF Asking, ProjectAsks
  <2>1. c.op \in {"advance", "force"} /\ ~Projects!Missing(c) =>
          server[c.item] \in Projects!Lane /\ server[c.item] + 1 \in Projects!Lane
    <3>1. c.op \in {"advance", "force"} /\ ~Projects!Missing(c) =>
            c.item \in Item /\ server[c.item] \in Projects!Lane /\ server[c.item] # Last
      BY <1>0, <2>0 DEF Projects!Missing, Projects!Moves, Projects!List
    <3>2. \A l \in Projects!Lane : l # Last => l + 1 \in Projects!Lane
      BY ColumnsAreNumbered DEF Projects!Lane
    <3> QED
      BY <3>1, <3>2
  <2>2. c.op # "list" /\ ~Projects!Missing(c) => Projects!Next1(c) \in Projects!Lane \cup {None}
    BY <2>0, <2>1 DEF Projects!Next1
  <2>3. server' \in Projects!List
    BY <1>0, <1>17, <2>2 DEF Projects!Serve, Projects!Refuse, Projects!Listing, Projects!Gate, Projects!List
  <2>4. PICK x, y : /\ calls' = (calls \ {c}) \cup {Answering(c, x, y)}
                    /\ c.op = "list" /\ c.value = "latest" /\ x = "ok" => y \in Projects!List
                    /\ x = "warn" => c.op = "advance" /\ y \in Gate
    <3>1. ASSUME Projects!Refused(c, None)
          PROVE  calls' = (calls \ {c}) \cup {Answering(c, "no", None)}
      BY <3>1 DEF Projects!Refused, Projects!Replace, Answering
    <3>2. CASE Projects!Refuse(c)
      <4>1. calls' = (calls \ {c}) \cup {Answering(c, "no", None)}
        BY <3>1, <3>2 DEF Projects!Refuse, Projects!Fault
      <4> QED
        BY <4>1
    <3>3. CASE c.op # "list" /\ \E y : Projects!Answered(c, y)
      <4>1. PICK y : calls' = (calls \ {c}) \cup {Answering(c, "ok", y)}
        BY <3>3, Zenon DEF Projects!Answered, Projects!Replace, Answering
      <4> QED
        BY <3>3, <4>1
    <3>4. CASE Projects!Listing(c, server)
      <4>1. PICK y : y = IF Projects!Latest(c) THEN server ELSE None
        OBVIOUS
      <4>2. calls' = (calls \ {c}) \cup {Answering(c, "ok", y)}
        BY <3>4, <4>1 DEF Projects!Listing, Projects!Answered, Projects!Replace, Answering
      <4> QED
        BY <1>0, <4>1, <4>2 DEF Projects!Latest
    <3>5. CASE Projects!Gate(c) /\ ~Projects!Missing(c)
      <4>1. PICK y : y = [item |-> c.item, from |-> server[c.item], to |-> server[c.item] + 1]
        BY Zenon
      <4>2. c.op = "advance" /\ y \in Gate
        BY <2>0, <2>1, <3>5, <4>1 DEF Projects!Gate, Gate
      <4>3. calls' = (calls \ {c}) \cup {Answering(c, "warn", y)}
        BY <3>5, <4>1 DEF Projects!Gate, Projects!Replace, Answering
      <4> QED
        BY <4>2, <4>3
    <3> QED
      BY <1>17, <3>2, <3>3, <3>4, <3>5 DEF Projects!Serve
  <2>5. PICK e : e = Answering(c, x, y)
    OBVIOUS
  <2>6. /\ IsCall(e) /\ e.op = c.op /\ e.item = c.item /\ e.value = c.value /\ e.prev = c.prev
        /\ e.at = x /\ e.answer = y
    BY <1>0, <2>5, Zenon DEF Asking, Answering, IsCall, CallFields
  <2>7. ui' = ui
    BY <1>17 DEF Projects!Serve, Projects!Refuse
  <2>8. Asking(calls', ProjectAsks, Projects!List) /\ \A d \in calls' : AsksBack(d)
    BY <1>15, <2>4, <2>5, <2>6 DEF Arrived
  <2> QED
    BY <1>0, <1>11, <2>3, <2>7, <2>8
<1> QED
  BY <1>6, <1>7, <1>8, <1>d, <1>9, <1>10, <1>12, <1>13, <1>14, <1>16, <1>17 DEF Projects!Next, Projects!User

-----------------------------------------------------------------------------
(* Types: the managers                                                     *)

LEMMA RecordsTypesStart == Lookups!Init => RecordsTyped
<1> SUFFICES ASSUME Lookups!Init PROVE RecordsTyped
  OBVIOUS
<1>1. server \in Lookups!List /\ ui \in Lookups!Ui
  BY DEF Lookups!Init, Lookups!List, Lookups!Doc, Lookups!Drive, Lookups!Ui
<1>2. Asking({}, RecordAsks, Lookups!List) /\ <<"list", None, "latest">> \in RecordAsks
  BY DEF Asking, RecordAsks
<1>3. calls = {Call(None, None, None, "list", "latest", None)}
  BY DEF Lookups!Init, Lookups!Fetch, Lookups!Call, Call
<1>4. Looked(calls)
  BY <1>3, NewCall DEF Looked
<1>5. Asking(calls, RecordAsks, Lookups!List)
  BY <1>2, <1>3, AskingMore
<1> QED
  BY <1>1, <1>4, <1>5 DEF RecordsTyped

LEMMA RecordsTypes == made \in Nat /\ RecordsTyped /\ Lookups!Next => RecordsTyped'
<1> SUFFICES ASSUME made \in Nat, RecordsTyped, Lookups!Next PROVE RecordsTyped'
  OBVIOUS
<1> USE DEF Lookups!Call, Call, Lookups!Fetch, Fetch
<1>0. server \in Lookups!List /\ ui \in Lookups!Ui /\ Asking(calls, RecordAsks, Lookups!List) /\ Looked(calls)
  BY DEF RecordsTyped
<1> USE <1>0
<1>1. ASSUME ui' \in Lookups!Ui, UNCHANGED server, calls' \subseteq calls PROVE RecordsTyped'
  BY <1>1, AskingFewer DEF RecordsTyped, Looked
<1>2. ASSUME ui' \in Lookups!Ui, UNCHANGED server, NEW item, NEW op, NEW value, <<op, item, value>> \in RecordAsks,
             calls' = calls \cup {Call(made, 0, item, op, value, None)}
      PROVE  RecordsTyped'
  <2> USE <1>2
  <2>1. Call(made, 0, item, op, value, None).at = "out"
    OBVIOUS
  <2>2. Looked(calls')
    BY <2>1 DEF Looked
  <2>3. Asking(calls', RecordAsks, Lookups!List)
    BY AskingMore
  <2> QED
    BY <2>2, <2>3 DEF RecordsTyped
<1>3. ASSUME ui' \in Lookups!Ui, UNCHANGED server, NEW S \in SUBSET calls, calls' = Lookups!Refetching(S)
      PROVE  RecordsTyped'
  <2>1. /\ <<"list", None, "latest">> \in RecordAsks
        /\ \A c \in calls : c.op = "list" => <<"list", c.item, "overtaken">> \in RecordAsks
    BY Zenon DEF RecordAsks, Asking
  <2>2. \A e \in calls' : e = Fetch(None) \/ e \in calls \/ \E c \in calls : c.op = "list" /\ e = Late(c)
    BY <1>3, Zenon DEF Lookups!Refetching, Lookups!Overtaken, Late
  <2>3. Asking(calls', RecordAsks, Lookups!List)
    BY <2>1, <2>2, AskingAgain
  <2>4. \A c \in calls : c.op = "list" => Late(c).op = "list"
    BY DEF Asking, Late, IsCall, CallFields
  <2>5. Looked(calls')
    BY <2>2, <2>4 DEF Looked
  <2> QED
    BY <1>3, <2>3, <2>5 DEF RecordsTyped
<1>4. Lookups!Closed(ui) \in Lookups!Ui
  BY Zenon DEF Lookups!Closed, Lookups!Ui, Lookups!Drive
<1>5. ASSUME \/ Lookups!OpenNew \/ Lookups!CloseForm \/ Lookups!CancelDelete
             \/ \E i \in Item : Lookups!OpenDelete(i)
             \/ \E v \in Value : Lookups!TypeMain(v)
             \/ \E d \in {"typed", None} : Lookups!TypeDrive(d)
      PROVE  RecordsTyped'
  <2>1. ui' \in Lookups!Ui
    <3>1. CASE Lookups!CloseForm
      BY <1>4, <3>1 DEF Lookups!CloseForm
    <3>2. CASE Lookups!OpenNew
      BY <3>2, Zenon DEF Lookups!OpenNew, Lookups!Opens, Lookups!Ui, Lookups!Drive
    <3>3. CASE Lookups!CancelDelete \/ \E i \in Item : Lookups!OpenDelete(i)
      BY <3>3 DEF Lookups!CancelDelete, Lookups!OpenDelete, Lookups!Ui
    <3>4. CASE \E v \in Value : Lookups!TypeMain(v)
      BY <3>4 DEF Lookups!TypeMain, Lookups!Ui
    <3>5. ASSUME NEW d \in {"typed", None}, Lookups!TypeDrive(d) PROVE ui' \in Lookups!Ui
      <4>1. PICK b \in BOOLEAN : b = (d # None)
        BY Zenon
      <4>2. ui' = [ui EXCEPT !.drive = d, !.touched = b, !.warned = FALSE] /\ d \in Lookups!Drive
        BY <3>5, <4>1 DEF Lookups!TypeDrive, Lookups!Drive
      <4> QED
        BY <4>2, Zenon DEF Lookups!Ui
    <3> QED
      BY <1>5, <3>1, <3>2, <3>3, <3>4, <3>5
  <2> QED
    BY <1>1, <1>5, <2>1 DEF Lookups!OpenNew, Lookups!Opens, Lookups!CloseForm, Lookups!CancelDelete,
       Lookups!OpenDelete, Lookups!TypeMain, Lookups!TypeDrive
<1>6. ASSUME NEW i \in Item, Lookups!OpenEdit(i) PROVE RecordsTyped'
  <2> USE <1>6
  <2>1. ui.shown[i] \in Lookups!Doc
    BY DEF Lookups!OpenEdit, Lookups!Listed, Lookups!Ui, Lookups!List
  <2>2. ui.shown[i].main \in Value /\ ui.shown[i].drive \in Lookups!Drive
    BY <2>1 DEF Lookups!Doc
  <2>3. ui' \in Lookups!Ui
    BY <2>2, Zenon DEF Lookups!OpenEdit, Lookups!Opens, Lookups!Ui
  <2> QED
    BY <1>1, <2>3 DEF Lookups!OpenEdit, Lookups!Opens
<1>7. ASSUME Lookups!Retry PROVE RecordsTyped'
  BY <1>3, <1>7 DEF Lookups!Retry
<1>8. ASSUME NEW v \in Value, Lookups!SelectPlace(v) PROVE RecordsTyped'
  <2>1. ui' \in Lookups!Ui /\ <<"drive", None, v>> \in RecordAsks
    BY <1>8, Zenon DEF Lookups!SelectPlace, Lookups!Ui, RecordAsks
  <2> QED
    BY <1>1, <1>2, <1>8, <2>1 DEF Lookups!SelectPlace, Lookups!Start
<1>9. ASSUME Lookups!Submit \/ Lookups!Delete PROVE RecordsTyped'
  <2>1. ui' \in Lookups!Ui
    BY <1>9, Zenon DEF Lookups!Submit, Lookups!Delete, Lookups!Ui
  <2>2. CASE Lookups!Submit
    <3>1. PICK doc : doc = [main |-> ui.main, drive |-> ui.drive]
      BY Zenon
    <3>2. doc \in Lookups!Doc /\ ui.editing \in Item \cup {None}
      BY <2>2, <3>1 DEF Lookups!Submit, Lookups!Ui, Lookups!Doc
    <3>3. <<"save", ui.editing, doc>> \in RecordAsks
      BY <3>2 DEF RecordAsks
    <3> QED
      BY <1>2, <2>1, <2>2, <3>1, <3>3 DEF Lookups!Submit, Lookups!Start
  <2>3. CASE Lookups!Delete
    <3>1. <<"delete", ui.target, None>> \in RecordAsks
      BY <2>3 DEF Lookups!Delete, Lookups!Ui, RecordAsks
    <3> QED
      BY <1>2, <2>1, <2>3, <3>1 DEF Lookups!Delete, Lookups!Start
  <2> QED
    BY <1>9, <2>2, <2>3
<1>10. ASSUME NEW c \in calls, Lookups!DriveAnswered(c) PROVE RecordsTyped'
  <2>1. PICK b \in BOOLEAN : b = (ui.warned \/ (c.at = "no" /\ ui.open))
    BY Zenon
  <2>2. ui' \in {[ui EXCEPT !.drive = d, !.warned = b, !.lookup = FALSE] : d \in Value \cup {ui.drive}}
    BY <1>10, <2>1, Zenon DEF Lookups!DriveAnswered, Looked
  <2>3. ui' \in Lookups!Ui
    BY <2>2, Zenon DEF Lookups!Ui, Lookups!Drive
  <2> QED
    BY <1>1, <1>10, <2>3 DEF Lookups!DriveAnswered, Lookups!Ends
<1>11. ASSUME NEW c \in calls, \/ Lookups!SaveFails(c) \/ Lookups!DeleteFails(c) \/ Lookups!Saved(c)
                               \/ Lookups!Deleted(c) \/ Lookups!Arrives(c) \/ Lookups!ListFails(c)
       PROVE  RecordsTyped'
  <2>1. Lookups!Latest(c) /\ c.at = "ok" => c.answer \in Lookups!List
    BY Zenon DEF Lookups!Latest, Asking, Arrived
  <2>2. Lookups!Asked(c) \in Lookups!Ui
    BY DEF Lookups!Asked, Lookups!Ui
  <2>3. ui' \in Lookups!Ui
    <3>1. CASE Lookups!Saved(c)
      <4>1. \A u \in Lookups!Ui : [u EXCEPT !.saving = FALSE] \in Lookups!Ui
        BY Zenon DEF Lookups!Ui
      <4> QED
        BY <1>4, <3>1, <4>1 DEF Lookups!Saved
    <3>2. CASE Lookups!Deleted(c) \/ Lookups!DeleteFails(c)
      BY <2>2, <3>2 DEF Lookups!Deleted, Lookups!DeleteFails
    <3>3. CASE Lookups!SaveFails(c) \/ Lookups!Arrives(c) \/ Lookups!ListFails(c)
      BY <2>1, <3>3, Zenon DEF Lookups!SaveFails, Lookups!Arrives, Lookups!Fills, Lookups!ListArrives,
         Lookups!ListFails, Lookups!Ui
    <3> QED
      BY <1>11, <3>1, <3>2, <3>3
  <2> QED
    BY <1>1, <1>3, <1>11, <2>3 DEF Lookups!SaveFails, Lookups!DeleteFails, Lookups!Saved, Lookups!Deleted,
       Lookups!Arrives, Lookups!ListArrives, Lookups!ListFails, Lookups!Ends, Lookups!EndsAndFetches
<1>12. ASSUME NEW c \in calls, Lookups!Serve(c) \/ Lookups!Refuse(c) PROVE RecordsTyped'
  <2>1. /\ c.op = "save" => c.value \in Lookups!Doc
        /\ c.op = "drive" => c.value \in Value
    BY Zenon DEF Asking, RecordAsks
  <2>2. server' \in Lookups!List /\ ui' = ui
    BY <1>12, <2>1 DEF Lookups!Serve, Lookups!Refuse, Lookups!Listing, Lookups!Written, Lookups!List
  <2>3. PICK x, y : /\ calls' = (calls \ {c}) \cup {Answering(c, x, y)}
                    /\ c.op = "list" /\ c.value = "latest" /\ x = "ok" => y \in Lookups!List
                    /\ c.op = "drive" /\ x = "ok" => y \in Value
    <3>1. CASE Lookups!Refuse(c)
      <4>1. calls' = (calls \ {c}) \cup {Answering(c, "no", None)}
        BY <3>1 DEF Lookups!Refuse, Lookups!Refused, Lookups!Fault, Lookups!Replace, Answering
      <4> QED
        BY <4>1
    <3>2. CASE Lookups!Serve(c)
      <4>1. CASE Lookups!Listing(c, server)
        BY <4>1, Zenon DEF Lookups!Listing, Lookups!Latest, Lookups!Answered, Lookups!Replace, Answering
      <4>2. CASE c.op = "drive" /\ Lookups!Answered(c, c.value)
        BY <2>1, <4>2, Zenon DEF Lookups!Answered, Lookups!Replace, Answering
      <4>3. CASE c.op \in {"save", "delete"} /\ Lookups!Answered(c, None)
        BY <4>3, Zenon DEF Lookups!Answered, Lookups!Replace, Answering
      <4> QED
        BY <3>2, <4>1, <4>2, <4>3 DEF Lookups!Serve
    <3> QED
      BY <1>12, <3>1, <3>2
  <2>4. PICK d : d = Answering(c, x, y)
    OBVIOUS
  <2> USE <2>4
  <2>5. Asking(calls', RecordAsks, Lookups!List)
    BY <2>3, AskingStill, Zenon DEF Answering
  <2>6. d.op = c.op /\ d.at = x /\ d.answer = y
    BY DEF Asking, Answering, IsCall, CallFields
  <2>7. Looked(calls')
    BY <2>3, <2>6 DEF Looked
  <2> QED
    BY <2>2, <2>5, <2>7 DEF RecordsTyped
<1> QED
  BY <1>5, <1>6, <1>7, <1>8, <1>9, <1>10, <1>11, <1>12 DEF Lookups!Next, Lookups!User

-----------------------------------------------------------------------------
(* Types: the accounts                                                     *)

LEMMA ShelvesTyped ==
  ASSUME NEW accounts \in [Item -> Accounts!Account] PROVE Accounts!Contents(accounts) \in Accounts!Shelves
<1>1. \A i \in Item : accounts[i].state \in Accounts!State
  BY DEF Accounts!Account
<1> QED
  BY <1>1 DEF Accounts!Contents, Accounts!Shelves

LEMMA AccountsTypesStart == Accounts!Init => AccountsTyped
<1> SUFFICES ASSUME Accounts!Init PROVE AccountsTyped
  OBVIOUS
<1>1. server \in [Item -> Accounts!Account]
  <2>1. \A s \in {"none", "pending", "viewer"} :
          [state |-> s, locked |-> s = "viewer", devices |-> TRUE] \in Accounts!Account
    <3>1. ASSUME NEW s \in {"none", "pending", "viewer"}
          PROVE  [state |-> s, locked |-> s = "viewer", devices |-> TRUE] \in Accounts!Account
      <4>1. PICK b \in BOOLEAN : b = (s = "viewer")
        BY Zenon
      <4>2. [state |-> s, locked |-> b, devices |-> TRUE] \in Accounts!Account
        BY DEF Accounts!Account, Accounts!State
      <4> QED
        BY <4>1, <4>2
    <3> QED
      BY <3>1, Zenon
  <2>2. PICK S : S = {[state |-> s, locked |-> s = "viewer", devices |-> TRUE] :
                      s \in {"none", "pending", "viewer"}}
    BY Zenon
  <2>3. server \in [Item -> S]
    BY <2>2, Zenon DEF Accounts!Init
  <2>4. \A a \in S : a \in Accounts!Account
    BY <2>1, <2>2, Zenon
  <2> QED
    BY <2>3, <2>4
<1>2. ui \in Accounts!Ui
  BY <1>1, ShelvesTyped DEF Accounts!Init, Accounts!Ui
<1> QED
  BY <1>1, <1>2 DEF Accounts!Init, AccountsTyped

LEMMA AccountsTypes == made \in Nat /\ UsersShow /\ UsersTyped /\ AccountsTyped /\ Accounts!Next => AccountsTyped'
<1> SUFFICES ASSUME made \in Nat, UsersShow, UsersTyped, AccountsTyped, Accounts!Next PROVE AccountsTyped'
  OBVIOUS
<1> USE DEF Accounts!Call, Call
<1>0. /\ server \in [Item -> Accounts!Account] /\ ui \in Accounts!Ui /\ \A c \in calls : Brings(c)
      /\ \A c \in calls : IsCall(c) /\ UserCall(c)
  BY DEF AccountsTyped, UsersShow, UsersTyped, AreCalls
<1>1. ASSUME ui' \in Accounts!Ui, UNCHANGED server,
             \A e \in calls' : e \in calls \/ \E l : e = Accounts!Fetches(l)
      PROVE  AccountsTyped'
  <2>1. \A l : Brings(Accounts!Fetches(l))
    BY NewCall DEF Brings, Accounts!Fetches
  <2> QED
    BY <1>0, <1>1, <2>1 DEF AccountsTyped
<1>2. ASSUME ui' \in Accounts!Ui, UNCHANGED server, NEW i, NEW op, NEW value, Accounts!Start(0, i, op, value, None)
      PROVE  AccountsTyped'
  <2>1. Brings(Call(made, 0, i, op, value, None))
    BY NewCall DEF Brings
  <2> QED
    BY <1>0, <1>2, <2>1 DEF AccountsTyped, Accounts!Start
<1>3. ASSUME \/ Accounts!CancelDelete \/ Accounts!OpenInvite \/ Accounts!CloseInvite \/ Accounts!CloseSessions
             \/ \E i \in Item : Accounts!RequestDelete(i) \/ Accounts!TypeEmail(i)
      PROVE  AccountsTyped'
  <2>1. ui' \in Accounts!Ui
    BY <1>0, <1>3, Zenon DEF Accounts!CancelDelete, Accounts!OpenInvite, Accounts!CloseInvite, Accounts!CloseSessions,
       Accounts!RequestDelete, Accounts!TypeEmail, Accounts!Ui
  <2> QED
    BY <1>1, <1>3, <2>1 DEF Accounts!CancelDelete, Accounts!OpenInvite, Accounts!CloseInvite,
       Accounts!CloseSessions, Accounts!RequestDelete, Accounts!TypeEmail
<1>4. ASSUME \/ Accounts!ConfirmDelete \/ Accounts!Invite \/ Accounts!RevokeSessions
             \/ \E i \in Item : \/ \E op \in {"approve", "reject"} : Accounts!Decide(i, op)
                                \/ \E role \in {"viewer", "admin"} : Accounts!ChangeRole(i, role)
                                \/ Accounts!RevokeInvitation(i) \/ Accounts!ClearLockout(i)
                                \/ Accounts!OpenSessions(i)
      PROVE  AccountsTyped'
  <2>1. ui' \in Accounts!Ui /\ UNCHANGED server
    BY <1>0, <1>4, Zenon DEF Accounts!ConfirmDelete, Accounts!Invite, Accounts!RevokeSessions, Accounts!Decide,
       Accounts!ChangeRole, Accounts!RevokeInvitation, Accounts!ClearLockout, Accounts!OpenSessions,
       Accounts!Act, Accounts!Ui
  <2>2. \E i, op, value : Accounts!Start(0, i, op, value, None)
    BY <1>4, Zenon DEF Accounts!ConfirmDelete, Accounts!Invite, Accounts!RevokeSessions, Accounts!Decide,
       Accounts!ChangeRole, Accounts!RevokeInvitation, Accounts!ClearLockout, Accounts!OpenSessions, Accounts!Act
  <2> QED
    BY <1>2, <2>1, <2>2
<1>5. ASSUME NEW c \in calls,
             \/ Accounts!Acted(c) \/ Accounts!Invited(c) \/ Accounts!InviteFails(c) \/ Accounts!Cleared(c)
             \/ Accounts!SessionsArrive(c) \/ Accounts!Revoked(c)
      PROVE  AccountsTyped'
  <2>1. c.op = "sessions" /\ c.at = "ok" => c.answer \in Item \cup {None}
    BY <1>0 DEF Brings
  <2>2. c.op = "invite" => c.item \in Item
    BY <1>0 DEF UserCall
  <2>3. ui' \in Accounts!Ui
    BY <1>0, <1>5, <2>1, <2>2, Zenon DEF Accounts!Acted, Accounts!Invited, Accounts!InviteFails, Accounts!Cleared,
       Accounts!SessionsArrive, Accounts!Revoked, Accounts!Ui
  <2>4. server' = server /\ \A e \in calls' : e \in calls \/ \E l : e = Accounts!Fetches(l)
    BY <1>5 DEF Accounts!Acted, Accounts!Invited, Accounts!InviteFails, Accounts!Cleared,
       Accounts!SessionsArrive, Accounts!Revoked, Accounts!Ends, Accounts!EndsAndFetches
  <2> QED
    BY <1>1, <2>3, <2>4
<1>6. ASSUME NEW c \in calls, Accounts!ListArrives(c) PROVE AccountsTyped'
  <2> USE <1>6
  <2>1. c.item \in Accounts!Lists /\ ui.lists \in Accounts!Shelves /\ ui.failed \in SUBSET Accounts!Lists
    BY <1>0 DEF UserCall, Accounts!ListArrives, Accounts!Ui
  <2> USE <2>1
  <2>2. c.at = "ok" => [ui.lists EXCEPT ![c.item] = c.answer] \in Accounts!Shelves
    BY <1>0 DEF Brings, Accounts!ListArrives, Accounts!Shelves, Accounts!Lists
  <2>3. PICK lists, failed : /\ lists = IF c.at = "ok" THEN [ui.lists EXCEPT ![c.item] = c.answer] ELSE ui.lists
                             /\ failed = IF c.at = "ok" THEN ui.failed \ {c.item} ELSE ui.failed \cup {c.item}
    BY Zenon
  <2>4. lists \in Accounts!Shelves /\ failed \in SUBSET Accounts!Lists
    BY <2>2, <2>3
  <2>5. ui' = [ui EXCEPT !.lists = lists, !.failed = failed]
    BY <1>0, <2>3, Zenon DEF Accounts!ListArrives, Accounts!Ui, Accounts!Shelves
  <2>6. ui' \in Accounts!Ui
    BY <1>0, <2>4, <2>5, Zenon DEF Accounts!Ui
  <2> QED
    BY <1>1, <2>6 DEF Accounts!ListArrives, Accounts!Ends
<1>7. ASSUME NEW c \in calls, Accounts!Serve(c) \/ Accounts!Refuse(c) PROVE AccountsTyped'
  <2>1. /\ c.op # "list" => c.item \in Item
        /\ c.op = "list" => c.item \in Accounts!Lists
        /\ c.op = "role" => c.value \in {"viewer", "admin"}
        /\ c.op \in UserOps
    BY <1>0 DEF UserCall
  <2>2. server' \in [Item -> Accounts!Account]
    <3>1. CASE UNCHANGED server
      BY <1>0, <3>1
    <3>2. CASE server' = [server EXCEPT ![c.item] = Accounts!Write(@, c)] /\ c.op \notin {"list", "sessions"}
      <4>1. Accounts!Write(server[c.item], c) \in Accounts!Account
        BY <1>0, <2>1, <3>2, Zenon DEF UserOps, Accounts!Actions, Accounts!Write, Accounts!Account, Accounts!State
      <4> QED
        BY <1>0, <2>1, <3>2, <4>1
    <3> QED
      BY <1>7, <3>1, <3>2 DEF Accounts!Serve, Accounts!Refuse
  <2>3. PICK x, y : /\ calls' = (calls \ {c}) \cup {Answering(c, x, y)}
                    /\ x = "ok" /\ c.op = "list" => y = Accounts!Content(c.item)
                    /\ x = "ok" /\ c.op = "sessions" => y \in Item \cup {None}
    <3>1. CASE Accounts!Refuse(c)
      <4>1. calls' = (calls \ {c}) \cup {Answering(c, "no", None)}
        BY <3>1 DEF Accounts!Refuse, Accounts!Refused, Accounts!Fault, Accounts!Replace, Answering
      <4> QED
        BY <4>1
    <3>2. CASE Accounts!Serve(c)
      <4>1. PICK y : /\ Accounts!Answered(c, y)
                     /\ c.op = "list" => y = Accounts!Content(c.item)
                     /\ c.op = "sessions" => y \in {c.item, None}
        BY <3>2 DEF Accounts!Serve
      <4>2. calls' = (calls \ {c}) \cup {Answering(c, "ok", y)}
        BY <4>1 DEF Accounts!Answered, Accounts!Replace, Answering
      <4> QED
        BY <2>1, <4>1, <4>2
    <3> QED
      BY <1>7, <3>1, <3>2
  <2>4. PICK e : e = Answering(c, x, y)
    OBVIOUS
  <2>5. e.op = c.op /\ e.item = c.item /\ e.at = x /\ e.answer = y
    BY <1>0, <2>4 DEF Answering, IsCall, CallFields
  <2>6. \A l \in Accounts!Lists :
          Accounts!Content(l) \in CASE l = "users" -> [Item -> Accounts!State \cup {None}] [] OTHER -> SUBSET Item
    BY <1>0, ShelvesTyped DEF Accounts!Content, Accounts!Shelves, Accounts!Lists
  <2>7. Brings(e)
    BY <2>1, <2>3, <2>5, <2>6 DEF Brings
  <2>8. ui' = ui
    BY <1>7 DEF Accounts!Serve, Accounts!Refuse
  <2> QED
    BY <1>0, <2>2, <2>3, <2>4, <2>7, <2>8 DEF AccountsTyped
<1> QED
  BY <1>3, <1>4, <1>5, <1>6, <1>7 DEF Accounts!Next, Accounts!User

-----------------------------------------------------------------------------
(* Types: the import                                                       *)

LEMMA ImportTypesStart == Csv!Init => ImportTyped
<1> SUFFICES ASSUME Csv!Init PROVE ImportTyped
  OBVIOUS
<1>1. Commits(calls) = {} /\ IsFiniteSet({}) /\ Cardinality({}) = 0
  BY FS_EmptySet DEF Csv!Init, Commits
<1> QED
  BY <1>1 DEF Csv!Init, Csv!Fresh, ImportUi, ImportTyped, ImportCounts

LEMMA ImportTypes == made \in Nat /\ ImportTyped /\ Csv!Next => ImportTyped'
<1> SUFFICES ASSUME made \in Nat, ImportTyped, Csv!Next PROVE ImportTyped'
  OBVIOUS
<1>0. /\ server \in [valid : SUBSET Item, imported : [Item -> Nat]] /\ ui \in ImportUi
      /\ \A c \in calls : IsCall(c) /\ c.op \in {"preview", "commit"} /\ c.item \in Item
  BY DEF ImportTyped
<1>1. /\ IsFiniteSet(calls) /\ IsFiniteSet(Commits(calls)) /\ Cardinality(Commits(calls)) \in Nat
      /\ \A i \in Item : server.imported[i] \in Nat /\ server.imported[i] + Cardinality(Commits(calls)) <= made
  BY <1>0, FS_Subset, FS_CardinalityType DEF ImportTyped, ImportCounts, Commits
<1>2. ASSUME ui' \in ImportUi, UNCHANGED <<server, made>>, calls' \subseteq calls PROVE ImportTyped'
  <2> USE <1>2
  <2>1. Commits(calls') \subseteq Commits(calls)
    BY DEF Commits
  <2>2. IsFiniteSet(calls') /\ Cardinality(Commits(calls')) \in Nat
        /\ Cardinality(Commits(calls')) <= Cardinality(Commits(calls))
    BY <1>1, <2>1, FS_Subset, FS_CardinalityType
  <2>3. ImportCounts(calls', server.imported, made)
    BY <1>1, <2>2 DEF ImportCounts
  <2> QED
    BY <1>0, <2>2, <2>3 DEF ImportTyped
<1>3. ASSUME Csv!OpenDialog \/ Csv!CloseDialog \/ Csv!ChangeFile \/ \E i \in Item : Csv!SelectFile(i)
      PROVE  ImportTyped'
  <2>1. CASE Csv!OpenDialog
    BY <1>0, <1>2, <2>1 DEF Csv!OpenDialog, Csv!Fresh, ImportUi
  <2>2. ui' \in ImportUi \/ Csv!OpenDialog
    BY <1>0, <1>3, Zenon DEF Csv!CloseDialog, Csv!ChangeFile, Csv!SelectFile, ImportUi
  <2> QED
    BY <1>2, <1>3, <2>1, <2>2, Zenon DEF Csv!CloseDialog, Csv!ChangeFile, Csv!SelectFile
<1>4. ASSUME NEW c \in calls, Csv!Previewed(c) \/ Csv!PreviewFails(c) \/ Csv!Committed(c) \/ Csv!CommitFails(c)
      PROVE  ImportTyped'
  <2>1. ui' \in ImportUi
    BY <1>0, <1>4, Zenon DEF Csv!Previewed, Csv!PreviewFails, Csv!Committed, Csv!CommitFails, ImportUi
  <2> QED
    BY <1>2, <1>4, <2>1 DEF Csv!Previewed, Csv!PreviewFails, Csv!Committed, Csv!CommitFails, Csv!Ends
<1>5. ASSUME Csv!Preview \/ Csv!Commit PROVE ImportTyped'
  <2>1. ui' \in ImportUi /\ UNCHANGED server /\ made' = made + 1
    BY <1>0, <1>5, Zenon DEF Csv!Preview, Csv!Commit, Csv!Start, Csv!Counts, ImportUi
  <2>6. PICK op \in {"preview", "commit"}, i \in Item :
           calls' = calls \cup {Call(made, ui.inst, i, op, None, None)}
    BY <1>0, <1>5 DEF Csv!Preview, Csv!Commit, Csv!Start, Csv!Call, Call, ImportUi
  <2>2. PICK c : calls' = calls \cup {c} /\ IsCall(c) /\ c.op = op /\ c.item = i
    BY <2>6, NewCall
  <2>3. Commits(calls') \subseteq Commits(calls) \cup {c}
    BY <2>2 DEF Commits
  <2>4. /\ IsFiniteSet(calls') /\ Cardinality(Commits(calls')) \in Nat
        /\ Cardinality(Commits(calls')) <= Cardinality(Commits(calls)) + 1
    <3>1. PICK S : S = Commits(calls) \cup {c}
      BY Zenon
    <3>4. IsFiniteSet(S) /\ Cardinality(S) \in {Cardinality(Commits(calls)), Cardinality(Commits(calls)) + 1}
      BY <1>1, <3>1, FS_AddElement
    <3>3. IsFiniteSet(S) /\ Cardinality(S) <= Cardinality(Commits(calls)) + 1
      BY <1>1, <3>4
    <3>2. IsFiniteSet(calls')
      BY <1>1, <2>2, FS_AddElement
    <3> QED
      BY <1>1, <2>3, <3>1, <3>2, <3>3, FS_Subset, FS_CardinalityType
  <2>5. ImportCounts(calls', server.imported, made + 1)
    BY <1>1, <2>4 DEF ImportCounts
  <2> QED
    BY <1>0, <2>1, <2>2, <2>4, <2>5 DEF ImportTyped
<1>6. ASSUME NEW c \in calls, Csv!Serve(c) \/ Csv!Refuse(c) PROVE ImportTyped'
  <2>1. PICK x \in {"ok", "no"} : calls' = (calls \ {c}) \cup {Answering(c, x, None)}
    BY <1>6 DEF Csv!Serve, Csv!Refuse, Csv!Fault, Csv!Answered, Csv!Refused, Csv!Replace, Answering
  <2>6. PICK d : d = Answering(c, x, None)
    OBVIOUS
  <2>7. IsCall(d) /\ d.op = c.op /\ d.item = c.item /\ d.at = x
    BY <1>0, <2>6, ZenonT(30) DEF IsCall, CallFields, Answering
  <2>2. Commits(calls') = Commits(calls) \ {c} /\ c.at = "out" /\ calls' = (calls \ {c}) \cup {d}
    BY <1>6, <2>1, <2>6, <2>7 DEF Commits, Csv!Serve, Csv!Refuse
  <2> USE <2>2
  <2>3. /\ IsFiniteSet(calls') /\ Cardinality(Commits(calls')) \in Nat
        /\ c.op = "commit" => Cardinality(Commits(calls')) = Cardinality(Commits(calls)) - 1
        /\ Cardinality(Commits(calls')) <= Cardinality(Commits(calls))
    <3>1. IsFiniteSet(calls')
      BY <1>1, FS_AddElement, FS_RemoveElement, Zenon
    <3>2. IsFiniteSet(Commits(calls')) /\ Cardinality(Commits(calls')) \in Nat
      BY <1>1, FS_Subset, FS_CardinalityType
    <3>3. CASE c \in Commits(calls)
      BY <1>1, <3>1, <3>2, <3>3, FS_RemoveElement
    <3>4. CASE c \notin Commits(calls)
      <4>1. Commits(calls') = Commits(calls) /\ c.op # "commit"
        BY <3>4 DEF Commits
      <4> QED
        BY <1>1, <3>1, <4>1
    <3> QED
      BY <3>3, <3>4
  <2>4. /\ server' \in [valid : SUBSET Item, imported : [Item -> Nat]] /\ UNCHANGED <<ui, made>>
        /\ \A i \in Item : \/ server'.imported[i] = server.imported[i]
                           \/ c.op = "commit" /\ server'.imported[i] = server.imported[i] + 1
    BY <1>0, <1>6 DEF Csv!Serve, Csv!Refuse, Csv!Fault
  <2>5. ImportCounts(calls', server'.imported, made)
    BY <1>1, <2>3, <2>4 DEF ImportCounts
  <2> QED
    BY <1>0, <2>3, <2>4, <2>5, <2>7 DEF ImportTyped
<1> QED
  BY <1>3, <1>4, <1>5, <1>6 DEF Csv!Next

-----------------------------------------------------------------------------
(* Types: the inboxes                                                      *)

LEMMA PollTyped ==
  ASSUME NEW id, NEW quiet \in BOOLEAN, NEW c, c = Bell!Poll(id, quiet) PROVE IsCall(c) /\ InboxCall(c)
<1>1. PICK a : a = [pending |-> IF Bell!Portal THEN {"rows"} ELSE {"rows", "alerts"}, rows |-> None, alerts |-> None]
  BY Zenon
<1>2. PICK d : d = Call(id, 0, None, "poll", quiet, None)
  OBVIOUS
<1>3. IsCall(d) /\ d.item = None /\ d.op = "poll" /\ d.value = quiet
  BY <1>2, NewCall
<1>4. c = [d EXCEPT !.answer = a]
  BY <1>1, <1>2 DEF Bell!Poll, Bell!Call, Call
<1>5. IsCall(c) /\ c.item = None /\ c.op = "poll" /\ c.value = quiet /\ c.answer = a
  BY <1>3, <1>4 DEF IsCall, CallFields
<1> QED
  BY <1>1, <1>5 DEF InboxCall

LEMMA InboxTypesStart == Bell!Init => InboxTyped
<1> SUFFICES ASSUME Bell!Init PROVE InboxTyped
  OBVIOUS
<1>1. server \in InboxServer
  BY Zenon DEF Bell!Init, InboxServer
<1>2. ui \in InboxUi
  BY Zenon DEF Bell!Init, InboxUi, Bell!Row
<1> QED
  BY <1>1, <1>2, Zenon DEF Bell!Init, InboxTyped

LEMMA InboxTypes == InboxWaits /\ InboxKeeps /\ InboxTyped /\ Bell!Next => InboxTyped'
<1> SUFFICES ASSUME InboxWaits, InboxKeeps, InboxTyped, Bell!Next PROVE InboxTyped'
  OBVIOUS
<1> USE DEF Bell!Call, Call
<1>0. /\ server \in InboxServer /\ ui \in InboxUi /\ \A c \in calls : InboxCall(c)
      /\ \A c \in calls : IsCall(c) /\ InboxForm(c)
  BY DEF InboxTyped, InboxWaits, InboxKeeps, InboxForms, AreCalls
<1> USE <1>0
<1>1. PICK q \in BOOLEAN : q = (Bell!Writes = {})
  BY Zenon
<1>2. ASSUME server' \in InboxServer, ui' \in InboxUi, \A e \in calls' : e \in calls \/ InboxCall(e)
      PROVE  InboxTyped'
  BY <1>2 DEF InboxTyped
<1>3. ASSUME NEW e \in Bell!Disturb(calls) PROVE InboxCall(e)
  <2>1. PICK c \in calls : e = IF c.op = "poll" THEN [c EXCEPT !.value = FALSE] ELSE c
    BY <1>3 DEF Bell!Disturb
  <2>2. CASE c.op = "poll"
    BY <2>1, <2>2, Zenon DEF InboxCall, IsCall, CallFields
  <2> QED
    BY <2>1, <2>2
<1>4. ASSUME Bell!Bell \/ Bell!ClickElsewhere \/ Bell!Tick \/ Bell!Retry PROVE InboxTyped'
  <2>1. ui' \in InboxUi
    BY <1>4, Zenon DEF Bell!Bell, Bell!ClickElsewhere, Bell!Tick, Bell!Retry, InboxUi
  <2>2. server' = server /\ \A e \in calls' : e \in calls \/ e = Bell!Poll(made, q)
    BY <1>1, <1>4 DEF Bell!Bell, Bell!ClickElsewhere, Bell!Tick, Bell!Retry, Bell!Polling, Bell!Writes
  <2> QED
    BY <1>2, <2>1, <2>2, PollTyped
\* What the panel shows at once and sends.
<1>5. ASSUME NEW u \in InboxUi, NEW items, NEW op, Bell!Write(u, items, op),
             \/ items \in SUBSET Item /\ op \in {"read", "read each", "dismiss"}
             \/ items = {None} /\ op \in {"read all", "dismiss all"}
      PROVE  InboxTyped'
  <2>1. /\ ui' = u /\ server' = server
        /\ \A e \in calls' : e \in Bell!Disturb(calls) \/ \E i \in items : e = Call(made, 0, i, op, None, None)
    BY <1>5, Zenon DEF Bell!Write
  <2>2. \A i \in items : InboxCall(Call(made, 0, i, op, None, None))
    BY <1>5, NewCall, ZenonT(30) DEF InboxCall
  <2> QED
    BY <1>2, <1>3, <2>1, <2>2
<1>6. \A rows \in [Item -> Bell!Row] : \A which : Bell!Read(rows, which) \in [Item -> Bell!Row]
  BY DEF Bell!Read, Bell!Row
<1>7. ASSUME NEW rows \in [Item -> Bell!Row] PROVE [ui EXCEPT !.rows = rows] \in InboxUi
  BY DEF InboxUi
<1>8. ui.rows \in [Item -> Bell!Row]
  BY DEF InboxUi
<1>9. ASSUME NEW i \in Item, Bell!Click(i) \/ Bell!Dismiss(i) \/ Bell!HideAlert(i) PROVE InboxTyped'
  <2>1. CASE Bell!Click(i)
    <3>1. CASE ui.rows[i] = "unread"
      <4>1. PICK u \in InboxUi : u = [ui EXCEPT !.rows = Bell!Read(ui.rows, {i})]
        BY <1>6, <1>7, <1>8, Zenon
      <4>2. u = [ui EXCEPT !.rows = Bell!Read(@, {i})]
        BY <4>1 DEF InboxUi
      <4> QED
        BY <1>5, <2>1, <3>1, <4>2, Zenon DEF Bell!Click
    <3>2. CASE ui.rows[i] # "unread"
      BY <1>2, <2>1, <3>2, Zenon DEF Bell!Click, InboxUi
    <3> QED
      BY <3>1, <3>2
  <2>2. CASE Bell!Dismiss(i)
    <3>1. PICK rows \in [Item -> Bell!Row] : rows = [ui.rows EXCEPT ![i] = None]
      BY <1>8, Zenon DEF Bell!Row
    <3>2. PICK u \in InboxUi : u = [ui EXCEPT !.rows = rows]
      BY <1>7, Zenon
    <3>3. u = [ui EXCEPT !.rows[i] = None]
      BY <3>1, <3>2 DEF InboxUi
    <3> QED
      BY <1>5, <2>2, <3>3, Zenon DEF Bell!Dismiss
  <2>3. CASE Bell!HideAlert(i)
    BY <1>2, <2>3 DEF Bell!HideAlert, InboxUi
  <2> QED
    BY <1>9, <2>1, <2>2, <2>3
<1>10. ASSUME Bell!ReadAll PROVE InboxTyped'
  <2>1. PICK u \in InboxUi : u = [ui EXCEPT !.rows = Bell!Read(ui.rows, Item)]
    BY <1>6, <1>7, <1>8, Zenon
  <2>2. u = [ui EXCEPT !.rows = Bell!Read(@, Item)]
    BY <2>1 DEF InboxUi
  <2>3. Bell!Unread \in SUBSET Item
    BY DEF Bell!Unread
  <2> QED
    BY <1>5, <1>10, <2>2, <2>3, Zenon DEF Bell!ReadAll
<1>11. ASSUME Bell!DismissAll PROVE InboxTyped'
  <2>1. [ui EXCEPT !.rows = [i \in Item |-> None], !.hidden = ui.alerts] \in InboxUi
    BY Zenon DEF InboxUi, Bell!Row
  <2> QED
    BY <1>5, <1>11, <2>1, Zenon DEF Bell!DismissAll
<1>12. ASSUME NEW c \in calls, Bell!Polled(c) PROVE InboxTyped'
  <2> USE <1>12
  <2>1. c.answer.rows \in [Item -> Bell!Row] \cup {None} /\ c.answer.alerts \in (SUBSET Item) \cup {None}
    BY Zenon DEF Bell!Polled, InboxCall
  <2>2. PICK rows \in [Item -> Bell!Row], alerts \in SUBSET Item, b \in BOOLEAN :
          /\ rows = Bell!Or(c.answer.rows, ui.rows) /\ alerts = Bell!Or(c.answer.alerts, ui.alerts)
          /\ b = (c.answer.rows = None /\ c.answer.alerts = None)
    BY <2>1, Zenon DEF Bell!Or, InboxUi
  <2>3. ui' = [ui EXCEPT !.at = "ready", !.rows = rows, !.alerts = alerts, !.failed = b]
    BY <2>2 DEF Bell!Polled, InboxUi
  <2>4. ui' \in InboxUi
    BY <2>3, Zenon DEF InboxUi
  <2> QED
    BY <1>2, <2>4 DEF Bell!Polled, Bell!Ends
<1>13. ASSUME NEW c \in calls, Bell!Written(c) \/ Bell!WriteFails(c) PROVE InboxTyped'
  <2>1. ui' \in InboxUi /\ server' = server
    BY <1>13, Zenon DEF Bell!Written, Bell!WriteFails, InboxUi
  <2>2. PICK b \in BOOLEAN : b = (calls \ {c} \subseteq Bell!Polls)
    BY Zenon
  <2>3. \A e \in calls' : e \in calls \/ e = Bell!Poll(MaxCalls[page], b)
    BY <1>13, <2>2 DEF Bell!Written, Bell!WriteFails, Bell!Ends, Bell!Reload
  <2> QED
    BY <1>2, <2>1, <2>3, PollTyped
<1>14. ASSUME \/ \E i \in Item : Bell!Notify(i)
              \/ \E alerts \in SUBSET Item : Bell!Alert(alerts)
       PROVE  InboxTyped'
  <2>1. server' \in InboxServer /\ ui' = ui
    BY <1>14 DEF Bell!Notify, Bell!Alert, InboxServer
  <2>2. \A e \in calls' : e \in calls \/ e \in Bell!Disturb(calls)
    BY <1>14 DEF Bell!Notify, Bell!Alert
  <2> QED
    BY <1>2, <1>3, <2>1, <2>2
<1>15. ASSUME NEW c \in calls, Bell!PollServed(c) \/ Bell!PollFails(c) PROVE InboxTyped'
  <2>1. c.answer = [f \in PollFields |-> c.answer[f]] /\ InboxCall(c) /\ c.op = "poll" /\ IsCall(c)
    BY <1>15 DEF Bell!PollServed, Bell!PollFails, InboxForm
  <2>2. Bell!Rows \in [Item -> Bell!Row] /\ server.alerts \in SUBSET Item
    BY DEF Bell!Rows, Bell!Kept, Bell!Row, InboxServer
  <2>3. PICK a, d : /\ d = [c EXCEPT !.answer = a] /\ calls' = (calls \ {c}) \cup {d}
                    /\ a.rows \in {c.answer.rows, Bell!Rows} /\ a.alerts \in {c.answer.alerts, server.alerts}
    <3>1. CASE Bell!PollFails(c)
      <4>1. PICK a : a = [c.answer EXCEPT !.pending = {}]
        BY Zenon
      <4>2. [c EXCEPT !.answer.pending = {}] = [c EXCEPT !.answer = a]
        BY <2>1, <4>1 DEF IsCall, CallFields
      <4>3. a.rows = c.answer.rows /\ a.alerts = c.answer.alerts
        BY <2>1, <4>1 DEF PollFields
      <4> QED
        BY <3>1, <4>2, <4>3 DEF Bell!PollFails, Bell!Replace
    <3>2. CASE Bell!PollServed(c)
      <4>1. PICK p, s : /\ p = [c.answer EXCEPT !.rows = Bell!Rows, !.pending = @ \ {"rows"}]
                        /\ s = [c.answer EXCEPT !.alerts = server.alerts, !.pending = @ \ {"alerts"}]
        OBVIOUS
      <4>2. /\ [c EXCEPT !.answer.rows = Bell!Rows, !.answer.pending = @ \ {"rows"}] = [c EXCEPT !.answer = p]
            /\ [c EXCEPT !.answer.alerts = server.alerts, !.answer.pending = @ \ {"alerts"}] = [c EXCEPT !.answer = s]
        BY <2>1, <4>1, Zenon DEF IsCall, CallFields, PollFields
      <4>3. /\ p.rows = Bell!Rows /\ p.alerts = c.answer.alerts
            /\ s.rows = c.answer.rows /\ s.alerts = server.alerts
        BY <2>1, <4>1 DEF PollFields
      <4> QED
        BY <3>2, <4>2, <4>3 DEF Bell!PollServed, Bell!Replace
    <3> QED
      BY <1>15, <3>1, <3>2
  <2>4. InboxCall(d)
    BY <2>1, <2>2, <2>3, Zenon DEF InboxCall, IsCall, CallFields
  <2>5. ui' = ui /\ server' = server
    BY <1>15 DEF Bell!PollServed, Bell!PollFails
  <2> QED
    BY <1>2, <2>3, <2>4, <2>5
<1>16. ASSUME NEW c \in calls, Bell!Serve(c) \/ Bell!Refuse(c) PROVE InboxTyped'
  <2>1. PICK x, d : d = Answering(c, x, None) /\ calls' = (calls \ {c}) \cup {d} /\ c.op # "poll"
    BY <1>16, Zenon DEF Bell!Serve, Bell!Refuse, Bell!Answered, Bell!Fault, Bell!Refused, Bell!Replace, Answering
  <2>2. InboxCall(d)
    BY <2>1, Zenon DEF InboxCall, IsCall, CallFields, Answering
  <2>3. server' \in InboxServer /\ ui' = ui
    <3>1. CASE Bell!Refuse(c)
      BY <3>1 DEF Bell!Refuse
    <3>2. CASE Bell!Serve(c)
      <4>1. server.row \in [Item -> {None, "unread", "read", "dismissed"}]
        BY DEF InboxServer
      <4>2. c.op \in InboxOps
        BY <2>1, Zenon DEF InboxForm
      <4>3. PICK row : /\ server' = [server EXCEPT !.row = row]
                       /\ row = CASE c.op \in {"read", "read each"} -> Bell!Read(server.row, {c.item})
                                  [] c.op = "read all" -> Bell!Read(server.row, Item)
                                  [] c.op = "dismiss" -> [server.row EXCEPT ![c.item] = "dismissed"]
                                  [] c.op = "dismiss all" ->
                                       [i \in Item |-> IF server.row[i] \in Bell!Kept THEN "dismissed" ELSE server.row[i]]
        BY <3>2, Zenon DEF Bell!Serve, InboxServer
      <4>4. row \in [Item -> {None, "unread", "read", "dismissed"}]
        BY <4>1, <4>2, <4>3, Zenon DEF InboxOps, Bell!Read
      <4> QED
        BY <3>2, <4>3, <4>4, Zenon DEF Bell!Serve, InboxServer
    <3> QED
      BY <1>16, <3>1, <3>2
  <2> QED
    BY <1>2, <2>1, <2>2, <2>3
<1> QED
  BY <1>4, <1>9, <1>10, <1>11, <1>12, <1>13, <1>14, <1>15, <1>16 DEF Bell!Next

-----------------------------------------------------------------------------
(* Types: the settings                                                     *)

LEMMA NewSetting ==
  ASSUME NEW id, NEW inst, NEW item \in Item \cup {None}, NEW op, NEW value, NEW prev,
         op = "save" => value \in Value, op = "connect" => item \in Item
  PROVE  SettingCall(Call(id, inst, item, op, value, prev))
  BY NewCall DEF SettingCall

LEMMA SettingLoads ==
  ASSUME NEW inst, NEW ops, ops \subseteq {"employee", "again", "config", "prefs"}
  PROVE  \A c \in Personal!Loads(inst, ops) : SettingCall(c)
  BY NewSetting DEF Personal!Loads, Personal!Call, Call

LEMMA SettingsTypesStart == Personal!Init => SettingsTyped
<1> SUFFICES ASSUME Personal!Init PROVE SettingsTyped
  OBVIOUS
<1>1. server \in SettingsServer
  BY DEF Personal!Init, SettingsServer
<1>3. ui \in SettingsUi
  BY DEF Personal!Init, Personal!Loaded, SettingsUi
<1>2. \A c \in calls : SettingCall(c)
  BY SettingLoads DEF Personal!Init, Personal!AtMount
<1> QED
  BY <1>1, <1>2, <1>3 DEF SettingsTyped

LEMMA SettingsTypes == SettingsTyped /\ Personal!Next => SettingsTyped'
<1> SUFFICES ASSUME SettingsTyped, Personal!Next PROVE SettingsTyped'
  OBVIOUS
<1>0. server \in SettingsServer /\ ui \in SettingsUi /\ \A c \in calls : SettingCall(c)
  BY DEF SettingsTyped
<1>1. ASSUME ui' \in SettingsUi, UNCHANGED server, \A c \in calls' : c \in calls \/ SettingCall(c)
      PROVE  SettingsTyped'
  BY <1>0, <1>1 DEF SettingsTyped
<1>2. ASSUME Personal!TypePassword PROVE SettingsTyped'
  BY <1>0, <1>1, <1>2, Zenon DEF Personal!TypePassword, SettingsUi
<1>3. ASSUME \/ Personal!ChangePassword \/ \E i \in Item : Personal!Connect(i) \/ Personal!Disconnect(i)
             \/ \E p \in Value : Personal!ChangePrefs(p)
      PROVE  SettingsTyped'
  <2>1. ui' \in SettingsUi /\ UNCHANGED server
    BY <1>0, <1>3, Zenon DEF Personal!ChangePassword, Personal!Connect, Personal!Disconnect,
       Personal!ChangePrefs, SettingsUi
  <2>2. PICK op, item, value :
          /\ item \in Item \cup {None}
          /\ op = "save" => value \in Value
          /\ op = "connect" => item \in Item
          /\ calls' = calls \cup {Call(made, ui.inst, item, op, value, None)}
    BY <1>3, Zenon DEF Personal!ChangePassword, Personal!Connect, Personal!Disconnect, Personal!ChangePrefs,
       Personal!Start, Personal!Call, Call
  <2> QED
    BY <1>1, <2>1, <2>2, NewSetting
<1>4. ASSUME NEW c \in calls, Personal!EmployeeAnswered(c) \/ Personal!ConfigAnswered(c) PROVE SettingsTyped'
  <2>1. PICK b \in BOOLEAN : b = (ui.loading /\ c.op = "employee" /\ Personal!Waiting(ui.inst, {"config"}))
    BY Zenon
  <2>2. PICK d \in BOOLEAN : d = (ui.loading /\ Personal!Waiting(ui.inst, {"employee"}))
    BY Zenon
  <2>3. c.op \in {"employee", "again", "config"} /\ c.at = "ok" => c.answer \in SUBSET Item
    BY <1>0 DEF SettingCall
  <2>4. ASSUME Personal!EmployeeAnswered(c) PROVE ui' \in SettingsUi
    <3>1. PICK e \in (SUBSET Item) \cup {None} : e = IF c.at = "ok" THEN c.answer ELSE None
      BY <2>3, <2>4 DEF Personal!EmployeeAnswered
    <3>2. ui' \in {ui, [ui EXCEPT !.employee = e, !.loading = b]}
      BY <2>1, <2>4, <3>1 DEF Personal!EmployeeAnswered
    <3> QED
      BY <1>0, <3>2, Zenon DEF SettingsUi
  <2>5. ASSUME Personal!ConfigAnswered(c) PROVE ui' \in SettingsUi
    <3>1. ui' \in {ui, [ui EXCEPT !.loading = d], [ui EXCEPT !.offered = c.answer, !.loading = d]}
          /\ (ui' \in {ui, [ui EXCEPT !.loading = d]} \/ c.answer \in SUBSET Item)
      BY <1>0, <2>2, <2>3, <2>5, Zenon DEF Personal!ConfigAnswered, SettingsUi
    <3> QED
      BY <1>0, <3>1, Zenon DEF SettingsUi
  <2> QED
    BY <1>1, <1>4, <2>4, <2>5 DEF Personal!EmployeeAnswered, Personal!ConfigAnswered, Personal!Ends
<1>5. ASSUME NEW c \in calls, Personal!PrefsAnswered(c) \/ Personal!Saved(c) \/ Personal!PasswordChanged(c)
      PROVE  SettingsTyped'
  <2>1. PICK b \in BOOLEAN : b = (ui.password /\ c.at = "no")
    BY Zenon
  <2>2. ui' \in SettingsUi
    BY <1>0, <1>5, <2>1, ZenonT(30) DEF Personal!PrefsAnswered, Personal!Saved, Personal!PasswordChanged, SettingCall, SettingsUi
  <2> QED
    BY <1>1, <1>5, <2>2 DEF Personal!PrefsAnswered, Personal!Saved, Personal!PasswordChanged, Personal!Ends
<1>6. ASSUME NEW c \in calls, Personal!ConnectFails(c) \/ Personal!Disconnected(c) PROVE SettingsTyped'
  BY <1>0, <1>1, <1>6, SettingLoads DEF Personal!ConnectFails, Personal!Disconnected, Personal!Ends
<1>7. ASSUME NEW c \in calls, Personal!Connected(c) PROVE SettingsTyped'
  <2>1. server' \in SettingsServer
    BY <1>0, <1>7 DEF Personal!Connected, SettingCall, SettingsServer
  <2>4. PICK n \in Nat : n = ui.inst + 1
    BY <1>0 DEF SettingsUi
  <2>2. ui' \in SettingsUi
    <3>1. Personal!Loaded(n) \in SettingsUi
      BY DEF Personal!Loaded, SettingsUi
    <3> QED
      BY <1>0, <1>7, <2>4, <3>1 DEF Personal!Connected
  <2>3. \A d \in calls' : SettingCall(d)
    BY <1>0, <1>7, SettingLoads DEF Personal!Connected, Personal!Ends, Personal!AtMount
  <2> QED
    BY <2>1, <2>2, <2>3 DEF SettingsTyped
<1>8. ASSUME NEW c \in calls, Personal!Serve(c) PROVE SettingsTyped'
  <2>4. \/ server' \in {server, [server EXCEPT !.connected = @ \ {c.item}]}
        \/ c.op = "save" /\ server' = [server EXCEPT !.prefs = c.value]
    BY <1>8 DEF Personal!Serve
  <2>1. server' \in SettingsServer
    BY <1>0, <2>4 DEF SettingCall, SettingsServer
  <2>2. PICK y : /\ calls' = (calls \ {c}) \cup {Answering(c, "ok", y)}
                 /\ c.op \in {"employee", "again"} => y = server'.connected
                 /\ c.op = "config" => y = server'.offered
                 /\ c.op \in {"prefs", "save"} => y = server'.prefs
    BY <1>8, Zenon DEF Personal!Serve, Personal!Answered, Personal!Replace, Answering
  <2>3. SettingCall(Answering(c, "ok", y))
    BY <1>0, <2>1, <2>2, ZenonT(60) DEF SettingCall, SettingsServer, IsCall, CallFields, Answering
  <2> QED
    BY <1>0, <1>8, <2>1, <2>2, <2>3 DEF SettingsTyped, Personal!Serve
<1>9. ASSUME NEW c \in calls, Personal!Refuse(c) PROVE SettingsTyped'
  <2>1. SettingCall(Answering(c, "no", None))
    BY <1>0, Zenon DEF SettingCall, IsCall, CallFields, Answering
  <2> QED
    BY <1>0, <1>1, <1>9, <2>1 DEF Personal!Refuse, Personal!Fault, Personal!Refused, Personal!Replace, Answering
<1> QED
  BY <1>2, <1>3, <1>4, <1>5, <1>6, <1>7, <1>8, <1>9 DEF Personal!Next

-----------------------------------------------------------------------------
(* Types: the outcomes                                                     *)

LEMMA FunnelCounts == ASSUME NEW list PROVE Funnels!Funnel(list) \in Tallied
<1>1. ASSUME NEW s
      PROVE  Cardinality({i \in Item : list[i] = s}) \in 0..Cardinality(Item)
  <2>1. PICK S \in SUBSET Item : S = {i \in Item : list[i] = s}
    BY Zenon
  <2>2. Cardinality(S) \in Nat /\ Cardinality(Item) \in Nat /\ Cardinality(S) <= Cardinality(Item)
    BY <2>1, ItemsAreFinite, FS_Subset, FS_CardinalityType
  <2> QED
    BY <2>1, <2>2
<1>2. \A S : Funnels!Cardinality(S) = Cardinality(S)
  BY DEF Funnels!Cardinality, Cardinality
<1> QED
  BY <1>1, <1>2, Zenon DEF Funnels!Funnel, Tallied

LEMMA LoadTyped == ASSUME NEW n PROVE OutcomeCall(Funnels!Load(n, Funnels!Parts))
  BY LoadIsEmpty DEF OutcomeCall, Funnels!Parts

LEMMA OutcomesTypesStart == Funnels!Init => OutcomesTyped
<1> SUFFICES ASSUME Funnels!Init PROVE OutcomesTyped
  OBVIOUS
<1>1. server \in Funnels!List
  BY DEF Funnels!Init, Funnels!List, Funnels!Statuses, Funnels!Rank
<1>2. ui \in OutcomesUi
  BY DEF Funnels!Init, OutcomesUi
<1>3. \A c \in calls : OutcomeCall(c)
  BY LoadTyped DEF Funnels!Init
<1> QED
  BY <1>1, <1>2, <1>3 DEF OutcomesTyped

LEMMA OutcomesTypes == OutcomesShow /\ OutcomesKeep /\ OutcomesTyped /\ Funnels!Next => OutcomesTyped'
<1> SUFFICES ASSUME OutcomesShow, OutcomesKeep, OutcomesTyped, Funnels!Next PROVE OutcomesTyped'
  OBVIOUS
<1>0. /\ server \in Funnels!List /\ ui \in OutcomesUi
      /\ \A c \in calls : OutcomeCall(c) /\ IsCall(c)
  BY DEF OutcomesTyped, OutcomesShow, AreCalls
<1> USE <1>0
<1>1. ASSUME ui' \in OutcomesUi, UNCHANGED server, \A c \in calls' : c \in calls \/ OutcomeCall(c)
      PROVE  OutcomesTyped'
  BY <1>1 DEF OutcomesTyped
<1>2. DOMAIN Funnels!Rank \subseteq Funnels!Statuses /\ "attended" \in Funnels!Statuses
  BY DEF Funnels!Rank, Funnels!Statuses
<1>3. ASSUME \/ Funnels!CancelWarning \/ Funnels!ToggleQuick \/ Funnels!OpenBulk \/ Funnels!Preview
             \/ Funnels!BackToText \/ Funnels!CloseBulk
      PROVE  OutcomesTyped'
  <2>1. ui' \in OutcomesUi
    BY <1>3, Zenon DEF Funnels!CancelWarning, Funnels!ToggleQuick, Funnels!OpenBulk, Funnels!Preview,
       Funnels!BackToText, Funnels!CloseBulk, Funnels!Edits, OutcomesUi
  <2> QED
    BY <1>1, <1>3, <2>1 DEF Funnels!CancelWarning, Funnels!ToggleQuick, Funnels!OpenBulk, Funnels!Preview,
       Funnels!BackToText, Funnels!CloseBulk, Funnels!Edits
<1>4. ASSUME \/ Funnels!Confirm \/ Funnels!QuickAdd \/ Funnels!BulkAdd
             \/ \E i \in Item, s \in Funnels!Statuses : Funnels!Change(i, s)
      PROVE  OutcomesTyped'
  <2>1. ui' \in OutcomesUi /\ UNCHANGED server
    BY <1>4, Zenon DEF Funnels!Confirm, Funnels!QuickAdd, Funnels!BulkAdd, Funnels!Change, OutcomesUi
  <2>2. ui.warning # None => ui.warning.to \in Funnels!Statuses
    BY <1>2 DEF OutcomesUi, Funnels!Warning
  <2>3. PICK op, item, value, prev :
          /\ op \in {"put", "force"} => value \in Funnels!Statuses
          /\ op # "list" /\ calls' = calls \cup {Call(made, 0, item, op, value, prev)}
    BY <1>4, <2>2, Zenon DEF Funnels!Confirm, Funnels!QuickAdd, Funnels!BulkAdd, Funnels!Change, Funnels!Start,
       Funnels!Call, Call
  <2>4. OutcomeCall(Call(made, 0, item, op, value, prev))
    BY <2>3, NewCall DEF OutcomeCall
  <2> QED
    BY <1>1, <2>1, <2>3, <2>4
<1>5. ASSUME NEW c \in calls, Funnels!Warned(c) \/ Funnels!AddFails(c) \/ Funnels!LoadFails(c) PROVE OutcomesTyped'
  <2>1. c.at = "warn" => [item |-> c.item, from |-> c.answer, to |-> c.value] \in Funnels!Warning
    BY DEF OutcomesShow, IsChange, OutcomeCall, Funnels!Warning
  <2>2. ui' \in OutcomesUi
    BY <1>5, <2>1, Zenon DEF Funnels!Warned, Funnels!AddFails, Funnels!LoadFails, OutcomesUi
  <2> QED
    BY <1>1, <1>5, <2>2 DEF Funnels!Warned, Funnels!AddFails, Funnels!LoadFails, Funnels!Ends
<1>6. ASSUME NEW c \in calls, Funnels!Changed(c) \/ Funnels!ChangeFails(c) \/ Funnels!Added(c)
      PROVE  OutcomesTyped'
  <2> USE <1>6
  <2>1. PICK m, n \in Nat : m = ui.loads + 1 /\ n = ui.loads + 2
    BY DEF OutcomesUi
  <2>2. ui' \in OutcomesUi
    BY <2>1, Zenon DEF Funnels!Changed, Funnels!ChangeFails, Funnels!Added, OutcomesUi
  <2>3. \A e \in calls' : e \in calls \/ \E k : e = Funnels!Load(k, Funnels!Parts)
    BY DEF Funnels!Changed, Funnels!ChangeFails, Funnels!Added, Funnels!EndsAndLoads, Funnels!Ends
  <2> QED
    BY <1>1, <2>2, <2>3, LoadTyped DEF Funnels!Changed, Funnels!ChangeFails, Funnels!Added
<1>7. ASSUME NEW c \in calls, Funnels!Arrives(c) PROVE OutcomesTyped'
  <2> USE <1>7
  <2>1. /\ c.id \in Nat /\ BringsParts(c) /\ c.answer["rows"] \in Funnels!List
        /\ c.answer["funnel"] \in Tallied
    BY DEF OutcomesKeep, Full, Numbered, BringsParts, OutcomeCall, Funnels!Arrives, Funnels!Loaded
  <2>2. ui' \in OutcomesUi
    BY <2>1, Zenon DEF Funnels!Arrives, Funnels!Loaded, OutcomesUi
  <2> QED
    BY <1>1, <2>2 DEF Funnels!Arrives, Funnels!Loaded, Funnels!Ends
<1>8. ASSUME NEW d, OutcomeCall(d), NEW c \in calls, calls' = (calls \ {c}) \cup {d}, UNCHANGED ui,
             server' \in Funnels!List
      PROVE  OutcomesTyped'
  BY <1>8 DEF OutcomesTyped
<1>9. ASSUME NEW c \in calls, Funnels!Refuse(c) PROVE OutcomesTyped'
  <2>1. OutcomeCall(Answering(c, "no", None))
    BY DEF OutcomeCall, IsCall, CallFields, Answering
  <2> QED
    BY <1>8, <1>9, <2>1 DEF Funnels!Refuse, Funnels!Fault, Funnels!Refused, Funnels!Replace, Answering
<1>10. ASSUME NEW c \in calls, \/ Funnels!WriteStatus(c)
                               \/ Funnels!Insert(c) /\ UNCHANGED ui
       PROVE  OutcomesTyped'
  <2> USE <1>10
  <2>1. c.op # "list" /\ (c.at = "read" => c.item \in Item /\ c.value \in Funnels!Statuses)
    BY DEF OutcomesShow, IsChange, OutcomeCall, Funnels!WriteStatus, Funnels!Insert
  <2>2. server' \in Funnels!List
    BY <1>2, <2>1 DEF Funnels!WriteStatus, Funnels!Insert, Funnels!List
  <2>3. OutcomeCall(Answering(c, "ok", None))
    BY <2>1 DEF OutcomeCall, IsCall, CallFields, Answering
  <2> QED
    BY <1>8, <2>2, <2>3 DEF Funnels!WriteStatus, Funnels!Insert, Funnels!Answered, Funnels!Replace, Answering
<1>11. ASSUME NEW c \in calls, Funnels!ReadStatus(c), UNCHANGED ui PROVE OutcomesTyped'
  <2>1. /\ OutcomeCall(Reading(c, "read"))
        /\ Funnels!Backward(server[c.item], c.value) => OutcomeCall(Answering(c, "warn", server[c.item]))
    BY <1>11 DEF Funnels!ReadStatus, Funnels!Backward, OutcomeCall, IsCall, CallFields, Answering, Reading
  <2> QED
    BY <1>8, <1>11, <2>1 DEF Funnels!ReadStatus, Funnels!Replace, Answering, Reading
<1>12. ASSUME NEW c \in calls, c.at = "out", NEW part, NEW what, Funnels!ReadPart(c, part, what),
              \/ part = "rows" /\ what = server
              \/ part = "funnel" /\ what = Funnels!Funnel(server),
              UNCHANGED <<server, ui>>
       PROVE  OutcomesTyped'
  <2> USE <1>12
  <2>1. PICK got : got = [c.answer EXCEPT ![part] = what]
    BY Zenon
  <2>2. /\ got["rows"] \in Funnels!List \cup {None} /\ got["funnel"] \in Tallied \cup {None}
    BY <2>1, FunnelCounts DEF OutcomesKeep, Full, BringsParts, OutcomeCall, Funnels!ReadPart,
       Funnels!Parts
  <2>3. PICK x : calls' = (calls \ {c}) \cup {Filling(c, x, got)} /\ x \in {"out", "ok"}
    BY <2>1, Zenon DEF Funnels!ReadPart, Funnels!Replace, Filling
  <2>4. OutcomeCall(Filling(c, x, got))
    BY <2>2, <2>3 DEF OutcomeCall, IsCall, CallFields, Filling
  <2> QED
    BY <1>8, <2>3, <2>4
<1> QED
  BY <1>3, <1>4, <1>5, <1>6, <1>7, <1>9, <1>10, <1>11, <1>12
     DEF Funnels!Next, Funnels!User, Funnels!Serve, Funnels!ServeLoad

-----------------------------------------------------------------------------
(* Types: all pages                                                        *)

LEMMA CountedStarts == Init => page \in Pages /\ Counted
<1> SUFFICES ASSUME Init PROVE page \in Pages /\ Counted
  OBVIOUS
<1>1. page \in Pages /\ faults = 0 /\ clean \in BOOLEAN /\ (made = 0 \/ (made = 1 /\ page \in Figures))
  <2> USE DEF Pages, Figures
  <2> DEFINE Zero == page \in Pages /\ faults = 0 /\ clean \in BOOLEAN /\ made = 0
  <2>1. TaskPage!Init \/ Board!Init \/ Projects!Init \/ Lookups!Init => Zero
    BY Zenon DEF TaskPage!Init, Board!Init, Projects!Init, Lookups!Init
  <2>2. Hooks!Init \/ Form!Init \/ Wizard!Init => Zero
    BY Zenon DEF Hooks!Init, Form!Init, Wizard!Init
  <2>3. Accounts!Init => Zero
    BY Zenon DEF Accounts!Init
  <2>4. Browser!Init \/ Csv!Init \/ Bell!Init \/ Personal!Init \/ Calendar!Init => Zero
    BY Zenon DEF Browser!Init, Csv!Init, Bell!Init, Personal!Init, Calendar!Init
  <2>5. Funnels!Init \/ Promotion!Init \/ Threads!Init => Zero
    BY Zenon DEF Funnels!Init, Promotion!Init, Threads!Init
  <2>6. CASE Numbers!Init
    BY <2>6, Zenon DEF Numbers!Init
  <2>7. Zero \/ Numbers!Init
    BY <2>1, <2>2, <2>3, <2>4, <2>5, Zenon DEF Init
  <2> QED
    BY Zenon, <2>6, <2>7
<1>2. MaxCalls[page] \in Nat /\ MaxFaults \in Nat /\ (page \in Figures => MaxCalls[page] # 0)
  BY <1>1, BoundsAreNumbers, NumbersAreAsked
<1> QED
  BY <1>1, <1>2 DEF Counted

LEMMA TypesStart == Init => TypesInv
<1> SUFFICES ASSUME Init PROVE TypesInv
  OBVIOUS
<1>1. page = "wizard" => server = None
  BY StartsOn DEF Wizard!Init
<1> QED
  BY <1>1, CountedStarts, StartsOn, BoardTypesStart, ProjectsTypesStart, RecordsTypesStart,
     AccountsTypesStart, HooksTypesStart, ReportsTypesStart, FormTypesStart, ImportTypesStart,
     InboxTypesStart, SettingsTypesStart, DayStarts, OutcomesTypesStart, ThreadsTypesStart DEF TypesInv

LEMMA TypesStay == TypesInv /\ UNCHANGED vars => TypesInv'
<1> SUFFICES ASSUME TypesInv, UNCHANGED vars PROVE TypesInv'
  OBVIOUS
<1>0. UNCHANGED <<page, server, ui, calls, made, faults, clean>>
  BY DEF vars
<1> USE <1>0
<1> USE DEF Asking, Arrived, IsCall
<1>1. Counted => Counted'
  BY DEF Counted
<1>2. (BoardTyped => BoardTyped') /\ (ProjectsTyped => ProjectsTyped')
  BY DEF BoardTyped, BoardCalls, ProjectsTyped, AsksBack, Projects!Staff
<1>3. (RecordsTyped => RecordsTyped') /\ (AccountsTyped => AccountsTyped') /\ (HooksTyped => HooksTyped')
  BY DEF RecordsTyped, Looked, AccountsTyped, HooksTyped
<1>4. (ReportsTyped => ReportsTyped') /\ (FormTyped => FormTyped') /\ (ImportTyped => ImportTyped')
  BY DEF ReportsTyped, FormTyped, ImportTyped
<1>5. (InboxTyped => InboxTyped') /\ (SettingsTyped => SettingsTyped') /\ (DayKept => DayKept')
  BY DEF InboxTyped, SettingsTyped, DayKept, DayTyped
<1>6. (OutcomesTyped => OutcomesTyped') /\ (ThreadsTyped => ThreadsTyped')
  BY DEF OutcomesTyped, ThreadsTyped
<1> QED
  BY <1>1, <1>2, <1>3, <1>4, <1>5, <1>6 DEF TypesInv

LEMMA CountedSteps ==
  ASSUME TypesInv, page' = page, [Next]_vars, ~UNCHANGED vars PROVE page' \in Pages /\ Counted'
<1>1. page \in Pages /\ Counted /\ clean \in BOOLEAN
  BY DEF TypesInv, Counted
<1> USE <1>1
<1>2. page \in TaskPages \/ page = "board" \/ page \in Boards \/ page \in Managers => Tallies
  BY StaysOn, TaskTallies, BoardTallies, ProjectsTallies, RecordsTallies
<1>3. page = "users" \/ page = "webhooks" \/ page \in Figures \/ page = "form" => Tallies
  BY StaysOn, UsersTallies, HooksTallies, ReportsTallies, FormTallies
<1>4. page = "wizard" \/ page = "session" \/ page = "import" => Tallies
  BY StaysOn, WizardTallies, SessionTallies, ImportTallies
<1>5. page \in Bells => Tallies
  <2> SUFFICES ASSUME page \in Bells PROVE Tallies
    OBVIOUS
  <2>1. \A c \in calls : c.op = "poll" => c.value \in BOOLEAN
    BY Zenon DEF TypesInv, InboxTyped, InboxCall
  <2> QED
    BY <2>1, StaysOn, InboxTallies
<1>6. page = "settings" \/ page = "day" \/ page = "outcomes" => Tallies
  BY StaysOn, SettingsTallies, DayTallies, OutcomesTallies
<1>7. page = "checklist" \/ page = "messages" => Tallies
  BY StaysOn, ChecklistTallies, ThreadsTallies
<1>8. Tallies
  BY <1>2, <1>3, <1>4, <1>5, <1>6, <1>7, Zenon DEF Pages, TaskPages, Boards, Managers, Figures, Bells
<1> QED
  BY <1>8, CountedKept

LEMMA TypesStep == StuckInv /\ ShowsInv /\ CatchInv /\ TypesInv /\ [Next]_vars => TypesInv'
<1> SUFFICES ASSUME StuckInv, ShowsInv, CatchInv, TypesInv, [Next]_vars PROVE TypesInv'
  OBVIOUS
<1>1. CASE UNCHANGED vars
  BY <1>1, TypesStay
<1>2. CASE page' = page /\ ~UNCHANGED vars
  <2> USE <1>2
  <2>0. made \in Nat
    BY BoundsAreNumbers DEF TypesInv, Counted
  <2> USE <2>0
  <2>1. page = "board" => BoardTyped'
    BY StaysOn, BoardTypes DEF TypesInv
  <2>2. page \in Boards => ProjectsTyped'
    BY StaysOn, ProjectsTypes DEF TypesInv, CatchInv
  <2>3. page \in Managers => RecordsTyped'
    BY StaysOn, RecordsTypes DEF TypesInv
  <2>4. page = "users" => AccountsTyped'
    BY StaysOn, AccountsTypes DEF TypesInv, ShowsInv, CatchInv, UsersSettle
  <2>5. page = "webhooks" => HooksTyped'
    BY StaysOn, HooksTypes DEF TypesInv
  <2>6. page \in Figures => ReportsTyped'
    BY StaysOn, ReportsTypes DEF TypesInv
  <2>7. page = "form" => FormTyped'
    BY StaysOn, FormTypes DEF TypesInv
  <2>8. page = "wizard" => server' = None
    BY StaysOn, WizardServes DEF TypesInv
  <2>9. page = "import" => ImportTyped'
    BY StaysOn, ImportTypes DEF TypesInv
  <2>10. page \in Bells => InboxTyped'
    BY StaysOn, InboxTypes DEF TypesInv, StuckInv, CatchInv
  <2>11. page = "settings" => SettingsTyped'
    BY StaysOn, SettingsTypes DEF TypesInv
  <2>12. page = "day" => DayKept'
    BY StaysOn, DaySteps DEF TypesInv
  <2>13. page = "outcomes" => OutcomesTyped'
    BY StaysOn, OutcomesTypes DEF TypesInv, ShowsInv, CatchInv
  <2>14. page = "messages" => ThreadsTyped'
    BY StaysOn, ThreadsTypes DEF TypesInv
  <2> QED
    BY <2>1, <2>2, <2>3, <2>4, <2>5, <2>6, <2>7, <2>8, <2>9, <2>10, <2>11, <2>12, <2>13, <2>14, CountedSteps DEF TypesInv
<1> QED
  BY <1>1, <1>2, StaysOn

\* Every page's invariant says what its TypeOK asks for.
LEMMA PageTypes ==
  ASSUME TypesInv
  PROVE  /\ page = "board" => Board!TypeOK
         /\ page \in Boards => Projects!TypeOK
         /\ page \in Managers => Lookups!TypeOK
         /\ page = "webhooks" => Hooks!TypeOK
         /\ page \in Figures => Numbers!TypeOK
         /\ page = "form" => Form!TypeOK
         /\ page \in Bells => Bell!TypeOK
         /\ page = "messages" => Threads!TypeOK
<1>0. made \in 0..MaxCalls[page] /\ faults \in 0..MaxFaults /\ clean \in BOOLEAN
  BY DEF TypesInv, Counted
<1>1. ASSUME page = "board" PROVE Board!TypeOK
  <2>1. server \in Board!List /\ ui \in Board!Ui /\ Asking(calls, BoardAsks, Board!List)
    BY <1>1 DEF TypesInv, BoardTyped, BoardCalls
  <2>2. \A c \in calls : c.op \in Board!Bulk \cup {"list", "status", "relocate"}
    BY <2>1, Zenon DEF Asking, BoardAsks, Board!Bulk
  <2> QED
    BY <1>0, <1>1, <2>1, <2>2 DEF Board!TypeOK
<1>2. ASSUME page \in Boards PROVE Projects!TypeOK
  <2>1. server \in Projects!List /\ ui \in Projects!Ui /\ Asking(calls, ProjectAsks, Projects!List)
    BY <1>2 DEF TypesInv, ProjectsTyped
  <2>2. \A c \in calls : c.op \in Projects!Moves \cup {"list"}
    BY <2>1, Zenon DEF Asking, ProjectAsks, Projects!Moves
  <2> QED
    BY <1>0, <1>2, <2>1, <2>2, Zenon DEF Projects!TypeOK, Boards
<1>3. ASSUME page \in Managers PROVE Lookups!TypeOK
  <2>1. server \in Lookups!List /\ ui \in Lookups!Ui /\ Asking(calls, RecordAsks, Lookups!List)
    BY <1>3 DEF TypesInv, RecordsTyped
  <2>2. \A c \in calls : c.op \in {"list", "drive", "save", "delete"}
    BY <2>1, Zenon DEF Asking, RecordAsks
  <2> QED
    BY <1>0, <1>3, <2>1, <2>2 DEF Lookups!TypeOK, Managers
<1>4. ASSUME page = "webhooks" PROVE Hooks!TypeOK
  <2>1. server \in [Item -> Nat \cup {None}] /\ ui \in Hooks!Ui /\ Asking(calls, HookAsks, SUBSET Item)
    BY <1>4 DEF TypesInv, HooksTyped
  <2>2. \A c \in calls : c.op \in {"list", "create", "rotate", "delete"}
    BY <2>1, Zenon DEF Asking, HookAsks
  <2> QED
    BY <1>0, <1>4, <2>1, <2>2 DEF Hooks!TypeOK
<1>5. ASSUME page \in Figures PROVE Numbers!TypeOK
  <2>1. server = None /\ ui \in ReportsUi /\ Asking(calls, ReportAsks, {})
    BY <1>5 DEF TypesInv, ReportsTyped
  <2>2. \A c \in calls : c.op = "report" /\ c.item \in Item
    BY <2>1, Zenon DEF Asking, ReportAsks
  <2> QED
    BY <1>0, <1>5, <2>1, <2>2 DEF Numbers!TypeOK, Figures, ReportsUi
<1>6. ASSUME page = "form" PROVE Form!TypeOK
  BY <1>0, <1>6 DEF TypesInv, FormTyped, FormUi, FormCall, Form!TypeOK
<1>7. ASSUME page \in Bells PROVE Bell!TypeOK
  BY <1>0, <1>7, Zenon DEF TypesInv, InboxTyped, InboxServer, InboxUi, InboxCall, Bell!TypeOK, Bells
<1>8. ASSUME page = "messages" PROVE Threads!TypeOK
  BY <1>0, <1>8 DEF TypesInv, ThreadsTyped, ThreadsUi, Threads!TypeOK
<1> QED
  BY <1>1, <1>2, <1>3, <1>4, <1>5, <1>6, <1>7, <1>8

\* Some need what else is kept.
LEMMA UsersTypeOK ==
  ASSUME TypesInv, CatchInv, page = "users" PROVE Accounts!TypeOK
<1>1. made \in 0..MaxCalls[page] /\ faults \in 0..MaxFaults /\ clean \in BOOLEAN
  BY DEF TypesInv, Counted
<1>2. server \in [Item -> Accounts!Account] /\ ui \in Accounts!Ui
  BY DEF TypesInv, AccountsTyped
<1>3. \A c \in calls : c.op \in Accounts!Actions \cup {"list", "invite", "uninvite", "unlock",
                                                      "sessions", "revoke"}
  BY DEF CatchInv, UsersSettle, UsersTyped, UserCall, UserOps, Accounts!Actions
<1> QED
  BY <1>1, <1>2, <1>3 DEF Accounts!TypeOK

LEMMA ImportTypeOK ==
  ASSUME TypesInv, page = "import" PROVE Csv!TypeOK
<1>1. made \in 0..MaxCalls[page] /\ faults \in 0..MaxFaults /\ clean \in BOOLEAN /\ MaxCalls[page] \in Nat
  BY BoundsAreNumbers DEF TypesInv, Counted
<1>2. /\ server \in [valid : SUBSET Item, imported : [Item -> Nat]]
      /\ ui \in ImportUi
      /\ \A c \in calls : c.op \in {"preview", "commit"} /\ c.item \in Item
      /\ IsFiniteSet(calls) /\ ImportCounts(calls, server.imported, made)
  BY DEF TypesInv, ImportTyped
<1> USE <1>2
<1>3. PICK m : m = Cardinality(Commits(calls))
  OBVIOUS
<1>4. m \in Nat
  BY <1>3, FS_Subset, FS_CardinalityType DEF Commits
<1>5. \A i \in Item : server.imported[i] \in Nat /\ server.imported[i] + m <= made
  BY <1>3 DEF ImportCounts
<1>6. \A i \in Item : server.imported[i] \in 0..MaxCalls[page]
  BY <1>1, <1>4, <1>5
<1>7. server \in [valid : SUBSET Item, imported : [Item -> 0..MaxCalls[page]]]
  BY <1>6
<1> QED
  BY <1>1, <1>7 DEF Csv!TypeOK, ImportUi

LEMMA SettingsTypeOK ==
  ASSUME TypesInv, CatchInv, page = "settings" PROVE Personal!TypeOK
<1>1. made \in 0..MaxCalls[page] /\ faults \in 0..MaxFaults /\ clean \in BOOLEAN
  BY DEF TypesInv, Counted
<1>2. \A c \in calls : c.item \in Item \cup {None} /\ c.inst \in 0..ui.inst
  BY DEF TypesInv, CatchInv, SettingsTyped, SettingCall, SettingsKeep
<1> QED
  BY <1>1, <1>2 DEF TypesInv, SettingsTyped, SettingsServer, SettingsUi, Personal!TypeOK

LEMMA DayTypeOK ==
  ASSUME TypesInv, page = "day" PROVE Calendar!TypeOK
<1>1. made \in 0..MaxCalls[page] /\ faults \in 0..MaxFaults /\ clean \in BOOLEAN
  BY DEF TypesInv, Counted
<1>2. PICK n \in Nat :
        /\ DayTyped(n) /\ n <= Length /\ server \in [1..n -> Calendar!Booking]
        /\ ui.dragged \in 1..n \cup {None}
        /\ \A c \in calls : Calendar!Asks(c, n)
  BY DEF TypesInv, DayKept
<1> USE <1>2
<1>3. ui.items \in [1..n -> Calendar!Drawn]
  BY DEF DayTyped
<1>4. n \in 0..Length
  BY DayIsTyped
<1> QED
  BY <1>1, <1>3, <1>4 DEF Calendar!TypeOK

LEMMA OutcomesTypeOK ==
  ASSUME TypesInv, CatchInv, page = "outcomes" PROVE Funnels!TypeOK
<1>1. made \in 0..MaxCalls[page] /\ faults \in 0..MaxFaults /\ clean \in BOOLEAN
  BY DEF TypesInv, Counted
<1>2. server \in Funnels!List /\ ui \in OutcomesUi
  BY DEF TypesInv, OutcomesTyped
<1>3. ui.newest \in 0..ui.loads
  BY DEF CatchInv, OutcomesKeep, Numbered
<1>4. \A S : Funnels!Cardinality(S) = Cardinality(S)
  BY DEF Funnels!Cardinality, Cardinality
<1>5. ui.funnel = None \/ \A s \in Funnels!Statuses : ui.funnel[s] \in 0..Cardinality(Item)
  BY <1>2 DEF OutcomesUi, Tallied
<1> QED
  BY <1>1, <1>2, <1>3, <1>4, <1>5 DEF Funnels!TypeOK, OutcomesUi

LEMMA TypesHold ==
  ASSUME StuckInv, CatchInv, SettlesInv, TypesInv, page = "session" => SessionInv
  PROVE  TypeOK
<1>1. page \in TaskPages => TaskPage!TypeOK
  BY DEF SettlesInv, TaskTyped
<1>2. page = "checklist" => Promotion!TypeOK
  BY DEF SettlesInv, CheckTyped
<1>3. page = "wizard" => Wizard!TypeOK
  BY WizardTypeOK DEF TypesInv, StuckInv, WizardWaits
<1>4. page = "session" => Browser!TypeOK
  BY SessionTypeOK DEF TypesInv, SessionInv
<1>5. /\ page = "users" => Accounts!TypeOK
      /\ page = "import" => Csv!TypeOK
      /\ page = "settings" => Personal!TypeOK
      /\ page = "day" => Calendar!TypeOK
      /\ page = "outcomes" => Funnels!TypeOK
  BY UsersTypeOK, ImportTypeOK, SettingsTypeOK, DayTypeOK, OutcomesTypeOK
<1>6. page \in Pages
  BY DEF TypesInv
<1> QED
  BY <1>1, <1>2, <1>3, <1>4, <1>5, <1>6, PageTypes DEF TypeOK

-----------------------------------------------------------------------------
(* Theorems                                                                *)

\* For any number of tabs, browsers and calls: when nothing is under way, a
\* browser in which nobody is signed in holds no access token that the server
\* takes, but for what clean excludes.
THEOREM SigningOutEndsAccess == Spec => []SignedOutIsOut
<1>1. (page = "session" => SessionInv) => SignedOutIsOut
  <2> SUFFICES ASSUME SessionInv, NEW j \in Jar, clean, calls = {},
                      \A t \in Item : ui.of[t] = j => ~ui.tab[t].user
               PROVE  ui.jar[j].access # server.version
    BY DEF SignedOutIsOut, Browser!SignedOutIsOut, Jar
  <2>1. ~Claimed(j)
    BY DEF Claimed
  <2> QED
    BY <2>1 DEF SessionInv, AccessInv
<1> QED
  BY <1>1, SessionAlways, PTL

\* For any number of tabs, browsers and calls: however their refreshes overlap
\* with each other, with logins, logouts and reloads, no exchange is taken for
\* a theft, but for what clean excludes.
THEOREM NothingLooksStolen == Spec => []NoFalseAlarm
<1>1. (page = "session" => SessionInv) => NoFalseAlarm
  BY DEF NoFalseAlarm, Browser!NoFalseAlarm, SessionInv, Fresh
<1> QED
  BY <1>1, SessionAlways, PTL

\* For any number of items, handlers and dialogs opened one after the other:
\* whichever writes are refused, in whatever order they are answered, the status
\* and the flag of a dialog end up as the server's, and a box of a checklist
\* becomes what its label said, but for what clean excludes.
THEOREM StatusesSettle == Spec => []StatusSettles
<1>1. SettlesInv => StatusSettles
  BY TaskStatusSettles, CheckTurnsAsLabelled DEF SettlesInv, StatusSettles
<1> QED
  BY <1>1, SettlesAlways, PTL

\* For any number of items, calls, failures and overtaken answers: when nothing
\* is under way any more, a page shows what the server has, or says that its
\* last fetch failed; a partner's board, a panel of notices, a list of accounts
\* and the like as far as the page's clean promises it.
THEOREM PagesCatchUp == Spec => []PagesSettle
<1>1. Init => StuckInv /\ ShowsInv /\ CatchInv
  BY StuckStarts, ShowsStarts, CatchStarts
<1>2. StuckInv /\ ShowsInv /\ CatchInv /\ [Next]_vars => (StuckInv /\ ShowsInv /\ CatchInv)'
  BY StuckSteps, ShowsSteps, CatchSteps
<1>3. StuckInv /\ CatchInv /\ SettlesInv => PagesSettle
  BY CaughtUp
<1> QED
  BY <1>1, <1>2, <1>3, SettlesAlways, PTL DEF Spec

\* For any instance of the constants: what a page's variables hold is what the
\* page gives them, whatever its handlers do and in whatever order they end.
THEOREM TypesAreKept == Spec => []TypeOK
<1>1. Init => StuckInv /\ ShowsInv /\ CatchInv /\ TypesInv
  BY StuckStarts, ShowsStarts, CatchStarts, TypesStart
<1>2. StuckInv /\ ShowsInv /\ CatchInv /\ TypesInv /\ [Next]_vars =>
        (StuckInv /\ ShowsInv /\ CatchInv /\ TypesInv)'
  BY StuckSteps, ShowsSteps, CatchSteps, TypesStep
<1>3. StuckInv /\ CatchInv /\ SettlesInv /\ TypesInv /\ (page = "session" => SessionInv) => TypeOK
  BY TypesHold
<1> QED
  BY <1>1, <1>2, <1>3, SettlesAlways, SessionAlways, PTL DEF Spec

=============================================================================
