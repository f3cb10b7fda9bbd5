--------------------------- MODULE Conversations ---------------------------
(***************************************************************************)
(* MessagesPage of the partner's portal: the conversation of one project,  *)
(* which SWR caches per project, and the text that is being written.  The  *)
(* thread keeps its state when another project is chosen whose messages    *)
(* are cached, and loses it whenever a skeleton or an error replaces it.   *)
(* A message is the number of the call that sent it, and inst is the       *)
(* number of calls made before the thread was mounted.                     *)
(***************************************************************************)
EXTENDS Requests

CONSTANT Item   \* the projects

Messages == SUBSET (0..(MaxCalls["messages"] - 1))

Ask(p) == Fetch(p)

Init ==
  /\ page = "messages"
  /\ server = [p \in Item |-> {}]
  /\ \E p \in Item :
       /\ ui = [active |-> p, cache |-> [q \in Item |-> None],
                failed |-> [q \in Item |-> FALSE], inst |-> 0,
                draft |-> None, sending |-> FALSE, delivery |-> None]
       /\ calls = {Ask(p)}
  /\ made = 0
  /\ faults = 0
  /\ clean = TRUE

\* The skeleton is shown while there is nothing, the error also beside data.
Rendered(u) == u.cache[u.active] # None /\ ~u.failed[u.active]

\* A thread that is not rendered is unmounted, and its state is gone.
Renders(u) ==
  ui' = IF Rendered(u)
          THEN u
          ELSE [u EXCEPT !.draft = None, !.sending = FALSE, !.delivery = None,
                         !.inst = made]

\* A "refresh" is the fetch that a handler awaits after its message is sent.
Fetches == {"list", "refresh"}
Latest(c) == c.op \in Fetches /\ c.value = "latest"
UnderWay(p) == \E c \in calls : Latest(c) /\ c.item = p

\* mutate fetches a project again and overtakes its fetches that are under way:
\* nothing comes of them, but a handler still awaits its own.
Refetching(p, set, fetch) ==
  LET Overtaken(c) == c.op \in Fetches /\ c.item = p
  IN  {c \in set : ~Overtaken(c)}
      \cup {[c EXCEPT !.value = "overtaken", !.answer = None] :
              c \in {d \in set : Overtaken(d) /\ d.op = "refresh"}}
      \cup {fetch}

-----------------------------------------------------------------------------
(* Handlers                                                                *)

\* SWR fetches what is not there, and else what it has not fetched for the
\* last fifteen seconds.  What was written, or was delivered, stays below the
\* other conversation if that is cached; clean excludes it.
Choose(p) ==
  /\ p # ui.active
  /\ LET u == [ui EXCEPT !.active = p]
     IN  /\ Renders(u)
         /\ clean' = (/\ clean
                      /\ ~\E c \in calls : c.op = "send"
                      /\ Rendered(u) => ui.draft = None /\ ui.delivery = None)
  /\ \/ /\ ~UnderWay(p)
        /\ calls' = calls \cup {Ask(p)}
     \/ /\ UnderWay(p) \/ (ui.cache[p] # None /\ ~ui.failed[p])
        /\ UNCHANGED calls
  /\ UNCHANGED <<page, server, made, faults>>

Retry ==
  /\ ui.failed[ui.active]
  /\ calls' = Refetching(ui.active, calls, Ask(ui.active))
  /\ UNCHANGED <<page, server, ui, made, faults, clean>>

\* The box is disabled while a message is sent.
Write ==
  /\ Rendered(ui) /\ ~ui.sending
  /\ ui' = [ui EXCEPT !.draft = IF @ = None THEN ui.active ELSE None]
  /\ UNCHANGED <<page, server, calls, made, faults, clean>>

Send ==
  /\ Rendered(ui) /\ ~ui.sending
  /\ ui.draft # None
  /\ ui' = [ui EXCEPT !.sending = TRUE]
  /\ Start(ui.inst, ui.active, "send", ui.draft, None)
  /\ UNCHANGED <<page, server, faults, clean>>

\* onRefresh is mutate bound to the hook: it fetches the project shown by now.
Sent(c) ==
  /\ c.op = "send" /\ c.at = "ok"
  /\ ui' = IF c.inst = ui.inst THEN [ui EXCEPT !.draft = None, !.delivery = c.item] ELSE ui
  /\ calls' = Refetching(ui.active, calls \ {c},
                         Call(c.id, c.inst, ui.active, "refresh", "latest", None))
  /\ UNCHANGED <<page, server, made, faults, clean>>

SendFails(c) ==
  /\ c.op = "send" /\ c.at = "no"
  /\ ui' = IF c.inst = ui.inst THEN [ui EXCEPT !.sending = FALSE, !.delivery = None] ELSE ui
  /\ Ends(c)
  /\ UNCHANGED <<page, server, made, faults, clean>>

\* The end of a fetch, whatever it brought, ends the handler that awaits it.
Over(c, u) ==
  IF c.op = "refresh" /\ c.inst = ui.inst THEN [u EXCEPT !.sending = FALSE] ELSE u

Arrives(c) ==
  /\ c.op \in Fetches /\ c.at = "ok"
  /\ Renders(Over(c, IF Latest(c)
                       THEN [ui EXCEPT !.cache[c.item] = c.answer, !.failed[c.item] = FALSE]
                       ELSE ui))
  /\ Ends(c)
  /\ UNCHANGED <<page, server, made, faults, clean>>

FetchFails(c) ==
  /\ c.op \in Fetches /\ c.at = "no"
  /\ Renders(Over(c, IF Latest(c) THEN [ui EXCEPT !.failed[c.item] = TRUE] ELSE ui))
  /\ Ends(c)
  /\ UNCHANGED <<page, server, made, faults, clean>>

-----------------------------------------------------------------------------
(* The server                                                              *)

Serve(c) ==
  /\ c.at = "out"
  /\ IF c.op = "send"
       THEN Answered(c, None) /\ server' = [server EXCEPT ![c.item] = @ \cup {c.id}]
       ELSE Answered(c, IF Latest(c) THEN server[c.item] ELSE None) /\ UNCHANGED server
  /\ UNCHANGED <<page, ui, made, faults, clean>>

Refuse(c) ==
  /\ c.at = "out"
  /\ Fault(c)
  /\ UNCHANGED <<page, server, ui, made, clean>>

-----------------------------------------------------------------------------
User == Retry \/ Write \/ Send \/ \E p \in Item : Choose(p)

Next ==
  \/ User
  \/ \E c \in calls :
       \/ Serve(c) \/ Refuse(c) \/ Arrives(c) \/ FetchFails(c) \/ Sent(c) \/ SendFails(c)

Spec == Init /\ [][Next]_vars

-----------------------------------------------------------------------------
(* Properties                                                              *)

\* Every variable keeps its type.
TypeOK ==
  /\ page = "messages"
  /\ server \in [Item -> Messages]
  /\ ui.active \in Item
  /\ ui.cache \in [Item -> Messages \cup {None}]
  /\ ui.failed \in [Item -> BOOLEAN]
  /\ ui.inst \in Nat
  /\ {ui.draft, ui.delivery} \subseteq Item \cup {None}
  /\ {ui.sending, clean} \subseteq BOOLEAN
  /\ made \in 0..MaxCalls[page] /\ faults \in 0..MaxFaults

\* A text is written, sent and reported in one conversation.  Excluded (clean):
\* another one chosen while a message is being sent, or over a draft or a report
\* that stays below it.
WritesWhereShown ==
  clean =>
    /\ {ui.draft, ui.delivery} \subseteq {ui.active, None}
    /\ \A c \in calls : c.op = "send" => c.value = c.item

\* Once everything is answered, the conversation is the server's, or an error is
\* shown.  Excluded (clean): another one chosen while a message was being sent.
ThreadSettles ==
  calls = {} /\ clean => ui.failed[ui.active] \/ ui.cache[ui.active] = server[ui.active]

\* What keeps the box and its button disabled waits for an answer.
NoStuckThread ==
  ui.sending => \E c \in calls : c.inst = ui.inst /\ c.op \in {"send", "refresh"}
=============================================================================
