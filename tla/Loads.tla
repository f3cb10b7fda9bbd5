------------------------------- MODULE Loads -------------------------------
(***************************************************************************)
(* A component that keeps its list in a state of its own: an effect loads  *)
(* it, and a handler loads it again.  Nothing orders the answers, the last *)
(* one to come is shown, and a load that fails leaves what was there.      *)
(***************************************************************************)
EXTENDS Requests

\* The n-th load, with the requests for each of its parts.
Load(n, parts) ==
  [Call(n, None, None, "list", None, None) EXCEPT !.answer = [p \in parts |-> None]]

\* Handlers that are through with their request end by loading, n times.
EndsAndLoads(c, n, parts) ==
  calls' = (calls \ {c}) \cup {Load(k, parts) : k \in (ui.loads + 1)..(ui.loads + n)}

\* One part is answered; when all are, Promise.all goes on.
ReadPart(c, part, what) ==
  LET got == [c.answer EXCEPT ![part] = what]
  IN  /\ c.op = "list" /\ c.answer[part] = None
      /\ Replace(c, [c EXCEPT !.answer = got,
                              !.at = IF \A p \in DOMAIN got : got[p] # None THEN "ok" ELSE "out"])

\* A load that comes after a later one shows what was: clean excludes it.
Loaded(c, filled) ==
  /\ c.op = "list" /\ c.at = "ok"
  /\ ui' = [filled EXCEPT !.newest = c.id]
  /\ clean' = (clean /\ c.id > ui.newest)
  /\ Ends(c)
  /\ UNCHANGED <<page, server, made, faults>>

\* The page goes on with what it had: clean excludes it.
LoadFails(c) ==
  /\ c.op = "list" /\ c.at = "no"
  /\ clean' = FALSE
  /\ Ends(c)
  /\ UNCHANGED <<page, server, ui, made, faults>>
=============================================================================
