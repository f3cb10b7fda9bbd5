--------------------------- MODULE ScheduleWizard ---------------------------
(***************************************************************************)
(* The three steps of a new schedule: employees and class, place and time, *)
(* how it repeats; with the dialog for a custom rule and the one that adds *)
(* a class on the way.  Conflicts are the matter of ScheduleForm.  Of a    *)
(* date or a number it matters only whether it was given.                  *)
(***************************************************************************)
EXTENDS Requests, FiniteSets

Frequencies == {"week", "month"}
Endings == {"never", "date", "count"}
Rules == [every : Frequencies, days : BOOLEAN, ends : Endings, given : BOOLEAN]

DefaultRule == [every |-> "week", days |-> TRUE, ends |-> "never", given |-> FALSE]

Init ==
  /\ page = "wizard"
  /\ server = None
  /\ ui = [step |-> 0, staff |-> FALSE, class |-> None, place |-> FALSE,
           quick |-> FALSE, creating |-> FALSE,
           repeat |-> "none", ends |-> "never", count |-> FALSE,
           rule |-> DefaultRule, draft |-> None, sent |-> None]
  /\ calls = {}
  /\ made = 0
  /\ faults = 0
  /\ clean = TRUE

\* The form is not behind a dialog and not saved yet.
Front == ~ui.quick /\ ui.draft = None /\ ui.sent = None

Edits(u) ==
  /\ ui' = u
  /\ UNCHANGED <<page, server, calls, made, faults, clean>>

-----------------------------------------------------------------------------
(* Steps and fields                                                        *)

Complete(step) == (step = 0 => ui.staff) /\ (step = 1 => ui.place)

Forward == Front /\ ui.step < 2 /\ Complete(ui.step) /\ Edits([ui EXCEPT !.step = @ + 1])
Back == Front /\ ui.step > 0 /\ Edits([ui EXCEPT !.step = @ - 1])

\* The tab strip leads anywhere.
Jump(step) == Front /\ step # ui.step /\ Edits([ui EXCEPT !.step = step])

PickStaff(some) == Front /\ ui.step = 0 /\ some # ui.staff /\ Edits([ui EXCEPT !.staff = some])

PickClass == Front /\ ui.step = 0 /\ ui.class # "old" /\ Edits([ui EXCEPT !.class = "old"])

\* A date gives a weekly rule without days its weekday.
PickPlace(all) ==
  /\ Front /\ ui.step = 1 /\ all # ui.place
  /\ Edits([ui EXCEPT !.place = all,
                      !.rule.days = @ \/ (all /\ ui.rule.every = "week")])

-----------------------------------------------------------------------------
(* A class created on the way                                              *)

OpenQuick == Front /\ ui.step = 0 /\ Edits([ui EXCEPT !.quick = TRUE])

CloseQuick == ui.quick /\ Edits([ui EXCEPT !.quick = FALSE])

CreateClass ==
  /\ ui.quick /\ ~ui.creating
  /\ ui' = [ui EXCEPT !.creating = TRUE]
  /\ Start(None, None, "class", None, None)
  /\ UNCHANGED <<page, server, faults, clean>>

\* The new class is taken whatever was picked meanwhile, and the dialog that
\* is open by now closes.
ClassCreated(c) ==
  /\ c.op = "class" /\ ui.sent = None
  /\ ui' = [ui EXCEPT !.class = "new", !.quick = FALSE, !.creating = FALSE]
  /\ Ends(c)
  /\ UNCHANGED <<page, server, made, faults, clean>>

ClassFails(c) ==
  /\ c.op = "class" /\ ui.sent = None
  /\ faults < MaxFaults /\ faults' = faults + 1
  /\ ui' = [ui EXCEPT !.creating = FALSE]
  /\ Ends(c)
  /\ UNCHANGED <<page, server, made, clean>>

-----------------------------------------------------------------------------
(* How it repeats                                                          *)

\* "Custom..." opens the dialog at once, on the rule there is.
PickRepeat(r) ==
  /\ Front /\ ui.step = 2 /\ r # ui.repeat
  /\ Edits([ui EXCEPT !.repeat = r,
                      !.ends = IF r = "none" THEN "never" ELSE @,
                      !.draft = IF r = "custom" THEN ui.rule ELSE None])

PickEnd(e) ==
  /\ Front /\ ui.step = 2 /\ ui.repeat = "simple" /\ e # ui.ends
  /\ Edits([ui EXCEPT !.ends = e])

TypeCount(some) ==
  /\ Front /\ ui.step = 2 /\ ui.repeat = "simple" /\ ui.ends = "count" /\ some # ui.count
  /\ Edits([ui EXCEPT !.count = some])

OpenCustom == Front /\ ui.step = 2 /\ ui.repeat = "custom" /\ Edits([ui EXCEPT !.draft = ui.rule])

EditDraft(r) ==
  /\ ui.draft # None
  /\ Cardinality({f \in DOMAIN r : r[f] # ui.draft[f]}) = 1
  /\ Edits([ui EXCEPT !.draft = r])

CancelCustom == ui.draft # None /\ Edits([ui EXCEPT !.draft = None])

Sound(r) == (r.every = "week" => r.days) /\ (r.ends # "never" => r.given)

\* Days go with weeks.
DoneCustom ==
  /\ ui.draft # None /\ Sound(ui.draft)
  /\ Edits([ui EXCEPT !.rule = [ui.draft EXCEPT !.days = @ /\ ui.draft.every = "week"],
                      !.draft = None])

-----------------------------------------------------------------------------
(* Saving                                                                  *)

RecurrenceValid ==
  CASE ui.repeat = "none" -> TRUE
    [] ui.repeat = "custom" -> Sound(ui.rule)
    [] ui.repeat = "simple" -> ui.ends = "count" => ui.count

\* Mutant: how often it happens is taken from the form for a custom rule, too.
PayloadOfForm ==
  [repeat |-> ui.repeat, rule |-> IF ui.repeat = "custom" THEN ui.rule ELSE None,
   ends |-> IF ui.repeat = "custom" THEN ui.rule.ends ELSE ui.ends,
   count |-> ui.ends = "count" /\ ui.count,
   class |-> ui.class]

\* What the form sends; count says that it names a number of occurrences.
Payload ==
  [repeat |-> ui.repeat, rule |-> IF ui.repeat = "custom" THEN ui.rule ELSE None,
   ends |-> IF ui.repeat = "custom" THEN ui.rule.ends ELSE ui.ends,
   count |-> \/ ui.repeat = "custom" /\ ui.rule.ends = "count"
             \/ ui.ends = "count" /\ ui.count,
   class |-> ui.class]

\* The class may be missing: the form warns and saves.
Submit ==
  /\ Front /\ ui.step = 2
  /\ ui.staff /\ ui.place
  /\ RecurrenceValid
  /\ Edits([ui EXCEPT !.sent = Payload])

SubmitFails ==
  /\ ui.sent # None
  /\ faults < MaxFaults /\ faults' = faults + 1
  /\ ui' = [ui EXCEPT !.sent = None]
  /\ UNCHANGED <<page, server, calls, made, clean>>

-----------------------------------------------------------------------------
Next ==
  \/ Forward \/ Back \/ PickClass \/ OpenQuick \/ CloseQuick \/ CreateClass
  \/ OpenCustom \/ CancelCustom \/ DoneCustom \/ Submit \/ SubmitFails
  \/ \E step \in 0..2 : Jump(step)
  \/ \E b \in BOOLEAN : PickStaff(b) \/ PickPlace(b) \/ TypeCount(b)
  \/ \E r \in {"none", "simple", "custom"} : PickRepeat(r)
  \/ \E e \in Endings : PickEnd(e)
  \/ \E r \in Rules : EditDraft(r)
  \/ \E c \in calls : ClassCreated(c) \/ ClassFails(c)

Spec == Init /\ [][Next]_vars

-----------------------------------------------------------------------------
(* Properties                                                              *)

\* Every variable keeps its type.
TypeOK ==
  /\ page = "wizard"
  /\ server = None
  /\ ui.step \in 0..2
  /\ {ui.staff, ui.place, ui.quick, ui.creating, ui.count} \subseteq BOOLEAN
  /\ ui.class \in {None, "old", "new"}
  /\ ui.repeat \in {"none", "simple", "custom"} /\ ui.ends \in Endings
  /\ ui.rule \in Rules /\ ui.draft \in Rules \cup {None}
  /\ made \in 0..MaxCalls[page] /\ faults \in 0..MaxFaults
  /\ clean \in BOOLEAN

\* What the form sends is a rule that the backend can expand: a weekly one has
\* days, one that ends after a number of occurrences names the number.
SendsWholeRule ==
  ui.sent # None =>
    /\ ui.sent.repeat = "custom" => Sound(ui.sent.rule)
    /\ ui.sent.repeat # "none" /\ ui.sent.ends = "count" => ui.sent.count

\* A class that is being created disables only its own button.
NoStuckQuick == ui.creating => \E c \in calls : c.op = "class"
=============================================================================
