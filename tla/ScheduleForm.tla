---------------------------- MODULE ScheduleForm ----------------------------
(***************************************************************************)
(* The form that creates or edits a schedule.  While it is filled in, its  *)
(* conflicts are fetched half a second after the last change.  A save that *)
(* meets only conflicts of an outside calendar is refused, and the button  *)
(* then says "Schedule Anyway" until a field changes.                      *)
(*                                                                         *)
(* The fields that conflicts depend on (employees, place, times, driving   *)
(* times) are one value, a slot; None stands for one that is incomplete.   *)
(* The form is mounted when it opens: an instance is the number of the     *)
(* opening.  What the server answers depends on nothing that changes here: *)
(* a request is carried out and answered in one step.                      *)
(***************************************************************************)
EXTENDS Requests

CONSTANTS Item, Value

Kinds == {"free", "outside", "inside"}

\* A form is mounted with nothing (new) or with a schedule's values; one that
\* is not mounted (inst = None) has no state.
Form(inst, e, s) ==
  [inst |-> inst, edit |-> e, slot |-> s, shown |-> None, failed |-> FALSE,
   due |-> inst # None, override |-> FALSE, loading |-> FALSE, discard |-> FALSE,
   scope |-> "this", ask |-> FALSE, deleting |-> FALSE,
   refused |-> None, overlap |-> FALSE]

Shut == Form(None, None, None)

\* What each slot of the form collides with.
Init ==
  /\ page = "form"
  /\ server \in [Value -> Kinds]
  /\ ui = Shut
  /\ calls = {}
  /\ made = 0
  /\ faults = 0
  /\ clean = TRUE

Behind == ui.discard \/ ui.ask
Editable == ui.inst # None /\ ~Behind

Open(e, s) ==
  /\ ui.inst = None
  /\ (e = None) = (s = None)
  /\ Counts
  /\ ui' = Form(made, e, s)
  /\ UNCHANGED <<page, server, calls, faults, clean>>

\* An answer to a form that is gone changes nothing, except that a save and a
\* deletion still close whatever form is open then.
Outlives == {c \in calls : c.op \in {"save", "delete", "series"}}

Dirty == ui.edit = None /\ ui.slot # None

\* Escape or a click outside: a new form with entries asks first.
Close ==
  /\ Editable
  /\ IF Dirty THEN ui' = [ui EXCEPT !.discard = TRUE] /\ UNCHANGED calls
              ELSE ui' = Shut /\ calls' = Outlives
  /\ UNCHANGED <<page, server, made, faults, clean>>

AnswerDiscard(yes) ==
  /\ ui.discard
  /\ IF yes THEN ui' = Shut /\ calls' = Outlives
            ELSE ui' = [ui EXCEPT !.discard = FALSE] /\ UNCHANGED calls
  /\ UNCHANGED <<page, server, made, faults, clean>>

\* A request fails by itself, or it does not.
Fails == faults < MaxFaults /\ faults' = faults + 1
Works == UNCHANGED faults

-----------------------------------------------------------------------------
(* Filling in                                                              *)

Saving == Waiting(ui.inst, {"save"})

\* The fields stay editable while the form is being saved.
Change(s) ==
  /\ Editable
  /\ s # ui.slot
  /\ ui' = [ui EXCEPT !.slot = s, !.due = TRUE, !.override = FALSE]
  /\ clean' = (clean /\ ~Saving)
  /\ UNCHANGED <<page, server, calls, made, faults>>

PickScope(scope) ==
  /\ Editable /\ ui.edit # None
  /\ scope # ui.scope
  /\ ui' = [ui EXCEPT !.scope = scope]
  /\ UNCHANGED <<page, server, calls, made, faults, clean>>

Check(inst, s) == [Fetch(None) EXCEPT !.op = "check", !.inst = inst, !.value = s]
Checking == Waiting(ui.inst, {"check"})

\* An incomplete form has no conflicts, at once; an older check that is under
\* way still answers.
FetchPreview(s) ==
  IF s = None
    THEN /\ ui' = [ui EXCEPT !.due = FALSE, !.shown = None, !.failed = FALSE,
                             !.overlap = @ \/ Checking]
         /\ UNCHANGED calls
    ELSE /\ ui' = [ui EXCEPT !.due = FALSE, !.overlap = @ \/ Checking]
         /\ calls' = calls \cup {Check(ui.inst, s)}

\* Half a second after the last change.
Debounced ==
  /\ ui.due
  /\ FetchPreview(ui.slot)
  /\ UNCHANGED <<page, server, made, faults, clean>>

RetryPreview ==
  /\ Editable /\ ui.failed
  /\ FetchPreview(ui.slot)
  /\ UNCHANGED <<page, server, made, faults, clean>>

Previewed(c) ==
  /\ c.op = "check"
  /\ \/ Works /\ ui' = [ui EXCEPT !.shown = c.value, !.failed = FALSE]
     \/ Fails /\ ui' = [ui EXCEPT !.shown = None, !.failed = TRUE]
  /\ Ends(c)
  /\ UNCHANGED <<page, server, made, clean>>

\* The travel chain of the preview has driving times of other schedules of the
\* day: a changed one is saved there and the preview of the form as it was then
\* is fetched again.
OverrideLeg ==
  /\ Editable /\ ui.shown # None /\ ui.slot # None
  /\ UNCHANGED ui
  /\ Start(ui.inst, None, "leg", ui.slot, None)
  /\ UNCHANGED <<page, server, faults, clean>>

LegSet(c) ==
  /\ c.op = "leg"
  /\ \/ /\ Works
        /\ ui' = [ui EXCEPT !.overlap = @ \/ Checking \/ ui.slot # c.value]
        /\ Replace(c, Check(c.inst, c.value))
     \/ Fails /\ Ends(c) /\ UNCHANGED ui
  /\ UNCHANGED <<page, server, made, clean>>

-----------------------------------------------------------------------------
(* Saving and deleting                                                     *)

\* The payload is captured with the override.  asked is for the properties:
\* whether this form was refused for the slot.
Submit ==
  /\ Editable /\ ~ui.loading
  /\ ui.slot # None
  /\ ui' = [ui EXCEPT !.loading = TRUE]
  /\ Start(ui.inst, ui.edit, "save", ui.slot, [force |-> ui.override, asked |-> ui.slot = ui.refused])
  /\ UNCHANGED <<page, server, faults, clean>>

Collides(c) ==
  c.op = "save" /\ \/ server[c.value] = "inside"
                   \/ server[c.value] = "outside" /\ ~c.prev.force

\* onOpenChange(false) is the dashboard's: it closes whatever form is open.
Saved(c) ==
  /\ c.op \in {"save", "delete", "series"} /\ ~Collides(c)
  /\ ui' = Shut
  /\ calls' = Outlives \ {c}
  /\ UNCHANGED <<page, server, made, faults, clean>>

\* The slot collides, or the request failed.
Why(c) ==
  \/ Collides(c) /\ Works
  \/ ~Collides(c) /\ Fails

\* Mutant: a save that failed leaves the button waiting.
SaveFailsStuck(c) ==
  /\ c.op = "save"
  /\ Why(c)
  /\ ui' = IF c.inst # ui.inst \/ ~Collides(c) \/ server[c.value] = "inside" THEN ui
           ELSE [ui EXCEPT !.loading = FALSE, !.override = TRUE, !.refused = c.value]
  /\ Ends(c)
  /\ UNCHANGED <<page, server, made, clean>>

\* Only conflicts of outside calendars may be overridden.
SaveFails(c) ==
  /\ c.op = "save"
  /\ Why(c)
  /\ ui' = IF c.inst # ui.inst THEN ui
           ELSE IF Collides(c) /\ server[c.value] = "outside"
             THEN [ui EXCEPT !.loading = FALSE, !.override = TRUE, !.refused = c.value]
             ELSE [ui EXCEPT !.loading = FALSE]
  /\ Ends(c)
  /\ UNCHANGED <<page, server, made, clean>>

\* "Delete" at once, or "Delete Series" after a question.
Delete ==
  /\ Editable /\ ui.edit # None /\ ~ui.loading
  /\ IF ui.scope = "future"
       THEN ui' = [ui EXCEPT !.ask = TRUE] /\ UNCHANGED <<calls, made>>
       ELSE /\ ui' = [ui EXCEPT !.loading = TRUE]
            /\ Start(ui.inst, ui.edit, "delete", None, None)
  /\ UNCHANGED <<page, server, faults, clean>>

CancelSeries ==
  /\ ui.ask
  /\ ui' = [ui EXCEPT !.ask = FALSE]
  /\ UNCHANGED <<page, server, calls, made, faults, clean>>

DeleteSeries ==
  /\ ui.ask /\ ~ui.deleting
  /\ ui' = [ui EXCEPT !.deleting = TRUE]
  /\ Start(ui.inst, ui.edit, "series", None, None)
  /\ UNCHANGED <<page, server, faults, clean>>

DeleteFails(c) ==
  /\ c.op \in {"delete", "series"}
  /\ Fails
  /\ ui' = IF c.inst # ui.inst THEN ui
           ELSE IF c.op = "delete" THEN [ui EXCEPT !.loading = FALSE]
                                   ELSE [ui EXCEPT !.deleting = FALSE]
  /\ Ends(c)
  /\ UNCHANGED <<page, server, made, clean>>

-----------------------------------------------------------------------------
Next ==
  \/ Close \/ Debounced \/ RetryPreview \/ OverrideLeg
  \/ Submit \/ Delete \/ CancelSeries \/ DeleteSeries
  \/ \E b \in BOOLEAN : AnswerDiscard(b)
  \/ \E scope \in {"this", "future"} : PickScope(scope)
  \/ \E s \in Value \cup {None} :
       \/ Change(s)
       \/ \E e \in Item \cup {None} : Open(e, s)
  \/ \E c \in calls :
       \/ Previewed(c) \/ LegSet(c)
       \/ Saved(c) \/ SaveFails(c) \/ DeleteFails(c)

Spec == Init /\ [][Next]_vars

-----------------------------------------------------------------------------
(* Properties                                                              *)

\* Every variable keeps its type.
TypeOK ==
  /\ page = "form"
  /\ server \in [Value -> Kinds]
  /\ ui.inst \in Nat \cup {None} /\ ui.edit \in Item \cup {None}
  /\ {ui.slot, ui.shown, ui.refused} \subseteq Value \cup {None}
  /\ ui.scope \in {"this", "future"}
  /\ {ui.failed, ui.due, ui.override, ui.loading, ui.discard,
      ui.ask, ui.deleting, ui.overlap} \subseteq BOOLEAN
  /\ \A c \in calls : c.op \in {"check", "leg", "save", "delete", "series"}
  /\ made \in 0..MaxCalls[page] /\ faults \in 0..MaxFaults
  /\ clean \in BOOLEAN

\* A save overrides the conflicts of an outside calendar only for a slot for
\* which this form was refused on their account, unless the fields were changed
\* while a save was under way (clean): its refusal then offers the override for
\* what is in the form by now.
ForcedWasAsked ==
  clean => \A c \in calls : c.op = "save" /\ c.prev.force => c.prev.asked

\* When nothing is under way, the conflicts and the driving times shown are
\* those of the form, unless two checks overlapped or the last one failed.
PreviewFitsForm ==
  ui.inst # None /\ ~ui.overlap /\ ~ui.failed /\ ~ui.due /\ ~Waiting(ui.inst, {"check", "leg"})
    => ui.shown = ui.slot

\* A button that is disabled waits for an answer.
NoStuckForm ==
  /\ ui.loading => Waiting(ui.inst, {"save", "delete"})
  /\ ui.deleting => Waiting(ui.inst, {"series"})
=============================================================================
