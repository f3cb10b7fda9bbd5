---------------------------- MODULE Client_proofs ----------------------------
(***************************************************************************)
(* Proofs about Client: the wizard sends whole rules, what is forced       *)
(* against the server's objection is what the user was asked about, no     *)
(* control stays disabled for nothing, and what a page shows belongs to    *)
(* what it is shown for.  A day is laid out in as few columns as possible, *)
(* and its drives lead from place to place.  The last parts, of the lists  *)
(* that catch up with the server and of types, are used in                 *)
(* ClientServer_proofs.                                                    *)
(***************************************************************************)
EXTENDS ClientInvariants, FiniteSetTheorems, SequenceTheorems, TLAPS

-----------------------------------------------------------------------------
(* Pages                                                                   *)

\* A behaviour starts on the page whose module says how.
LEMMA StartsOn ==
  ASSUME Init
  PROVE  /\ page \in TaskPages => TaskPage!Init
         /\ page = "board" => Board!Init
         /\ page \in Boards => Projects!Init
         /\ page \in Managers => Lookups!Init
         /\ page = "users" => Accounts!Init
         /\ page = "webhooks" => Hooks!Init
         /\ page \in Figures => Numbers!Init
         /\ page = "form" => Form!Init
         /\ page = "wizard" => Wizard!Init
         /\ page = "session" => Browser!Init
         /\ page = "import" => Csv!Init
         /\ page \in Bells => Bell!Init
         /\ page = "settings" => Personal!Init
         /\ page = "day" => Calendar!Init
         /\ page = "outcomes" => Funnels!Init
         /\ page = "checklist" => Promotion!Init
         /\ page = "messages" => Threads!Init
<1> USE DEF TaskPages, Boards, Managers, Figures, Bells
<1>1. TaskPage!Init => page \in TaskPages
  BY Zenon DEF TaskPage!Init
<1>2. Lookups!Init => page \in Managers
  BY DEF Lookups!Init
<1>3. Accounts!Init => page = "users"
  BY DEF Accounts!Init
<1>4. Hooks!Init => page = "webhooks"
  BY DEF Hooks!Init
<1>5. Numbers!Init => page \in Figures
  BY DEF Numbers!Init
<1>6. Browser!Init => page = "session"
  BY DEF Browser!Init
<1>7. Csv!Init => page = "import"
  BY DEF Csv!Init
<1>8. Bell!Init => page \in Bells
  BY Zenon DEF Bell!Init
<1>9. Personal!Init => page = "settings"
  BY DEF Personal!Init
<1>10. Calendar!Init => page = "day"
  BY DEF Calendar!Init
<1>11. Board!Init => page = "board"
  BY DEF Board!Init
<1>12. Projects!Init => page \in Boards
  BY Zenon DEF Projects!Init
<1>13. Form!Init => page = "form"
  BY DEF Form!Init
<1>14. Wizard!Init => page = "wizard"
  BY DEF Wizard!Init
<1>15. Funnels!Init => page = "outcomes"
  BY DEF Funnels!Init
<1>16. Promotion!Init => page = "checklist"
  BY DEF Promotion!Init
<1>17. Threads!Init => page = "messages"
  BY DEF Threads!Init
<1> QED
  BY <1>1, <1>2, <1>3, <1>4, <1>5, <1>6, <1>7, <1>8, <1>9, <1>10, <1>11, <1>12, <1>13, <1>14,
     <1>15, <1>16, <1>17, Zenon
     DEF Init

\* The page stays, and only its module says what happens on it.
LEMMA StaysOn ==
  ASSUME [Next]_vars
  PROVE  \/ UNCHANGED vars
         \/ /\ page' = page
            /\ page \in TaskPages => TaskPage!Next
            /\ page = "board" => Board!Next
            /\ page \in Boards => Projects!Next
            /\ page \in Managers => Lookups!Next
            /\ page = "users" => Accounts!Next
            /\ page = "webhooks" => Hooks!Next
            /\ page \in Figures => Numbers!Next
            /\ page = "form" => Form!Next
            /\ page = "wizard" => Wizard!Next
            /\ page = "session" => Browser!Next
            /\ page = "import" => Csv!Next
            /\ page \in Bells => Bell!Next
            /\ page = "settings" => Personal!Next
            /\ page = "day" => Calendar!Next
            /\ page = "outcomes" => Funnels!Next
            /\ page = "checklist" => Promotion!Next
            /\ page = "messages" => Threads!Next
<1> USE DEF TaskPages, Boards, Managers, Figures, Bells
<1> QED
  BY Zenon DEF Next

-----------------------------------------------------------------------------
(* The wizard                                                              *)

LEMMA WizardStarts == Wizard!Init => WizardInv
  BY DEF Wizard!DefaultRule, Wizard!Rules, Wizard!Frequencies, Wizard!Endings, Wizard!Init,
     WizardUi, WizardInv, Wizard!SendsWholeRule

\* As long as nothing is sent, there is nothing to show.
LEMMA WizardEdits ==
  ASSUME WizardInv, NEW u \in WizardUi, Wizard!Edits(u), u.sent = ui.sent
  PROVE  WizardInv'
  BY DEF WizardInv, Wizard!Edits, Wizard!SendsWholeRule, Wizard!Sound

LEMMA WizardSteps == WizardInv /\ Wizard!Next => WizardInv'
<1> SUFFICES ASSUME WizardInv, Wizard!Next PROVE WizardInv'
  OBVIOUS
<1>0. ui \in WizardUi
  BY DEF WizardInv
<1>1. CASE Wizard!Forward \/ Wizard!Back \/ \E step \in 0..2 : Wizard!Jump(step)
  BY <1>0, WizardEdits, <1>1 DEF WizardUi, Wizard!Forward, Wizard!Back, Wizard!Jump
<1>2. CASE \E b \in BOOLEAN : Wizard!PickStaff(b) \/ Wizard!TypeCount(b)
  BY <1>2, <1>0, WizardEdits DEF Wizard!PickStaff, Wizard!TypeCount, WizardUi
<1>3. CASE \E b \in BOOLEAN : Wizard!PickPlace(b)
  <2>1. PICK b \in BOOLEAN : Wizard!PickPlace(b)
    BY <1>3
  <2>2. PICK r : r = [ui.rule EXCEPT !.days = @ \/ (b /\ ui.rule.every = "week")]
    BY Zenon
  <2>3. r \in Wizard!Rules
    BY <1>0, <2>2 DEF WizardUi, Wizard!Rules
  <2>4. Wizard!Edits([ui EXCEPT !.place = b, !.rule = r])
    BY <2>1, <2>2 DEF Wizard!PickPlace
  <2>5. /\ [ui EXCEPT !.place = b, !.rule = r] \in WizardUi
        /\ [ui EXCEPT !.place = b, !.rule = r].sent = ui.sent
    BY <1>0, <2>3, Zenon DEF WizardUi
  <2> QED
    BY <2>4, <2>5, WizardEdits, Zenon
<1>4. CASE Wizard!PickClass \/ Wizard!OpenQuick \/ Wizard!CloseQuick
  <2>1. /\ [ui EXCEPT !.class = "old"] \in WizardUi
        /\ [ui EXCEPT !.class = "old"].sent = ui.sent
        /\ [ui EXCEPT !.quick = TRUE] \in WizardUi
        /\ [ui EXCEPT !.quick = TRUE].sent = ui.sent
        /\ [ui EXCEPT !.quick = FALSE] \in WizardUi
        /\ [ui EXCEPT !.quick = FALSE].sent = ui.sent
    BY <1>0, Zenon DEF WizardUi
  <2> QED
    BY <1>4, <2>1, WizardEdits, Zenon DEF Wizard!PickClass, Wizard!OpenQuick, Wizard!CloseQuick
<1>5. ASSUME NEW u \in WizardUi, ui' = u, u.sent \in {ui.sent, None}
      PROVE  WizardInv'
  BY <1>5 DEF WizardInv, Wizard!SendsWholeRule, Wizard!Sound
<1>6. CASE Wizard!CreateClass
  <2>1. /\ [ui EXCEPT !.creating = TRUE] \in WizardUi
        /\ [ui EXCEPT !.creating = TRUE].sent = ui.sent
    BY <1>0, Zenon DEF WizardUi
  <2> QED
    BY <1>5, <1>6, <2>1, Zenon DEF Wizard!CreateClass
<1>7. CASE \E c \in calls : Wizard!ClassCreated(c) \/ Wizard!ClassFails(c)
  <2>1. /\ [ui EXCEPT !.class = "new", !.quick = FALSE, !.creating = FALSE] \in WizardUi
        /\ [ui EXCEPT !.class = "new", !.quick = FALSE, !.creating = FALSE].sent = ui.sent
        /\ [ui EXCEPT !.creating = FALSE] \in WizardUi
        /\ [ui EXCEPT !.creating = FALSE].sent = ui.sent
    BY <1>0, Zenon DEF WizardUi
  <2> QED
    BY <1>5, <1>7, <2>1, Zenon DEF Wizard!ClassCreated, Wizard!ClassFails
<1>8. CASE \E r \in {"none", "simple", "custom"} : Wizard!PickRepeat(r)
  <2>1. PICK r \in {"none", "simple", "custom"}, e \in Wizard!Endings,
             d \in Wizard!Rules \cup {None} :
          Wizard!Edits([ui EXCEPT !.repeat = r, !.ends = e, !.draft = d])
    BY <1>0, <1>8, Zenon DEF Wizard!PickRepeat, WizardUi, Wizard!Endings
  <2>2. /\ [ui EXCEPT !.repeat = r, !.ends = e, !.draft = d] \in WizardUi
        /\ [ui EXCEPT !.repeat = r, !.ends = e, !.draft = d].sent = ui.sent
    BY <1>0, Zenon DEF WizardUi
  <2> QED
    BY <2>1, <2>2, WizardEdits, Zenon
<1>9. CASE \E e \in Wizard!Endings : Wizard!PickEnd(e)
  BY <1>9, <1>0, WizardEdits DEF Wizard!PickEnd, WizardUi
<1>10. CASE \/ Wizard!OpenCustom \/ Wizard!CancelCustom
            \/ \E r \in Wizard!Rules : Wizard!EditDraft(r)
  <2>1. PICK d \in Wizard!Rules \cup {None} : Wizard!Edits([ui EXCEPT !.draft = d])
    BY <1>0, <1>10, Zenon DEF Wizard!OpenCustom, Wizard!CancelCustom, Wizard!EditDraft, WizardUi
  <2>2. [ui EXCEPT !.draft = d] \in WizardUi /\ [ui EXCEPT !.draft = d].sent = ui.sent
    BY <1>0 DEF WizardUi
  <2> QED
    BY <2>1, <2>2, WizardEdits, Zenon
<1>11. CASE Wizard!DoneCustom
  <2>1. PICK r : r = [ui.draft EXCEPT !.days = @ /\ ui.draft.every = "week"]
    BY Zenon
  <2>2. ui.draft \in Wizard!Rules
    BY <1>0, <1>11 DEF Wizard!DoneCustom, WizardUi
  <2>3. r \in Wizard!Rules
    BY <2>1, <2>2, Zenon DEF Wizard!Rules
  <2>4. Wizard!Edits([ui EXCEPT !.rule = r, !.draft = None])
    BY <1>11, <2>1 DEF Wizard!DoneCustom
  <2>5. /\ [ui EXCEPT !.rule = r, !.draft = None] \in WizardUi
        /\ [ui EXCEPT !.rule = r, !.draft = None].sent = ui.sent
    BY <1>0, <2>3, Zenon DEF WizardUi
  <2> QED
    BY <2>4, <2>5, WizardEdits, Zenon
<1>12. CASE Wizard!Submit
  <2>1. PICK p : p = Wizard!Payload
    OBVIOUS
  <2>2. /\ ui.repeat \in {"none", "simple", "custom"} /\ ui.rule \in Wizard!Rules
        /\ ui.ends \in Wizard!Endings /\ ui.count \in BOOLEAN
        /\ ui.class \in {None, "old", "new"}
    BY <1>0 DEF WizardUi
  <2>3. ui.rule.ends \in Wizard!Endings
    BY <2>2 DEF Wizard!Rules
  <2>4. /\ p.repeat = ui.repeat
        /\ p.rule = IF ui.repeat = "custom" THEN ui.rule ELSE None
        /\ p.ends = IF ui.repeat = "custom" THEN ui.rule.ends ELSE ui.ends
        /\ p.count = (\/ ui.repeat = "custom" /\ ui.rule.ends = "count"
                      \/ ui.ends = "count" /\ ui.count)
    BY <2>1 DEF Wizard!Payload
  <2>5. p \in Sending
    BY <2>1, <2>2, <2>3 DEF Wizard!Payload, Sending
  <2>6. ui' = [ui EXCEPT !.sent = p]
    BY <1>12, <2>1 DEF Wizard!Submit, Wizard!Edits
  <2>7. ui' \in WizardUi /\ ui'.sent = p
    BY <1>0, <2>5, <2>6 DEF WizardUi
  <2>8. CASE ui.repeat = "none"
    BY <2>4, <2>7, <2>8 DEF WizardInv, Wizard!SendsWholeRule
  <2>9. CASE ui.repeat = "simple"
    <3>1. ui.ends = "count" => ui.count
      BY <1>12, <2>9 DEF Wizard!Submit, Wizard!RecurrenceValid
    <3>2. p.repeat = "simple" /\ (p.ends = "count" => p.count)
      BY <2>4, <2>9, <3>1
    <3> QED
      BY <2>7, <3>2 DEF WizardInv, Wizard!SendsWholeRule
  <2>10. CASE ui.repeat = "custom"
    <3>1. Wizard!Sound(ui.rule)
      BY <1>12, <2>10 DEF Wizard!Submit, Wizard!RecurrenceValid
    <3>2. p.rule = ui.rule /\ (p.ends = "count" => p.count)
      BY <2>4, <2>10
    <3> QED
      BY <2>7, <3>1, <3>2 DEF WizardInv, Wizard!SendsWholeRule, Wizard!Sound
  <2> QED
    BY <2>2, <2>8, <2>9, <2>10
<1>13. CASE Wizard!SubmitFails
  BY <1>0, <1>5, <1>13 DEF WizardUi, Wizard!SubmitFails
<1> QED
  BY <1>1, <1>2, <1>3, <1>4, <1>6, <1>7, <1>8, <1>9, <1>10, <1>11, <1>12, <1>13 DEF Wizard!Next

\* Whatever the user does in the dialogs, in whichever order, and whatever
\* fails: a rule that is sent can be expanded by the backend.
THEOREM WizardSendsWholeRules == Spec => []SendsWholeRule
<1> DEFINE Inv == page = "wizard" => WizardInv
<1>1. Init => Inv
  BY StartsOn, WizardStarts
<1>2. Inv /\ [Next]_vars => Inv'
  BY WizardSteps, StaysOn DEF vars, WizardInv, Wizard!SendsWholeRule, Wizard!Sound
<1>3. Inv => SendsWholeRule
  BY DEF WizardInv, SendsWholeRule
<1> QED
  BY <1>1, <1>2, <1>3, PTL DEF Spec

-----------------------------------------------------------------------------
(* The schedule board                                                      *)

\* A step that leaves the dialog, closes it, opens it without a reason, or
\* adds the reason for what it shows.
LEMMA BoardAnswers ==
  ASSUME BoardInv, ui' = [f \in BoardFields |-> ui'[f]],
         \/ ui'.conflict = ui.conflict /\ ui'.reason = ui.reason
         \/ ui'.conflict = None
         \/ ui'.reason = None
         \/ ui'.conflict = ui.conflict /\ ui'.reason = ui.conflict
  PROVE  BoardInv'
  BY DEF BoardInv, Board!ForcedWasAsked

LEMMA BoardStarts == Board!Init => BoardInv
<1> SUFFICES ASSUME Board!Init PROVE BoardInv
  OBVIOUS
<1>1. ui.conflict = None
  BY DEF Board!Init
<1>2. ui = [f \in BoardFields |-> ui[f]]
  BY Zenon DEF Board!Init, BoardFields
<1> QED
  BY <1>1, <1>2 DEF BoardInv, Board!ForcedWasAsked

\* Choosing leaves the dialog alone.
LEMMA BoardChooses ==
  ASSUME NEW u, u = [f \in BoardFields |-> u[f]], NEW set
  PROVE  /\ Board!Choose(u, set) = [f \in BoardFields |-> Board!Choose(u, set)[f]]
         /\ Board!Choose(u, set).conflict = u.conflict
         /\ Board!Choose(u, set).reason = u.reason
  BY Zenon DEF Board!Choose, BoardFields

\* So does marking what has to be fetched again.
LEMMA BoardStales ==
  ASSUME NEW u, u = [f \in BoardFields |-> u[f]]
  PROVE  /\ Board!Stale(u) = [f \in BoardFields |-> Board!Stale(u)[f]]
         /\ Board!Stale(u).conflict = u.conflict
         /\ Board!Stale(u).reason = u.reason
  BY DEF Board!Stale, BoardFields

LEMMA BoardSteps == BoardInv /\ Board!Next => BoardInv'
<1> SUFFICES ASSUME BoardInv, Board!Next PROVE BoardInv'
  OBVIOUS
<1>0. ui = [f \in BoardFields |-> ui[f]]
  BY DEF BoardInv
<1>1. ASSUME ui' = ui
      PROVE  BoardInv'
  BY <1>1 DEF BoardInv, Board!ForcedWasAsked
<1>2. ASSUME NEW u, u = [f \in BoardFields |-> u[f]],
             ui' = Board!Stale(u),
             \/ u.conflict = ui.conflict /\ u.reason = ui.reason
             \/ u.conflict = None
             \/ u.reason = None
      PROVE  BoardInv'
  BY <1>2, BoardStales, BoardAnswers
<1>3. CASE Board!Retry
  BY <1>0, <1>2, <1>3 DEF Board!Retry
<1>4. CASE Board!Turn
  BY <1>0, <1>4, BoardChooses, BoardAnswers DEF Board!Turn
<1>5. CASE Board!Widen
  <2>1. PICK u : u = Board!Choose(ui, {})
    OBVIOUS
  <2>2. u = [f \in BoardFields |-> u[f]] /\ u.conflict = ui.conflict /\ u.reason = ui.reason
    BY <1>0, <2>1, BoardChooses
  <2>3. ui' = [u EXCEPT !.cache["window"] = Board!Cold, !.fresh["window"] = TRUE,
                        !.failed["window"] = FALSE]
    BY <1>5, <2>1 DEF Board!Widen
  <2>4. /\ ui' = [f \in BoardFields |-> ui'[f]]
        /\ ui'.conflict = ui.conflict /\ ui'.reason = ui.reason
    BY <2>2, <2>3, Zenon DEF BoardFields
  <2> QED
    BY <2>4, BoardAnswers
<1>6. CASE Board!ToggleSelectionMode
  BY <1>0, BoardChooses, <1>6, BoardAnswers DEF Board!ToggleSelectionMode, BoardFields
<1>7. CASE \E v \in Board!View : Board!Navigate(v)
  <2>1. ui' = [f \in BoardFields |-> ui'[f]] /\ ui'.conflict = None
    BY <1>0, <1>7, Zenon DEF Board!Navigate, BoardFields
  <2> QED
    BY <2>1, BoardAnswers
<1>8. CASE \/ \E s \in Item : Board!ToggleItem(s)
           \/ \E status \in Status : Board!SelectColumn(status)
  <2>1. PICK set : ui' = Board!Choose(ui, set)
    BY <1>8, Zenon DEF Board!ToggleItem, Board!SelectColumn
  <2> QED
    BY <1>0, <2>1, BoardChooses, BoardAnswers
<1>9. ASSUME NEW s, NEW doc, Board!Swapped(s, doc)
      PROVE  BoardInv'
  <2>1. /\ ui' = [f \in BoardFields |-> ui'[f]]
        /\ ui'.conflict = ui.conflict /\ ui'.reason = ui.reason
    BY <1>0, <1>9, Zenon DEF Board!Swapped, BoardFields
  <2> QED
    BY <2>1, BoardAnswers
<1>10. CASE \/ \E s \in Item : \/ \E status \in Status : Board!ChangeStatus(s, status)
                               \/ \E slot \in Value : Board!DropOnSlot(s, slot)
            \/ Board!ForceRelocate
  BY <1>9, <1>10, Zenon DEF Board!ChangeStatus, Board!DropOnSlot, Board!ForceRelocate, Board!Relocate
<1>11. CASE Board!TypeReason
  BY <1>0, <1>11, BoardAnswers DEF Board!TypeReason, BoardFields
<1>12. CASE Board!CloseConflict
  BY <1>0, <1>12, BoardAnswers DEF Board!CloseConflict, BoardFields
<1>13. CASE \/ \E status \in Status : Board!BulkStatus(status)
            \/ Board!AskBulk \/ Board!ConfirmBulk \/ Board!CancelBulk
  <2>1. \/ ui' = [ui EXCEPT !.busy = made]
        \/ \E x : ui' = [ui EXCEPT !.confirm = x]
    BY <1>13, Zenon DEF Board!BulkStatus, Board!AskBulk, Board!ConfirmBulk, Board!CancelBulk, Board!Begin
  <2>2. /\ ui' = [f \in BoardFields |-> ui'[f]]
        /\ ui'.conflict = ui.conflict /\ ui'.reason = ui.reason
    BY <1>0, <2>1 DEF BoardFields
  <2> QED
    BY <2>2, BoardAnswers
<1>14. ASSUME NEW c \in calls,
              \/ Board!Serve(c) \/ Board!Refuse(c)
              \/ Board!ListArrives(c) \/ Board!ListFails(c) \/ Board!StatusAnswered(c)
              \/ Board!Relocated(c) \/ Board!RelocateFails(c) \/ Board!BulkDone(c)
              \/ Board!BulkFails(c)
       PROVE  BoardInv'
  <2>1. CASE Board!Serve(c) \/ Board!Refuse(c)
    BY <1>1, <2>1 DEF Board!Serve, Board!Refuse
  <2>2. CASE Board!ListArrives(c) \/ Board!ListFails(c)
    <3>1. \/ ui' = ui
          \/ \E x, y : ui' = [ui EXCEPT !.cache = x, !.failed = y]
          \/ \E x : ui' = [ui EXCEPT !.banner = TRUE, !.failed = x]
      BY <1>0, <2>2, Zenon DEF Board!ListArrives, Board!ListFails, BoardFields
    <3>2. /\ ui' = [f \in BoardFields |-> ui'[f]]
          /\ ui'.conflict = ui.conflict /\ ui'.reason = ui.reason
      BY <1>0, <3>1, Zenon DEF BoardFields
    <3> QED
      BY <3>2, BoardAnswers
  <2>3. CASE Board!StatusAnswered(c)
    BY <1>0, <1>2, <2>3 DEF Board!StatusAnswered, Board!AnsweredAndFetches
  <2>4. CASE Board!Relocated(c)
    BY <2>4, <1>0, <1>2 DEF Board!Relocated, Board!AnsweredAndFetches, BoardFields
  <2>5. CASE Board!RelocateFails(c)
    <3>1. PICK u, x : /\ ui' = Board!Stale(u)
                      /\ u = ui \/ u = [ui EXCEPT !.conflict = x, !.reason = None]
      BY <2>5, Zenon DEF Board!RelocateFails, Board!AnsweredAndFetches
    <3>2. /\ u = [f \in BoardFields |-> u[f]]
          /\ u.reason = None \/ (u.conflict = ui.conflict /\ u.reason = ui.reason)
      BY <1>0, <3>1, Zenon DEF BoardFields
    <3> QED
      BY <1>2, <3>1, <3>2
  <2>6. CASE Board!BulkDone(c)
    BY <2>6, <1>0, <1>2, BoardChooses DEF Board!BulkDone, Board!AnsweredAndFetches
  <2>7. CASE Board!BulkFails(c)
    <3>1. ui' = ui \/ ui' = [ui EXCEPT !.busy = None, !.confirm = None]
      BY <2>7 DEF Board!BulkFails, Board!Idle
    <3>2. /\ ui' = [f \in BoardFields |-> ui'[f]]
          /\ ui'.conflict = ui.conflict /\ ui'.reason = ui.reason
      BY <1>0, <3>1, Zenon DEF BoardFields
    <3> QED
      BY <3>2, BoardAnswers
  <2> QED
    BY <1>14, <2>1, <2>2, <2>3, <2>4, <2>5, <2>6, <2>7
<1> QED
  BY <1>3, <1>4, <1>5, <1>6, <1>7, <1>8, <1>10, <1>11, <1>12, <1>13, <1>14
     DEF Board!Next, Board!User

-----------------------------------------------------------------------------
(* The schedule form                                                       *)

LEMMA FormStarts == Form!Init => FormInv
  BY DEF Form!Init, Form!Shut, Form!Form, FormFields, FormInv, SaveInv

\* Nothing that matters changes: the same form, no new save.
LEMMA FormStays ==
  ASSUME FormInv, ui' = [f \in FormFields |-> ui'[f]],
         ui'.inst = ui.inst, ui'.slot = ui.slot,
         ui'.override => ui.override /\ ui'.refused = ui.refused,
         \A c \in calls' : c \in calls \/ c.op # "save",
         made' \in {made, made + 1}, clean' = clean
  PROVE  FormInv'
  BY DEF FormInv, SaveInv

\* The form closes.
LEMMA FormShuts ==
  ASSUME FormInv, ui' = Form!Shut, calls' \subseteq calls, made' = made, clean' = clean
  PROVE  FormInv'
  BY DEF Form!Shut, Form!Form, FormFields, FormInv, SaveInv

LEMMA FormSteps == FormInv /\ Form!Next => FormInv'
<1> SUFFICES ASSUME FormInv, Form!Next PROVE FormInv'
  OBVIOUS
<1>0. ui = [f \in FormFields |-> ui[f]]
  BY DEF FormInv
<1>1. \A inst, s : Form!Check(inst, s).op = "check"
  BY DEF Form!Check, Form!Fetch, Form!Call
<1>2. \A inst, item, op, value, prev : Form!Call(made, inst, item, op, value, prev).op = op
  BY DEF Form!Call
<1>3. Form!Outlives \subseteq calls
  BY DEF Form!Outlives
<1>4. CASE Form!Close \/ \E b \in BOOLEAN : Form!AnswerDiscard(b)
  BY <1>3, <1>4, FormShuts, <1>0, FormStays DEF Form!Close, Form!AnswerDiscard, FormFields
<1>5. ASSUME Form!FetchPreview(ui.slot), made' = made, clean' = clean
      PROVE  FormInv'
  <2>1. /\ \/ \E x : ui' = [ui EXCEPT !.due = FALSE, !.shown = None, !.failed = FALSE,
                                      !.overlap = x]
           \/ \E x : ui' = [ui EXCEPT !.due = FALSE, !.overlap = x]
        /\ \A c \in calls' : c \in calls \/ c.op = "check"
    <3>1. PICK x : x = (ui.overlap \/ Form!Checking)
      OBVIOUS
    <3>2. \/ ui' = [ui EXCEPT !.due = FALSE, !.shown = None, !.failed = FALSE, !.overlap = x]
          \/ ui' = [ui EXCEPT !.due = FALSE, !.overlap = x]
      BY <1>5, <3>1, Zenon DEF Form!FetchPreview
    <3>3. calls' = calls \/ calls' = calls \cup {Form!Check(ui.inst, ui.slot)}
      BY <1>5 DEF Form!FetchPreview
    <3>4. \A c \in calls' : c \in calls \/ c.op = "check"
      BY <1>1, <3>3
    <3> QED
      BY <3>2, <3>4, Zenon
  <2>2. /\ ui' = [f \in FormFields |-> ui'[f]]
        /\ ui'.inst = ui.inst /\ ui'.slot = ui.slot
        /\ ui'.override = ui.override /\ ui'.refused = ui.refused
    BY <1>0, <2>1, Zenon DEF FormFields
  <2> QED
    BY <1>5, <2>1, <2>2, FormStays, Zenon
<1>6. CASE Form!Debounced \/ Form!RetryPreview
  BY <1>5, <1>6 DEF Form!Debounced, Form!RetryPreview
<1>7. CASE Form!OverrideLeg
  BY <1>2, <1>7, <1>0, FormStays DEF Form!OverrideLeg, Form!Start, Form!Counts
<1>8. CASE Form!CancelSeries \/ \E scope \in {"this", "future"} : Form!PickScope(scope)
  BY <1>8, <1>0, FormStays DEF Form!CancelSeries, Form!PickScope, FormFields
<1>9. CASE Form!Delete \/ Form!DeleteSeries
  BY <1>2, <1>9, <1>0, FormStays DEF Form!Delete, Form!DeleteSeries, Form!Start, Form!Counts,
     FormFields
<1>10. ASSUME NEW c \in calls, Form!Previewed(c) \/ Form!LegSet(c)
       PROVE  FormInv'
  <2>1. /\ \/ ui' = ui
           \/ \E x, y : ui' = [ui EXCEPT !.shown = x, !.failed = y]
           \/ \E x : ui' = [ui EXCEPT !.overlap = x]
        /\ \A d \in calls' : d \in calls \/ d.op = "check"
        /\ made' = made /\ clean' = clean
    <3>1. CASE Form!Previewed(c)
      BY <3>1, Zenon DEF Form!Previewed, Form!Ends
    <3>2. CASE Form!LegSet(c)
      <4> USE <3>2
      <4>1. calls' \subseteq calls \/ calls' = (calls \ {c}) \cup {Form!Check(c.inst, c.value)}
        BY DEF Form!LegSet, Form!Replace, Form!Ends
      <4>2. ui' = ui \/ \E x : ui' = [ui EXCEPT !.overlap = x]
        BY DEF Form!LegSet
      <4>3. made' = made /\ clean' = clean
        BY DEF Form!LegSet
      <4>4. \A d \in calls' : d \in calls \/ d.op = "check"
        BY <1>1, <4>1
      <4> QED
        BY <4>2, <4>3, <4>4, Zenon
    <3> QED
      BY <1>10, <3>1, <3>2, Zenon
  <2>2. /\ ui' = [f \in FormFields |-> ui'[f]]
        /\ ui'.inst = ui.inst /\ ui'.slot = ui.slot
        /\ ui'.override = ui.override /\ ui'.refused = ui.refused
    BY <1>0, <2>1, Zenon DEF FormFields
  <2> QED
    BY <2>1, <2>2, FormStays, Zenon
<1>11. ASSUME NEW c \in calls, Form!Saved(c)
       PROVE  FormInv'
  BY <1>3, <1>11, FormShuts DEF Form!Saved
<1>12. ASSUME NEW c \in calls, Form!DeleteFails(c)
       PROVE  FormInv'
  BY <1>12, <1>0, FormStays DEF Form!DeleteFails, Form!Ends, FormFields
<1>13. ASSUME NEW c \in calls, Form!SaveFails(c)
       PROVE  FormInv'
  <2>0. c.op = "save" /\ calls' \subseteq calls /\ made' = made /\ clean' = clean
    BY <1>13 DEF Form!SaveFails, Form!Ends
  <2> USE <2>0
  <2>1. CASE ui' = ui \/ ui' = [ui EXCEPT !.loading = FALSE]
    BY <1>0, <2>1, FormStays DEF FormFields
  <2>2. CASE /\ c.inst = ui.inst
             /\ ui' = [ui EXCEPT !.loading = FALSE, !.override = TRUE, !.refused = c.value]
    <3>1. /\ ui' = [f \in FormFields |-> ui'[f]]
          /\ ui'.inst = ui.inst /\ ui'.slot = ui.slot /\ ui'.refused = c.value
      BY <1>0, <2>2, Zenon DEF FormFields
    <3>2. SaveInv => SaveInv'
      BY <2>2, <3>1 DEF SaveInv
    <3> QED
      BY <3>1, <3>2 DEF FormInv
  <2> QED
    BY <1>13, <2>1, <2>2 DEF Form!SaveFails
<1>14. ASSUME NEW s \in Value \cup {None}, Form!Change(s)
       PROVE  FormInv'
  <2>1. /\ ui' = [ui EXCEPT !.slot = s, !.due = TRUE, !.override = FALSE]
        /\ clean' = (clean /\ ~Form!Saving) /\ calls' = calls /\ made' = made
    BY <1>14 DEF Form!Change
  <2> USE <2>1
  <2>2. /\ ui' = [f \in FormFields |-> ui'[f]]
        /\ ui'.inst = ui.inst /\ ui'.override = FALSE
    BY <1>0, Zenon DEF FormFields
  <2>3. clean' => clean /\ \A c \in calls : ~(c.inst = ui.inst /\ c.op = "save")
    BY Zenon DEF Form!Saving, Form!Waiting
  <2>4. clean' => SaveInv'
    BY <2>2, <2>3, Zenon DEF FormInv, SaveInv
  <2> QED
    BY <2>2, <2>4, Zenon DEF FormInv
<1>15. ASSUME NEW e, NEW s, Form!Open(e, s)
       PROVE  FormInv'
  BY <1>15 DEF Form!Open, Form!Counts, Form!Form, FormFields, FormInv, SaveInv
<1>16. CASE Form!Submit
  <2> DEFINE save == Form!Call(made, ui.inst, ui.edit, "save", ui.slot,
                               [force |-> ui.override, asked |-> ui.slot = ui.refused])
  <2>1. /\ ui' = [ui EXCEPT !.loading = TRUE] /\ made' = made + 1
        /\ calls' = calls \cup {save} /\ clean' = clean /\ ui.inst # None
    BY <1>16 DEF Form!Submit, Form!Start, Form!Counts, Form!Editable
  <2> USE <2>1
  <2>2. /\ save.op = "save" /\ save.inst = ui.inst /\ save.value = ui.slot
        /\ save.prev.force = ui.override /\ save.prev.asked = (ui.slot = ui.refused)
    BY DEF Form!Call
  <2> HIDE DEF save
  <2>3. /\ ui' = [f \in FormFields |-> ui'[f]]
        /\ ui'.inst = ui.inst /\ ui'.slot = ui.slot
        /\ ui'.override = ui.override /\ ui'.refused = ui.refused
    BY <1>0, Zenon DEF FormFields
  <2>4. made' \in Nat /\ made < made'
    BY DEF FormInv
  <2>5. \A c \in calls' : c.op = "save" => c.inst # None /\ c.inst \in Nat /\ c.inst < made'
    BY <2>2, <2>4 DEF FormInv
  <2>6. SaveInv => SaveInv'
    BY <2>2, <2>3, Zenon DEF SaveInv
  <2> QED
    BY <2>3, <2>4, <2>5, <2>6 DEF FormInv
<1> QED
  BY <1>4, <1>6, <1>7, <1>8, <1>9, <1>10, <1>11, <1>12, <1>13, <1>14, <1>15, <1>16 DEF Form!Next

-----------------------------------------------------------------------------
(* The project boards                                                      *)

LEMMA NewCalls ==
  ASSUME NEW inst, NEW item, NEW op, NEW value, NEW prev
  PROVE  LET c == Projects!Call(made, inst, item, op, value, prev)
         IN  /\ IsCall(c)
             /\ c.inst = inst /\ c.item = item /\ c.op = op /\ c.value = value
             /\ c.prev = prev /\ c.step = 1 /\ c.at = "out" /\ c.answer = None
  BY DEF Projects!Call, IsCall, CallFields

LEMMA NewFetches ==
  /\ IsCall(Projects!Fetch(None))
  /\ Projects!Fetch(None).op = "list" /\ Projects!Fetch(None).at = "out"
  BY DEF Projects!Fetch, Projects!Call, IsCall, CallFields

\* Fetching again leaves everything but the fetches alone.
LEMMA Refetches ==
  ASSUME NEW S, \A c \in S : IsCall(c), NEW c \in Projects!Refetching(S)
  PROVE  /\ IsCall(c)
         /\ \/ c \in S
            \/ c.op = "list" /\ (c.at = "out" \/ \E d \in S : d.op = "list" /\ c.at = d.at)
<1>1. CASE c = Projects!Fetch(None)
  BY <1>1, NewFetches
<1>2. CASE \E d \in S : d.op = "list" /\ c = [d EXCEPT !.value = "overtaken", !.answer = None]
  <2>1. PICK d \in S : d.op = "list" /\ c = [d EXCEPT !.value = "overtaken", !.answer = None]
    BY <1>2, Zenon
  <2>2. d = [f \in CallFields |-> d[f]]
    BY DEF IsCall
  <2>3. IsCall(c) /\ c.op = d.op /\ c.at = d.at
    BY <2>1, <2>2, Zenon DEF IsCall, CallFields
  <2> QED
    BY <2>1, <2>3
<1> QED
  BY <1>1, <1>2, Zenon DEF Projects!Refetching, Projects!Overtaken

\* An answer keeps what was asked.
LEMMA Answers ==
  ASSUME NEW c, IsCall(c), NEW at, NEW answer
  PROVE  LET d == [c EXCEPT !.at = at, !.answer = answer]
         IN  /\ IsCall(d) /\ d.at = at /\ d.answer = answer
             /\ d.op = c.op /\ d.item = c.item /\ d.value = c.value /\ d.step = c.step
  BY Zenon DEF IsCall, CallFields

LEMMA BoardsStart ==
  ASSUME Projects!Init
  PROVE  PlainInv /\ ui.gate = None /\ \A c \in calls : c.op = "list" /\ c.at = "out"
<1>1. ui = [f \in BoardsFields |-> ui[f]] /\ ui.gate = None
  BY Zenon DEF Projects!Init, BoardsFields
<1>2. server = [i \in Item |-> server[i]]
  BY Zenon DEF Projects!Init, Projects!List
<1>3. calls = {Projects!Fetch(None)}
  BY Zenon DEF Projects!Init
<1> QED
  BY <1>1, <1>2, <1>3, NewFetches DEF PlainInv

\* What a step may do to the ui, to the server and to the calls.
LEMMA PlainKept ==
  ASSUME PlainInv,
         ui' = [f \in BoardsFields |-> ui'[f]],
         server' = [i \in Item |-> server'[i]],
         \A c \in calls' : IsCall(c)
  PROVE  PlainInv'
  BY DEF PlainInv, IsCall

\* The handlers of users: a call more, or none.
LEMMA UserSteps ==
  ASSUME PlainInv, Projects!User
  PROVE  /\ PlainInv'
         /\ server' = server /\ page' = page
         /\ page # "projects" =>
              /\ ui'.gate = ui.gate \/ ui'.gate = None
              /\ \A c \in calls' : \/ \E d \in calls : d.op = c.op
                                   \/ c.op \in {"list", "move", "toggle", "delete", "add"}
                                   \/ c.op = "force" /\ ui.gate # None
<1> USE DEF PlainInv
<1>1. ASSUME NEW i, NEW op, NEW value, NEW prev, Projects!Ask(i, op, value, prev)
      PROVE  \A c \in calls' : IsCall(c) /\ (c \in calls \/ c.op = op)
  BY <1>1, NewCalls DEF Projects!Ask, Projects!Start
<1>2. CASE Projects!Retry
  BY <1>2, Refetches, PlainKept DEF Projects!Retry
<1>3. CASE Projects!ForceAdvance
  BY <1>1, <1>3, PlainKept DEF Projects!ForceAdvance
<1>4. CASE Projects!CancelGate
  BY <1>4, PlainKept DEF Projects!CancelGate, BoardsFields
<1>5. CASE Projects!SwitchView
  <2> USE <1>5
  <2>1. ui' = [f \in BoardsFields |-> ui'[f]] /\ ui'.gate = ui.gate
    BY Zenon DEF Projects!SwitchView, BoardsFields
  <2>2. UNCHANGED <<page, server>>
    BY Zenon DEF Projects!SwitchView
  <2>3. \A c \in calls : IsCall([c EXCEPT !.inst = None]) /\ [c EXCEPT !.inst = None].op = c.op
    BY DEF IsCall, CallFields
  <2>4. calls' = {[c EXCEPT !.inst = None] : c \in calls}
    BY Zenon DEF Projects!SwitchView
  <2>5. \A c \in calls' : IsCall(c) /\ \E d \in calls : d.op = c.op
    BY <2>3, <2>4, Zenon
  <2> QED
    BY <2>1, <2>2, <2>5, PlainKept
<1>6. ASSUME NEW i \in Item, NEW l \in Projects!Lane, Projects!DropProject(i, l)
      PROVE  PlainInv' /\ page = "projects" /\ UNCHANGED <<page, server, ui>>
  BY <1>1, <1>6, PlainKept DEF Projects!DropProject
<1>7. ASSUME NEW i \in Item, NEW l \in Projects!Lane, Projects!DropTask(i, l) \/ Projects!DeleteTask(i)
      PROVE  /\ UNCHANGED <<page, server, ui>>
             /\ \A c \in calls' : IsCall(c) /\ (c \in calls \/ c.op \in {"move", "delete"})
  BY <1>1, <1>7 DEF Projects!DropTask, Projects!DeleteTask
<1>8. ASSUME NEW i \in Item, NEW l \in Projects!Lane, Projects!AddTask(i, l)
      PROVE  /\ UNCHANGED <<page, server>>
             /\ ui' = [f \in BoardsFields |-> ui'[f]] /\ ui'.gate = ui.gate
             /\ \A c \in calls' : IsCall(c) /\ (c \in calls \/ c.op = "add")
  BY <1>8, <1>1 DEF Projects!AddTask, BoardsFields
<1>9. ASSUME NEW i \in Item, NEW l \in Projects!Lane, Projects!DragTask(i, l)
      PROVE  /\ UNCHANGED <<page, server>>
             /\ ui' = [f \in BoardsFields |-> ui'[f]] /\ ui'.gate = ui.gate
             /\ \A c \in calls' : IsCall(c) /\ (c \in calls \/ c.op = "move")
  <2>1. \E x, y : ui' = [ui EXCEPT !.board = x, !.pending = y]
    BY <1>9, Zenon DEF Projects!DragTask
  <2>2. ui' = [f \in BoardsFields |-> ui'[f]] /\ ui'.gate = ui.gate
    BY <2>1, Zenon DEF BoardsFields
  <2> QED
    BY <1>1, <1>9, <2>2, Zenon DEF Projects!DragTask
<1>10. ASSUME NEW i \in Item, Projects!DragPending(i)
       PROVE  /\ UNCHANGED <<page, server, calls>>
              /\ ui' = [f \in BoardsFields |-> ui'[f]] /\ ui'.gate = ui.gate
  <2>1. \E x : ui' = [ui EXCEPT !.board = x]
    BY <1>10, Zenon DEF Projects!DragPending
  <2>2. ui' = [f \in BoardsFields |-> ui'[f]] /\ ui'.gate = ui.gate
    BY <2>1 DEF BoardsFields
  <2> QED
    BY <1>10, <2>2, Zenon DEF Projects!DragPending
<1>11. ASSUME NEW i \in Item, Projects!ToggleTask(i)
       PROVE  /\ UNCHANGED <<page, server>>
              /\ ui' = [f \in BoardsFields |-> ui'[f]] /\ ui'.gate = ui.gate
              /\ \A c \in calls' : IsCall(c) /\ (c \in calls \/ c.op = "toggle")
  <2>1. \E x : ui' = [ui EXCEPT !.pending = x]
    BY <1>11, Zenon DEF Projects!ToggleTask
  <2>2. ui' = [f \in BoardsFields |-> ui'[f]] /\ ui'.gate = ui.gate
    BY <2>1 DEF BoardsFields
  <2> QED
    BY <1>1, <1>11, <2>2, Zenon DEF Projects!ToggleTask
<1>12. CASE \E i \in Item, l \in Projects!Lane : Projects!DropProject(i, l)
  BY <1>6, <1>12
<1>13. CASE \E i \in Item : \/ Projects!DeleteTask(i) \/ Projects!ToggleTask(i)
                            \/ Projects!DragPending(i)
  BY <1>13, <1>1, PlainKept, <1>11, <1>10 DEF Projects!DeleteTask
<1>14. CASE \E i \in Item, l \in Projects!Lane :
              Projects!DropTask(i, l) \/ Projects!AddTask(i, l) \/ Projects!DragTask(i, l)
  BY <1>14, <1>7, PlainKept, <1>8, <1>9
<1> QED
  BY <1>2, <1>3, <1>4, <1>5, <1>12, <1>13, <1>14 DEF Projects!User

\* The server and the answers: no new calls but fetches, and a dialog only
\* for an advance.
LEMMA AnswerSteps ==
  ASSUME PlainInv, NEW c \in calls,
         \/ Projects!Serve(c) \/ Projects!Refuse(c) \/ Projects!Arrives(c)
         \/ Projects!ListFails(c) \/ Projects!Warned(c) \/ Projects!StaffDone(c)
         \/ Projects!StaffFails(c) \/ Projects!PortalSaved(c) \/ Projects!PortalListed(c)
         \/ Projects!PortalRefreshed(c) \/ Projects!PortalFails(c)
  PROVE  /\ PlainInv' /\ page' = page
         /\ ui'.gate = ui.gate \/ ui'.gate = None \/ c.op = "advance"
         /\ \A d \in calls' : d.op = "list" \/ \E e \in calls : e.op = d.op
<1> USE DEF PlainInv
<1>0. IsCall(c)
  OBVIOUS
<1>1. ASSUME NEW d, IsCall(d), d.op = c.op, Projects!Replace(c, d)
      PROVE  \A e \in calls' : IsCall(e) /\ \E x \in calls : x.op = e.op
  BY <1>1 DEF Projects!Replace
<1>2. ASSUME NEW at, NEW answer, Projects!Replace(c, [c EXCEPT !.at = at, !.answer = answer])
      PROVE  \A e \in calls' : IsCall(e) /\ \E x \in calls : x.op = e.op
  BY <1>0, <1>1, <1>2, Answers, Zenon
<1>3. ASSUME NEW x, Projects!Answered(c, x) \/ Projects!Refused(c, x)
      PROVE  \A e \in calls' : IsCall(e) /\ \E y \in calls : y.op = e.op
  BY <1>2, <1>3, Zenon DEF Projects!Answered, Projects!Refused
<1>4. ASSUME calls' \subseteq calls
      PROVE  \A e \in calls' : IsCall(e) /\ \E y \in calls : y.op = e.op
  BY <1>4
<1>5. CASE Projects!Serve(c)
  <2> USE <1>5
  <2>1. ui' = ui /\ page' = page
    BY DEF Projects!Serve
  <2>2. server' = [i \in Item |-> server'[i]]
    BY DEF Projects!Serve, Projects!Listing, Projects!Gate
  <2>3. \/ \E x : Projects!Answered(c, x)
        \/ \E x : Projects!Replace(c, [c EXCEPT !.at = "warn", !.answer = x])
    BY Zenon DEF Projects!Serve, Projects!Listing, Projects!Gate
  <2>4. \A e \in calls' : IsCall(e) /\ \E y \in calls : y.op = e.op
    BY <1>2, <1>3, <2>3, Zenon
  <2> QED
    BY <2>1, <2>2, <2>4, PlainKept
<1>6. CASE Projects!Refuse(c)
  BY <1>6, <1>3, PlainKept DEF Projects!Refuse, Projects!Fault
<1>7. CASE Projects!Arrives(c) \/ Projects!ListFails(c)
  <2>1. UNCHANGED <<page, server>> /\ calls' \subseteq calls
    BY <1>7 DEF Projects!Arrives, Projects!ListArrives, Projects!ListFails, Projects!Ends
  <2>2. PICK u : /\ u = ui \/ \E x, y : u = [ui EXCEPT !.shown = x, !.board = y]
                 /\ ui' = ui \/ \E x : ui' = [u EXCEPT !.failed = x]
    BY <1>7, Zenon DEF Projects!Arrives, Projects!ListArrives, Projects!ListFails, Projects!Fills
  <2>3. u = [f \in BoardsFields |-> u[f]] /\ u.gate = ui.gate
    BY <2>2, Zenon DEF BoardsFields
  <2>4. ui' = [f \in BoardsFields |-> ui'[f]] /\ ui'.gate = ui.gate
    BY <2>2, <2>3, Zenon DEF BoardsFields
  <2> QED
    BY <1>4, <2>1, <2>4, PlainKept
<1>8. CASE Projects!Warned(c)
  BY <1>8, <1>4, PlainKept DEF Projects!Warned, Projects!Ends, BoardsFields
<1>9. ASSUME ui' = Projects!Done(c)
      PROVE  /\ ui' = [f \in BoardsFields |-> ui'[f]]
             /\ ui'.gate = IF c.op = "force" THEN None ELSE ui.gate
  BY <1>9, Zenon DEF Projects!Done, BoardsFields
<1>10. CASE Projects!StaffDone(c)
  BY <1>10, Refetches, <1>9, PlainKept DEF Projects!StaffDone, Projects!EndsAndFetches
<1>11. CASE Projects!StaffFails(c)
  BY <1>11, <1>9, <1>4, PlainKept DEF Projects!StaffFails, Projects!Ends
<1>12. CASE Projects!PortalSaved(c)
  <2> DEFINE d == [c EXCEPT !.step = 2, !.at = "waits"]
  <2>1. UNCHANGED <<page, server, ui>> /\ calls' = Projects!Refetching((calls \ {c}) \cup {d})
    BY <1>12 DEF Projects!PortalSaved
  <2>2. IsCall(d) /\ d.op = c.op
    BY <1>0, Zenon DEF IsCall, CallFields
  <2> HIDE DEF d
  <2>3. \A e \in calls' : IsCall(e) /\ (e \in calls \/ e.op \in {"list", c.op})
    BY <2>1, <2>2, Refetches
  <2> QED
    BY <2>1, <2>3, PlainKept, Zenon
<1>13. CASE Projects!PortalListed(c)
  <2> DEFINE d == [c EXCEPT !.at = "out"]
  <2>1. UNCHANGED <<page, server, ui>> /\ Projects!Replace(c, d)
    BY <1>13 DEF Projects!PortalListed
  <2>2. IsCall(d) /\ d.op = c.op
    BY <1>0 DEF IsCall, CallFields
  <2> HIDE DEF d
  <2>3. \A e \in calls' : IsCall(e) /\ \E y \in calls : y.op = e.op
    BY <1>1, <2>1, <2>2
  <2> QED
    BY <2>1, <2>3, PlainKept
<1>14. CASE Projects!PortalRefreshed(c) \/ Projects!PortalFails(c)
  <2>1. UNCHANGED <<page, server>> /\ calls' \subseteq calls
    BY <1>14 DEF Projects!PortalRefreshed, Projects!PortalFails, Projects!Ends
  <2>2. \/ \E x : ui' = [ui EXCEPT !.pending = x]
        \/ \E x, y : ui' = [ui EXCEPT !.pending = x, !.board = y]
    BY <1>14, Zenon DEF Projects!PortalRefreshed, Projects!PortalFails
  <2>3. ui' = [f \in BoardsFields |-> ui'[f]] /\ ui'.gate = ui.gate
    BY <2>2, Zenon DEF BoardsFields
  <2> QED
    BY <1>4, <2>1, <2>3, PlainKept
<1> QED
  BY <1>5, <1>6, <1>7, <1>8, <1>10, <1>11, <1>12, <1>13, <1>14

LEMMA OtherBoards ==
  ASSUME PlainInv, Ungated, Projects!Next, page # "projects"
  PROVE  Ungated'
  BY UserSteps, AnswerSteps DEF Ungated, Projects!Next

\* Fetches come and go.
LEMMA ToldWithFetches ==
  ASSUME ToldInv, server' = server, ui'.gate = ui.gate \/ ui'.gate = None,
         \A c \in calls' : c \in calls \/ (c.op = "list" /\ c.at # "waits"),
         \A c \in calls : c.op # "list" => c \in calls'
  PROVE  ToldInv'
  BY DEF Moving, ToldInv, Told, GateTold, Projects!Moves

\* A change is answered; the answer to a dialog closes it.
LEMMA ToldWhenEnding ==
  ASSUME ToldInv, NEW c \in calls, c.op # "list", server' = server,
         ui'.gate = IF c.op = "force" THEN None ELSE ui.gate,
         \A d \in calls' : (d \in calls /\ d # c) \/ (d.op = "list" /\ d.at # "waits"),
         \A d \in calls \ {c} : d.op # "list" => d \in calls'
  PROVE  ToldInv'
<1>1. \A i : Moving(calls', i) = Moving(calls, i) \ {c}
  BY DEF Moving
<1>2. \A d \in calls' : /\ d.op \in Projects!Moves \cup {"list"} /\ d.at # "waits"
                        /\ d.op # "list" => d.step = 1 /\ d.item \in Item
                        /\ Told(d, server')
  BY DEF ToldInv, Told
<1>3. GateTold(ui'.gate, calls', server')
  <2> SUFFICES ASSUME ui'.gate # None PROVE GateTold(ui.gate, calls', server)
    BY DEF GateTold
  <2>1. c.op # "force" /\ ui.gate # None
    OBVIOUS
  <2>2. c \notin Moving(calls, ui.gate.item)
    BY <2>1 DEF ToldInv, GateTold
  <2>3. Moving(calls', ui.gate.item) = Moving(calls, ui.gate.item)
    BY <1>1, <2>2, Zenon
  <2> QED
    BY <2>1, <2>3 DEF ToldInv, GateTold
<1> QED
  BY <1>1, <1>2, <1>3 DEF ToldInv, Projects!Moves

\* A change is carried out, refused or objected to.
LEMMA ToldWhenServed ==
  ASSUME ToldInv, NEW c \in calls, c.op # "list", NEW d, d.op = c.op, d.item = c.item,
         d.step = c.step, d.at # "waits", Projects!Replace(c, d), ui' = ui,
         server = [i \in Item |-> server[i]],
         \A i \in Item : i # c.item => server'[i] = server[i],
         Told(d, server')
  PROVE  ToldInv'
<1>1. calls' = (calls \ {c}) \cup {d}
  BY DEF Projects!Replace
<1>2. c.item \in Item
  BY DEF ToldInv
<1>3. \A i : i # c.item => Moving(calls', i) = Moving(calls, i)
  BY <1>1 DEF Moving
<1>4. Moving(calls, c.item) = {c}
  BY <1>2 DEF Moving, ToldInv
<1>5. Moving(calls', c.item) = {d}
  BY <1>4, <1>1 DEF Moving
<1>6. \A e \in calls' : /\ e.op \in Projects!Moves \cup {"list"} /\ e.at # "waits"
                        /\ e.op # "list" => e.step = 1 /\ e.item \in Item
                        /\ Told(e, server')
  <2> SUFFICES ASSUME NEW e \in calls', e # d
               PROVE  /\ e.op \in Projects!Moves \cup {"list"} /\ e.at # "waits"
                      /\ e.op # "list" => e.step = 1 /\ e.item \in Item
                      /\ Told(e, server')
    BY <1>1, <1>2 DEF ToldInv
  <2>1. e \in calls /\ e # c
    BY <1>1
  <2> USE <2>1
  <2>2. e.op # "list" => e.item # c.item
    BY <1>4 DEF Moving
  <2>3. e.op # "list" => server'[e.item] = server[e.item]
    BY <2>2 DEF ToldInv
  <2>4. Told(e, server')
    BY <2>3 DEF ToldInv, Told
  <2> QED
    BY <2>4 DEF ToldInv
<1>7. \A i \in Item : \A x, y \in Moving(calls', i) : x = y
  BY <1>3, <1>5 DEF ToldInv
<1>8. GateTold(ui'.gate, calls', server')
  <2> SUFFICES ASSUME ui.gate # None PROVE GateTold(ui.gate, calls', server')
    BY DEF GateTold
  <2>1. CASE ui.gate.item = c.item
    BY <1>2, <1>4, <1>5, <2>1 DEF ToldInv, GateTold
  <2>2. CASE ui.gate.item # c.item
    BY <1>3, <2>2 DEF ToldInv, GateTold
  <2> QED
    BY <2>1, <2>2
<1> QED
  BY <1>6, <1>7, <1>8 DEF ToldInv, Projects!Moves

\* Something is asked while nothing else is under way for the project.
LEMMA ToldWhenAsked ==
  ASSUME ToldInv, NEW i \in Item, NEW op \in {"move", "advance", "force"}, NEW value, NEW prev,
         Projects!Ask(i, op, value, prev), clean', page = "projects",
         UNCHANGED <<server, ui>>,
         op # "force" => ui.gate = None,
         op = "force" => i = ui.gate.item /\ value = ui.gate.to /\ ui.gate # None
  PROVE  ToldInv'
<1> DEFINE new == Projects!Call(made, 0, i, op, value, prev)
<1>1. calls' = calls \cup {new}
  BY DEF Projects!Ask, Projects!Start
<1>2. /\ new.op = op /\ new.item = i /\ new.value = value /\ new.step = 1 /\ new.at = "out"
  BY NewCalls
<1> USE <1>2
<1> HIDE DEF new
<1>3. Moving(calls, i) = {}
  BY Zenon DEF Projects!Ask, Projects!Alone, Moving, ToldInv
<1>4. Moving(calls', i) = {new}
  BY <1>1, <1>3 DEF Moving
<1>5. \A j : j # i => Moving(calls', j) = Moving(calls, j)
  BY <1>1 DEF Moving
<1>6. op = "force" => value = server[i] + 1
  BY <1>3 DEF ToldInv, GateTold
<1>7. \A c \in calls' : /\ c.op \in Projects!Moves \cup {"list"} /\ c.at # "waits"
                        /\ c.op # "list" => c.step = 1 /\ c.item \in Item
                        /\ Told(c, server')
  BY <1>1, <1>6 DEF ToldInv, Told, Projects!Moves
<1>8. \A j \in Item : \A x, y \in Moving(calls', j) : x = y
  BY <1>4, <1>5 DEF ToldInv
<1>9. GateTold(ui'.gate, calls', server')
  BY <1>4 DEF GateTold
<1> QED
  BY <1>7, <1>8, <1>9 DEF ToldInv, Projects!Moves

LEMMA NoMoveIsAList == "list" \notin Projects!Moves
  BY DEF Projects!Moves

LEMMA BoardsClean == Projects!Next => clean' = clean \/ clean' = (clean /\ clean')
<1> SUFFICES ASSUME Projects!Next PROVE clean' = clean \/ clean' = (clean /\ clean')
  OBVIOUS
<1>1. CASE Projects!User
  BY <1>1, Zenon DEF Projects!User, Projects!Retry, Projects!ForceAdvance, Projects!CancelGate,
     Projects!SwitchView, Projects!DeleteTask, Projects!ToggleTask, Projects!DragPending,
     Projects!DropProject, Projects!DropTask, Projects!AddTask, Projects!DragTask, Projects!Ask
<1>2. CASE ~Projects!User
  BY <1>2, Zenon DEF Projects!Next, Projects!Serve, Projects!Refuse, Projects!Arrives,
     Projects!ListArrives, Projects!ListFails, Projects!Warned, Projects!StaffDone,
     Projects!StaffFails, Projects!PortalSaved, Projects!PortalListed,
     Projects!PortalRefreshed, Projects!PortalFails
<1> QED
  BY <1>1, <1>2

LEMMA ToldSteps ==
  ASSUME PlainInv, ToldInv, clean', page = "projects", Projects!Next
  PROVE  ToldInv'
<1>0. /\ ui = [f \in BoardsFields |-> ui[f]]
      /\ server = [i \in Item |-> server[i]]
      /\ \A c \in calls : IsCall(c)
  BY DEF PlainInv
<1>1. CASE Projects!User
  <2>1. CASE Projects!Retry
    <3>1. calls' = Projects!Refetching(calls) /\ UNCHANGED <<server, ui>>
      BY <2>1 DEF Projects!Retry
    <3> USE <3>1
    <3>2. \A c \in calls' : c \in calls \/ (c.op = "list" /\ c.at # "waits")
      BY <1>0, Refetches DEF ToldInv
    <3>3. \A c \in calls : c.op # "list" => c \in calls'
      BY Zenon DEF Projects!Refetching, Projects!Overtaken
    <3> QED
      BY <3>2, <3>3, ToldWithFetches
  <2>2. CASE Projects!ForceAdvance
    BY <2>2, ToldWhenAsked DEF Projects!ForceAdvance, ToldInv, GateTold
  <2>3. CASE Projects!CancelGate
    BY <1>0, <2>3, ToldWithFetches DEF Projects!CancelGate, BoardsFields
  <2>4. ASSUME NEW i \in Item, NEW l \in Projects!Lane, Projects!DropProject(i, l)
        PROVE  ToldInv'
    BY <2>4, ToldWhenAsked DEF Projects!DropProject
  <2> QED
    BY <1>1, <2>1, <2>2, <2>3, <2>4 DEF Projects!User, Projects!SwitchView,
       Projects!DeleteTask, Projects!ToggleTask, Projects!DragPending, Projects!DropTask,
       Projects!AddTask, Projects!DragTask
<1>2. ASSUME NEW c \in calls, Projects!Serve(c)
      PROVE  ToldInv'
  <2>1. ui' = ui /\ c.at = "out" /\ IsCall(c)
    BY <1>0, <1>2 DEF Projects!Serve
  <2>2. CASE c.op = "list"
    <3> USE <2>2
    <3>1. PICK x : Projects!Answered(c, x) /\ server' = server
      BY <1>2 DEF Projects!Serve, Projects!Listing, Projects!Gate
    <3>2. PICK d : d = [c EXCEPT !.at = "ok", !.answer = x]
      OBVIOUS
    <3>3. d.op = "list" /\ d.at = "ok"
      BY <2>1, <3>2 DEF IsCall, CallFields
    <3>4. calls' = (calls \ {c}) \cup {d}
      BY <3>1, <3>2 DEF Projects!Answered, Projects!Replace
    <3> QED
      BY <2>1, <3>1, <3>3, <3>4, ToldWithFetches
  <2>3. CASE c.op # "list"
    <3>1. c.step = 1 /\ c.item \in Item /\ Told(c, server)
      BY <2>3 DEF ToldInv
    <3>2. \/ Projects!Gate(c)
          \/ /\ Projects!Answered(c, Projects!Next1(c))
             /\ server' = [server EXCEPT ![c.item] = Projects!Next1(c)]
      BY <1>2, <2>3, <3>1 DEF Projects!Serve, Projects!Listing
    <3>3. CASE Projects!Gate(c)
      <4> DEFINE said == [item |-> c.item, from |-> server[c.item], to |-> server[c.item] + 1]
      <4>1. PICK d : d = [c EXCEPT !.at = "warn", !.answer = said]
        OBVIOUS
      <4>2. Projects!Replace(c, d) /\ server' = server /\ c.op = "advance"
        BY <3>3, <4>1 DEF Projects!Gate
      <4>3. said.item = c.item /\ said.to = server[c.item] + 1
        OBVIOUS
      <4> HIDE DEF said
      <4>4. /\ d.op = c.op /\ d.item = c.item /\ d.step = c.step
            /\ d.at = "warn" /\ d.answer = said
        BY <2>1, <4>1 DEF IsCall, CallFields
      <4>5. Told(d, server')
        BY <4>2, <4>3, <4>4 DEF Told
      <4> QED
        BY <1>0, <2>1, <2>3, <4>2, <4>4, <4>5, ToldWhenServed
    <3>4. CASE /\ Projects!Answered(c, Projects!Next1(c))
               /\ server' = [server EXCEPT ![c.item] = Projects!Next1(c)]
      <4>1. PICK d : d = [c EXCEPT !.at = "ok", !.answer = Projects!Next1(c)]
        OBVIOUS
      <4>2. Projects!Replace(c, d)
        BY <3>4, <4>1 DEF Projects!Answered
      <4>3. /\ d.op = c.op /\ d.item = c.item /\ d.step = c.step /\ d.value = c.value
            /\ d.at = "ok" /\ d.answer = Projects!Next1(c)
        BY <2>1, <4>1 DEF IsCall, CallFields
      <4>4. \A i \in Item : i # c.item => server'[i] = server[i]
        BY <1>0, <3>4
      <4>5. c.op = "force" => Projects!Next1(c) = c.value
        BY <2>1, <3>1 DEF Told, Projects!Next1
      <4>6. Told(d, server')
        BY <4>3, <4>5 DEF Told
      <4> QED
        BY <1>0, <2>1, <2>3, <4>2, <4>3, <4>4, <4>6, ToldWhenServed
    <3> QED
      BY <3>2, <3>3, <3>4
  <2> QED
    BY <2>2, <2>3
<1>3. ASSUME NEW c \in calls, Projects!Refuse(c)
      PROVE  ToldInv'
  <2>1. PICK x : Projects!Refused(c, x) /\ UNCHANGED <<server, ui>>
    BY <1>3 DEF Projects!Refuse, Projects!Fault
  <2>2. PICK d : d = [c EXCEPT !.at = "no", !.answer = x]
    OBVIOUS
  <2>3. Projects!Replace(c, d)
    BY <2>1, <2>2 DEF Projects!Refused
  <2>4. d.op = c.op /\ d.item = c.item /\ d.step = c.step /\ d.at = "no"
    BY <1>0, <2>2 DEF IsCall, CallFields
  <2> USE <2>4
  <2>5. Told(d, server')
    BY DEF Told
  <2>6. CASE c.op = "list"
    BY <2>3, <2>1, <2>6, ToldWithFetches DEF Projects!Replace
  <2>7. CASE c.op # "list"
    BY <1>0, <2>1, <2>3, <2>5, <2>7, ToldWhenServed
  <2> QED
    BY <2>6, <2>7
<1>4. ASSUME NEW c \in calls, Projects!Arrives(c) \/ Projects!ListFails(c)
      PROVE  ToldInv'
  <2>1. c.op = "list" /\ calls' = calls \ {c} /\ server' = server
    BY <1>4, Zenon DEF Projects!Arrives, Projects!ListArrives, Projects!ListFails, Projects!Ends
  <2>2. ui'.gate = ui.gate \/ ui'.gate = None
    BY <1>4, <2>1, AnswerSteps
  <2> QED
    BY <2>1, <2>2, ToldWithFetches
<1>5. ASSUME NEW c \in calls, Projects!Warned(c)
      PROVE  ToldInv'
  BY <1>5, <1>0 DEF Projects!Warned, Projects!Ends, BoardsFields, ToldInv, Told, Moving, GateTold,
     Projects!Moves
<1>6. ASSUME NEW c \in calls, Projects!StaffDone(c) \/ Projects!StaffFails(c)
      PROVE  ToldInv'
  <2>1. /\ c.op \in Projects!Moves /\ server' = server /\ ui' = Projects!Done(c)
        /\ calls' = Projects!Refetching(calls \ {c}) \/ calls' = calls \ {c}
    BY <1>6, Zenon DEF Projects!StaffDone, Projects!StaffFails, Projects!EndsAndFetches, Projects!Ends
  <2> USE <2>1
  <2>2. ui'.gate = IF c.op = "force" THEN None ELSE ui.gate
    BY <1>0 DEF Projects!Done, BoardsFields
  <2>3. \A d \in calls' : (d \in calls /\ d # c) \/ (d.op = "list" /\ d.at # "waits")
    BY <1>0, Refetches DEF ToldInv
  <2>4. \A d \in calls \ {c} : d.op # "list" => d \in calls'
    BY Zenon DEF Projects!Refetching, Projects!Overtaken
  <2>5. c.op # "list"
    BY NoMoveIsAList
  <2> QED
    BY <2>2, <2>3, <2>4, <2>5, ToldWhenEnding
<1>7. ASSUME NEW c \in calls,
             \/ Projects!PortalSaved(c) \/ Projects!PortalListed(c)
             \/ Projects!PortalRefreshed(c) \/ Projects!PortalFails(c)
      PROVE  FALSE
  BY <1>7 DEF Projects!Staff, ToldInv, Projects!PortalSaved, Projects!PortalListed,
     Projects!PortalRefreshed, Projects!PortalFails
<1> QED
  BY <1>1, <1>2, <1>3, <1>4, <1>5, <1>6, <1>7 DEF Projects!Next

LEMMA ForcingStarts == Init => ForcingInv
<1> SUFFICES ASSUME Init PROVE ForcingInv
  OBVIOUS
<1>1. page \in Boards => PlainInv /\ Ungated /\ ToldInv
  <2> SUFFICES ASSUME Projects!Init PROVE PlainInv /\ Ungated /\ ToldInv
    BY StartsOn
  <2>1. PlainInv /\ ui.gate = None /\ \A c \in calls : c.op = "list" /\ c.at = "out"
    BY BoardsStart
  <2>2. \A i : Moving(calls, i) = {}
    BY <2>1 DEF Moving
  <2> QED
    BY <2>1, <2>2 DEF Ungated, ToldInv, Told, GateTold
<1> QED
  BY <1>1, StartsOn, BoardStarts, FormStarts DEF ForcingInv

LEMMA ForcingSteps == ForcingInv /\ [Next]_vars => ForcingInv'
<1> SUFFICES ASSUME ForcingInv, [Next]_vars PROVE ForcingInv'
  OBVIOUS
<1>1. CASE UNCHANGED vars
  BY <1>1 DEF vars, BoardInv, Board!ForcedWasAsked, FormInv, SaveInv, PlainInv, IsCall, Ungated,
     ToldInv, Projects!Moves, ForcingInv
<1>2. CASE /\ page' = page
           /\ page = "board" => Board!Next
           /\ page \in Boards => Projects!Next
           /\ page = "form" => Form!Next
  <2>1. page = "board" => BoardInv'
    BY <1>2, BoardSteps DEF ForcingInv
  <2>2. page = "form" => FormInv'
    BY <1>2, FormSteps DEF ForcingInv
  <2>3. ASSUME page \in Boards
        PROVE  /\ PlainInv'
               /\ page # "projects" => Ungated'
               /\ page = "projects" /\ clean' => ToldInv'
    <3>1. PlainInv /\ Projects!Next
      BY <1>2, <2>3 DEF ForcingInv
    <3> USE <3>1
    <3>2. PlainInv'
      BY UserSteps, AnswerSteps DEF Projects!Next
    <3>3. page # "projects" => Ungated'
      BY <2>3, OtherBoards DEF ForcingInv
    <3>4. ASSUME page = "projects", clean'
          PROVE  ToldInv'
      <4> USE <3>4
      <4>1. clean
        BY BoardsClean, Zenon
      <4>2. ToldInv
        BY <2>3, <4>1 DEF ForcingInv
      <4> QED
        BY <4>2, ToldSteps
    <3> QED
      BY <3>2, <3>3, <3>4
  <2> QED
    BY <1>2, <2>1, <2>2, <2>3, Zenon DEF ForcingInv, Boards
<1> QED
  BY <1>1, <1>2, StaysOn

\* Whatever overlaps, fails and is answered late, for any number of items and
\* calls: a move that is forced onto a conflict, a schedule that is saved in
\* spite of an outside calendar and a project that is advanced past its gate
\* are what the user was asked about.
THEOREM ForcedIsWhatWasAsked == Spec => []ForcedWasAsked
<1>1. ForcingInv => ForcedWasAsked
  BY DEF ForcingInv, BoardInv, FormInv, SaveInv, Form!ForcedWasAsked, Ungated,
     Projects!ForcedOnce, Projects!AdvancesAsTold, ToldInv, Told, ForcedWasAsked
<1> QED
  BY <1>1, ForcingStarts, ForcingSteps, PTL DEF Spec


-----------------------------------------------------------------------------
(* What is disabled waits for an answer                                    *)

LEMMA NewCall ==
  ASSUME NEW id, NEW inst, NEW item, NEW op, NEW value, NEW prev
  PROVE  LET c == Call(id, inst, item, op, value, prev)
         IN  /\ IsCall(c)
             /\ c.id = id /\ c.inst = inst /\ c.item = item /\ c.op = op
             /\ c.value = value /\ c.step = 1 /\ c.at = "out"
  BY DEF Call, IsCall, CallFields

LEMMA OneMore ==
  ASSUME AreCalls(calls), NEW inst, NEW item, NEW op, NEW value, NEW prev,
         calls' = calls \cup {Call(made, inst, item, op, value, prev)}
  PROVE  /\ AreCalls(calls')
         /\ \A c \in calls : c \in calls'
         /\ \A c \in calls' : c \in calls \/ (c.inst = inst /\ c.item = item /\ c.op = op)
         /\ \E c \in calls' : c.id = made /\ c.inst = inst /\ c.item = item /\ c.op = op
  BY NewCall DEF AreCalls

\* A call that is answered, or goes on, is still the call that it was.
LEMMA GoesOn ==
  ASSUME NEW c, IsCall(c), NEW d, NEW x, NEW y,
         \/ d = [c EXCEPT !.at = x, !.answer = y]
         \/ d = [c EXCEPT !.step = 2, !.at = x, !.answer = y]
         \/ d = [c EXCEPT !.at = x]
  PROVE  IsCall(d) /\ SameCall(c, d) /\ d.at = x /\ d.value = c.value
         /\ d.step \in {c.step, 2}
  BY Zenon DEF IsCall, CallFields, SameCall

LEMMA WentOn ==
  ASSUME AreCalls(calls), NEW c \in calls, NEW x, NEW y,
         calls' = (calls \ {c}) \cup {[c EXCEPT !.at = x, !.answer = y]}
  PROVE  /\ AreCalls(calls')
         /\ \A e \in calls : \E g \in calls' : SameCall(e, g)
<1>1. PICK d : d = [c EXCEPT !.at = x, !.answer = y]
  OBVIOUS
<1>2. IsCall(d) /\ SameCall(c, d)
  BY <1>1, GoesOn, Zenon DEF AreCalls
<1>3. calls' = (calls \ {c}) \cup {d}
  BY <1>1
<1> QED
  BY <1>2, <1>3 DEF AreCalls, SameCall

LEMMA Ended ==
  ASSUME AreCalls(calls), NEW c, calls' = calls \ {c}
  PROVE  /\ AreCalls(calls')
         /\ \A e \in calls : e = c \/ e \in calls'
  BY DEF AreCalls

\* Fetching a list again leaves everything but the fetches alone.
LEMMA Refetched ==
  ASSUME NEW S, AreCalls(S), NEW k,
         \A e \in calls' : \/ e = Fetch(k)
                           \/ e \in S
                           \/ \E c \in S : c.op = "list" /\ e = Late(c)
  PROVE  AreCalls(calls') /\ \A e \in calls' : e \in S \/ e.op = "list"
<1>1. IsCall(Fetch(k)) /\ Fetch(k).op = "list"
  BY DEF Fetch, Call, IsCall, CallFields
<1>2. ASSUME NEW c \in S
      PROVE  IsCall(Late(c)) /\ Late(c).op = c.op
  <2>1. IsCall(c)
    BY DEF AreCalls
  <2> QED
    BY <2>1, Zenon DEF Late, IsCall, CallFields
<1>3. ASSUME NEW e \in calls'
      PROVE  IsCall(e) /\ (e \in S \/ e.op = "list")
  BY <1>1, <1>2 DEF AreCalls
<1> QED
  BY <1>3 DEF AreCalls

-----------------------------------------------------------------------------
(* The task dialogs                                                        *)

LEMMA TaskUserSteps == TaskWaits /\ TaskPage!User /\ page' = page => TaskWaits'
<1> SUFFICES ASSUME TaskWaits, TaskPage!User, page' = page PROVE TaskWaits'
  OBVIOUS
<1> USE DEF TaskPage!Staff
<1>0. AreCalls(calls)
  BY DEF TaskWaits
<1>1. ASSUME NEW inst, NEW item, NEW op, NEW value, NEW prev,
             TaskPage!Start(inst, item, op, value, prev)
      PROVE  /\ AreCalls(calls')
             /\ \A c \in calls : c \in calls'
             /\ \E c \in calls' : c.inst = inst /\ c.op = op
  BY <1>1, <1>0, OneMore DEF TaskPage!Start, TaskPage!Call, Call
<1>2. ASSUME NEW t \in Item, TaskPage!OpenTask(t)
      PROVE  TaskWaits'
  BY <1>2, <1>1 DEF TaskPage!OpenTask, TaskFields, TaskWaits, SpinsFor, LoadsFor
<1>3. CASE TaskPage!Close
  BY <1>0, <1>3 DEF TaskPage!Close, TaskWaits
<1>4. ASSUME ui # None, ui' = [f \in TaskFields |-> ui'[f]], ui'.inst = ui.inst,
             AreCalls(calls'), \A c \in calls : c \in calls',
             ui'.loading => ui.loading \/ \E c \in calls' : LoadsFor(c, ui'),
             ui'.sending => ui.sending \/ \E c \in calls' : c.inst = ui.inst /\ c.op = "comment",
             ui'.busy => ui.busy \/ (~TaskPage!Staff /\ \E c \in calls' : c.inst = ui.inst /\ c.op = "status"),
             ui'.uploading =>
               ui.uploading \/ (~TaskPage!Staff /\ \E c \in calls' : c.inst = ui.inst /\ c.op = "upload")
      PROVE  TaskWaits'
  BY <1>4 DEF TaskWaits, SpinsFor, LoadsFor
<1>5. ASSUME ui # None
      PROVE  ui = [f \in TaskFields |-> ui[f]]
  BY <1>5 DEF TaskWaits, SpinsFor
<1>6. CASE TaskPage!Retry
  <2>1. ui # None /\ ui' = [ui EXCEPT !.loading = TRUE] /\ ~TaskPage!Staff
        /\ TaskPage!Start(ui'.inst, ui'.task, "load", None, None)
    BY <1>6 DEF TaskPage!Retry, TaskPage!Ask, TaskPage!Open
  <2> USE <2>1
  <2>2. /\ ui' = [f \in TaskFields |-> ui'[f]] /\ ui'.inst = ui.inst
        /\ ui'.sending = ui.sending /\ ui'.busy = ui.busy /\ ui'.uploading = ui.uploading
    BY <1>5, Zenon DEF TaskFields
  <2>3. AreCalls(calls') /\ (\A c \in calls : c \in calls') /\ \E c \in calls' : LoadsFor(c, ui')
    BY <1>1, <2>2 DEF LoadsFor
  <2> QED
    BY <1>4, <2>2, <2>3
<1>7. CASE TaskPage!BlurText \/ TaskPage!Detach \/ TaskPage!Delete
  BY <1>7, <1>1, <1>4, <1>5 DEF TaskPage!BlurText, TaskPage!Detach, TaskPage!Delete, TaskPage!Ask,
     TaskPage!Open, TaskPage!Shown
<1>8. CASE TaskPage!ToggleFlag \/ \E o \in TaskPage!Owner : TaskPage!PickOwner(o)
  BY <1>5, <1>8, <1>1, <1>4 DEF TaskPage!ToggleFlag, TaskPage!PickOwner, TaskPage!Ask,
     TaskPage!Open, TaskPage!Shown, TaskFields
<1>9. CASE TaskPage!Send
  <2>1. ui # None /\ ui' = [ui EXCEPT !.sending = TRUE]
        /\ TaskPage!Start(ui'.inst, ui'.task, "comment", None, None)
    BY <1>9 DEF TaskPage!Send, TaskPage!Ask, TaskPage!Open, TaskPage!Shown
  <2> USE <2>1
  <2>2. /\ ui' = [f \in TaskFields |-> ui'[f]] /\ ui'.inst = ui.inst
        /\ ui'.loading = ui.loading /\ ui'.busy = ui.busy /\ ui'.uploading = ui.uploading
    BY <1>5, Zenon DEF TaskFields
  <2>3. AreCalls(calls') /\ (\A c \in calls : c \in calls')
        /\ \E c \in calls' : c.inst = ui.inst /\ c.op = "comment"
    BY <1>1, <2>2
  <2> QED
    BY <1>4, <2>2, <2>3
<1>10. CASE TaskPage!Upload
  <2>1. ui # None /\ ui' = [ui EXCEPT !.uploading = ~TaskPage!Staff]
        /\ TaskPage!Start(ui'.inst, ui'.task, "upload", None, None)
    BY <1>10 DEF TaskPage!Upload, TaskPage!Ask, TaskPage!Open, TaskPage!Shown
  <2> USE <2>1
  <2>2. /\ ui' = [f \in TaskFields |-> ui'[f]] /\ ui'.inst = ui.inst
        /\ ui'.loading = ui.loading /\ ui'.busy = ui.busy /\ ui'.sending = ui.sending
        /\ ui'.uploading = ~TaskPage!Staff
    BY <1>5 DEF TaskFields
  <2>3. AreCalls(calls') /\ (\A c \in calls : c \in calls')
        /\ \E c \in calls' : c.inst = ui.inst /\ c.op = "upload"
    BY <1>1, <2>2
  <2> QED
    BY <1>4, <2>2, <2>3, Zenon
<1>11. ASSUME NEW s \in Status, TaskPage!PickStatus(s)
       PROVE  TaskWaits'
  <2>1. ui # None /\ (\E x : ui' = [ui EXCEPT !.view = x, !.busy = ~TaskPage!Staff])
        /\ TaskPage!Start(ui'.inst, ui'.task, "status", s, ui.view.status)
    BY <1>5, <1>11, Zenon DEF TaskPage!PickStatus, TaskPage!Ask, TaskPage!Open, TaskPage!Shown, TaskFields
  <2> USE <2>1
  <2>2. /\ ui' = [f \in TaskFields |-> ui'[f]] /\ ui'.inst = ui.inst
        /\ ui'.loading = ui.loading /\ ui'.uploading = ui.uploading /\ ui'.sending = ui.sending
        /\ ui'.busy = ~TaskPage!Staff
    BY <1>5, Zenon DEF TaskFields
  <2>3. AreCalls(calls') /\ (\A c \in calls : c \in calls')
        /\ \E c \in calls' : c.inst = ui.inst /\ c.op = "status"
    BY <1>1, <2>2
  <2> QED
    BY <1>4, <2>2, <2>3, Zenon
<1>12. CASE \/ \E x \in Value : TaskPage!TypeText(x)
            \/ \E b \in BOOLEAN : \E kept \in SUBSET Single : TaskPage!TypeBody(b, kept)
            \/ \E m \in Single : TaskPage!AcceptMember(m)
  BY <1>5, <1>12, <1>0, <1>4 DEF TaskPage!TypeText, TaskPage!TypeBody, TaskPage!AcceptMember,
     TaskPage!Open, TaskPage!Shown, TaskFields
<1> QED
  BY <1>2, <1>3, <1>6, <1>7, <1>8, <1>9, <1>10, <1>11, <1>12 DEF TaskPage!User

LEMMA TaskAnswerSteps ==
  ASSUME TaskWaits, page' = page, NEW c \in calls,
         TaskPage!Serve(c) \/ TaskPage!Refuse(c) \/ TaskPage!Answer(c)
  PROVE  TaskWaits'
<1> USE DEF TaskPage!Staff
<1>0. AreCalls(calls) /\ IsCall(c)
  BY DEF TaskWaits, AreCalls
\* A call goes on, and the dialog is not told, or starts to load.
<1>1. ASSUME NEW d, calls' = (calls \ {c}) \cup {d}, IsCall(d), SameCall(c, d), d.step \in {c.step, 2},
             \/ ui' = ui
             \/ /\ ui # None /\ ui' = [f \in TaskFields |-> ui'[f]] /\ ui'.inst = ui.inst
                /\ ~ui'.sending /\ ui'.busy = ui.busy /\ ui'.uploading = ui.uploading
                /\ ~TaskPage!Staff /\ d.op \in {"upload", "detach"} /\ d.step = 2 /\ d.inst = ui.inst
      PROVE  TaskWaits'
  BY <1>0, <1>1 DEF AreCalls, TaskWaits, LoadsFor, SameCall, SpinsFor
\* A call ends, and a dialog that asked for it does not wait for it any more.
<1>2. ASSUME calls' = calls \ {c},
             \/ ui' = None
             \/ ui' = ui /\ (ui # None => ui.inst # c.inst \/ c.op \in {"text", "owner", "flag", "delete"})
             \/ /\ ui # None /\ ui' = [f \in TaskFields |-> ui'[f]] /\ ui'.inst = ui.inst
                /\ ~ui'.loading \/ (ui'.loading = ui.loading /\ ~LoadsFor(c, ui))
                /\ ~ui'.sending \/ (ui'.sending = ui.sending /\ c.op # "comment")
                /\ ~ui'.busy \/ (ui'.busy = ui.busy /\ c.op # "status")
                /\ ~ui'.uploading \/ (ui'.uploading = ui.uploading /\ c.op # "upload")
      PROVE  TaskWaits'
  BY <1>0, <1>2 DEF AreCalls, TaskWaits, SpinsFor, LoadsFor
<1>3. CASE TaskPage!Serve(c) \/ TaskPage!Refuse(c)
  <2>1. PICK x, y : calls' = (calls \ {c}) \cup {[c EXCEPT !.at = x, !.answer = y]}
    BY <1>3, Zenon DEF TaskPage!Serve, TaskPage!Refuse, TaskPage!Answered, TaskPage!Refused,
       TaskPage!Replace, TaskPage!Fault
  <2>2. ui' = ui
    BY <1>3 DEF TaskPage!Serve, TaskPage!Refuse
  <2>3. PICK d : d = [c EXCEPT !.at = x, !.answer = y]
    OBVIOUS
  <2> QED
    BY <1>0, <1>1, <2>1, <2>2, <2>3, GoesOn, Zenon
<1>4. CASE TaskPage!StatusSaved(c) \/ TaskPage!CommentPosted(c)
  <2>1. calls' = (calls \ {c}) \cup {[c EXCEPT !.step = 2, !.at = "out", !.answer = None]} /\ ui' = ui
    BY <1>4 DEF TaskPage!StatusSaved, TaskPage!CommentPosted, TaskPage!Continue, TaskPage!Replace
  <2>2. PICK d : d = [c EXCEPT !.step = 2, !.at = "out", !.answer = None]
    OBVIOUS
  <2> QED
    BY <1>0, <1>1, <2>1, <2>2, GoesOn, Zenon
<1>5. ASSUME ui # None
      PROVE  ui = [f \in TaskFields |-> ui[f]]
  BY <1>5 DEF TaskWaits, SpinsFor
<1>6. CASE TaskPage!FileStored(c)
  <2>1. calls' = (calls \ {c}) \cup {[c EXCEPT !.step = 2, !.at = "out", !.answer = None]}
    BY <1>6 DEF TaskPage!FileStored, TaskPage!Continue, TaskPage!Replace
  <2>2. PICK d : d = [c EXCEPT !.step = 2, !.at = "out", !.answer = None]
    OBVIOUS
  <2> USE <2>2
  <2>3. IsCall(d) /\ SameCall(c, d) /\ d.step = 2 /\ c.op \in {"upload", "detach"}
    BY <1>0, <1>6, Zenon DEF TaskPage!FileStored, IsCall, CallFields, SameCall
  <2>4. CASE ui' = ui
    BY <1>0, <1>1, <2>1, <2>3, <2>4, Zenon
  <2>5. CASE /\ ui # None /\ ui.inst = c.inst /\ ~TaskPage!Staff
             /\ ui' = [ui EXCEPT !.loading = TRUE, !.draft = TaskPage!NoDraft, !.sending = FALSE]
    <3>1. /\ ui' = [f \in TaskFields |-> ui'[f]] /\ ui'.inst = ui.inst
          /\ ~ui'.sending /\ ui'.busy = ui.busy /\ ui'.uploading = ui.uploading
      BY <1>5, <2>5, Zenon DEF TaskFields
    <3> QED
      BY <1>0, <1>1, <2>1, <2>3, <2>5, <3>1, Zenon DEF SameCall
  <2> QED
    BY <1>6, <2>4, <2>5 DEF TaskPage!FileStored, TaskPage!Reaches, TaskPage!Open
<1>7. ASSUME ui # None
      PROVE  LET m == TaskPage!Filled(ui, c)
             IN  /\ m = [f \in TaskFields |-> m[f]] /\ m.inst = ui.inst /\ ~m.loading
                 /\ m.sending = ui.sending /\ m.busy = ui.busy /\ m.uploading = ui.uploading
  BY <1>5, <1>7, Zenon DEF TaskPage!Filled, TaskFields
<1>8. CASE TaskPage!Loaded(c)
  BY <1>8, <1>2, <1>7 DEF TaskPage!Loaded, TaskPage!Ends, TaskPage!Reaches, TaskPage!Open
<1>9. CASE TaskPage!LoadBreaks(c) /\ calls' = calls \ {c} /\ (TaskPage!Staff \/ c.op = "load")
  <2> USE <1>9
  <2>1. CASE TaskPage!Staff
    BY <1>2, <2>1 DEF TaskPage!LoadBreaks
  <2>2. CASE ~TaskPage!Staff /\ ~TaskPage!Reaches(c)
    BY <1>2, <2>2 DEF TaskPage!LoadBreaks, TaskPage!Reaches, TaskPage!Open
  <2>3. CASE ~TaskPage!Staff /\ TaskPage!Reaches(c)
    <3>1. ui # None /\ ui' = [ui EXCEPT !.view = None, !.loading = FALSE, !.draft = TaskPage!NoDraft]
      BY <2>3 DEF TaskPage!LoadBreaks, TaskPage!Reaches, TaskPage!Open
    <3>2. /\ ui' = [f \in TaskFields |-> ui'[f]] /\ ui'.inst = ui.inst /\ ~ui'.loading
          /\ ui'.sending = ui.sending /\ ui'.busy = ui.busy /\ ui'.uploading = ui.uploading
      BY <1>5, <3>1, Zenon DEF TaskFields
    <3> QED
      BY <1>2, <2>3, <3>1, <3>2
  <2> QED
    BY <2>1, <2>2, <2>3
<1>10. CASE TaskPage!LoadFails(c)
  BY <1>9, <1>10 DEF TaskPage!LoadFails, TaskPage!Ends
<1>11. CASE TaskPage!FieldAnswered(c)
  BY <1>2, <1>11 DEF TaskPage!FieldAnswered, TaskPage!Ends
<1>12. CASE TaskPage!FlagAnswered(c)
  BY <1>5, <1>12, <1>2 DEF TaskPage!FlagAnswered, TaskPage!Ends, TaskPage!Touches,
     TaskPage!Reaches, TaskPage!Open, TaskFields, LoadsFor
<1>13. CASE TaskPage!StatusRefreshed(c) \/ TaskPage!StatusFails(c)
  <2>1. calls' = calls \ {c} /\ c.op = "status"
    BY <1>13 DEF TaskPage!StatusRefreshed, TaskPage!StatusFails, TaskPage!Ends
  <2> USE <2>1
  <2>2. \/ ui' = ui /\ ~TaskPage!Reaches(c)
        \/ /\ ui # None
           /\ \/ TaskPage!Staff /\ \E x : ui' = [ui EXCEPT !.view = x]
              \/ \E x : ui' = [ui EXCEPT !.view = x, !.busy = FALSE]
              \/ ui' = [ui EXCEPT !.busy = FALSE]
    BY <1>5, <1>13, Zenon DEF TaskPage!StatusRefreshed, TaskPage!StatusFails, TaskPage!Reaches,
       TaskPage!Open, TaskFields
  <2>3. CASE ui' = ui /\ ~TaskPage!Reaches(c)
    BY <1>2, <2>3 DEF TaskPage!Reaches, TaskPage!Open
  <2>4. CASE ui # None /\ TaskPage!Staff /\ \E x : ui' = [ui EXCEPT !.view = x]
    BY <1>5, <2>4, <1>2 DEF TaskFields, TaskWaits, SpinsFor, LoadsFor
  <2>5. CASE ui # None /\ \/ \E x : ui' = [ui EXCEPT !.view = x, !.busy = FALSE]
                          \/ ui' = [ui EXCEPT !.busy = FALSE]
    <3>1. /\ ui' = [f \in TaskFields |-> ui'[f]] /\ ui'.inst = ui.inst /\ ui'.loading = ui.loading
          /\ ui'.sending = ui.sending /\ ~ui'.busy /\ ui'.uploading = ui.uploading
      BY <1>5, <2>5, Zenon DEF TaskFields
    <3> QED
      BY <1>2, <2>5, <3>1, Zenon DEF LoadsFor
  <2> QED
    BY <2>2, <2>3, <2>4, <2>5, Zenon
<1>14. CASE TaskPage!CommentShown(c)
  <2>1. calls' = calls \ {c} /\ c.op = "comment"
    BY <1>14 DEF TaskPage!CommentShown, TaskPage!Ends
  <2>2. CASE ~TaskPage!Reaches(c)
    BY <1>2, <1>14, <2>1, <2>2 DEF TaskPage!CommentShown, TaskPage!Reaches, TaskPage!Open
  <2>3. CASE TaskPage!Reaches(c)
    <3>1. ui # None
      BY <2>3 DEF TaskPage!Reaches, TaskPage!Open
    <3> USE <3>1
    <3>2. PICK m : /\ ui' = [m EXCEPT !.draft = TaskPage!NoDraft, !.sending = FALSE]
                   /\ m = TaskPage!Filled(ui, c) \/ m = ui \/ \E x : m = [ui EXCEPT !.view = x]
      BY <1>5, <1>14, <2>3, Zenon DEF TaskPage!CommentShown, TaskFields
    <3>3. /\ m = [f \in TaskFields |-> m[f]] /\ m.inst = ui.inst
          /\ m.loading = ui.loading \/ ~m.loading
          /\ m.busy = ui.busy /\ m.uploading = ui.uploading
      BY <1>5, <1>7, <3>2 DEF TaskFields
    <3>4. /\ ui' = [f \in TaskFields |-> ui'[f]] /\ ui'.inst = ui.inst
          /\ ui'.loading = ui.loading \/ ~ui'.loading
          /\ ~ui'.sending /\ ui'.busy = ui.busy /\ ui'.uploading = ui.uploading
      BY <3>2, <3>3, Zenon DEF TaskFields
    <3> QED
      BY <1>2, <2>1, <3>4 DEF LoadsFor
  <2> QED
    BY <2>2, <2>3
<1>15. CASE TaskPage!CommentFails(c)
  <2>1. calls' = calls \ {c} /\ c.op = "comment"
    BY <1>15 DEF TaskPage!CommentFails, TaskPage!Ends
  <2>2. CASE TaskPage!Staff /\ TaskPage!LoadBreaks(c)
    BY <1>9, <2>1, <2>2
  <2>3. CASE ui' = IF TaskPage!Reaches(c) THEN [ui EXCEPT !.sending = FALSE] ELSE ui
    <3>1. ui # None /\ ui' = [ui EXCEPT !.sending = FALSE] =>
            /\ ui' = [f \in TaskFields |-> ui'[f]] /\ ui'.inst = ui.inst /\ ui'.loading = ui.loading
            /\ ~ui'.sending /\ ui'.busy = ui.busy /\ ui'.uploading = ui.uploading
      BY <1>5, Zenon DEF TaskFields
    <3> QED
      BY <1>2, <2>1, <2>3, <3>1 DEF LoadsFor, TaskPage!Reaches, TaskPage!Open
  <2> QED
    BY <1>15, <2>2, <2>3 DEF TaskPage!CommentFails
<1>16. CASE TaskPage!FilesShown(c)
  <2>1. calls' = calls \ {c} /\ c.op \in {"upload", "detach"}
    BY <1>16 DEF TaskPage!FilesShown, TaskPage!Ends
  <2>2. CASE ~TaskPage!Reaches(c)
    BY <1>2, <1>16, <2>1, <2>2, Zenon DEF TaskPage!FilesShown, TaskPage!Reaches, TaskPage!Open
  <2>3. CASE TaskPage!Reaches(c)
    <3>1. ui # None
      BY <2>3 DEF TaskPage!Reaches, TaskPage!Open
    <3>2. PICK m : m = TaskPage!Filled(ui, c) /\ ui' = [m EXCEPT !.uploading = FALSE]
      BY <1>16, <2>3, Zenon DEF TaskPage!FilesShown
    <3>3. /\ m = [f \in TaskFields |-> m[f]] /\ m.inst = ui.inst /\ ~m.loading
          /\ m.busy = ui.busy /\ m.sending = ui.sending
      BY <1>7, <3>1, <3>2
    <3>4. /\ ui' = [f \in TaskFields |-> ui'[f]] /\ ui'.inst = ui.inst /\ ~ui'.loading
          /\ ui'.sending = ui.sending /\ ui'.busy = ui.busy /\ ~ui'.uploading
      BY <3>2, <3>3, Zenon DEF TaskFields
    <3> QED
      BY <1>2, <2>1, <3>1, <3>4
  <2> QED
    BY <2>2, <2>3
<1>17. CASE TaskPage!FileFails(c)
  <2>1. calls' = calls \ {c} /\ c.op \in {"upload", "detach"}
    BY <1>17 DEF TaskPage!FileFails, TaskPage!Ends
  <2> USE <2>1
  <2>2. CASE ui' = None
    BY <1>2, <2>2
  <2>3. CASE ui' = ui /\ ~TaskPage!Reaches(c)
    BY <1>2, <2>3 DEF TaskPage!Reaches, TaskPage!Open
  <2>4. CASE ui # None /\ c.step = 1 /\ ui' = [ui EXCEPT !.uploading = FALSE]
    <3>1. /\ ui' = [f \in TaskFields |-> ui'[f]] /\ ui'.inst = ui.inst /\ ui'.loading = ui.loading
          /\ ui'.sending = ui.sending /\ ui'.busy = ui.busy /\ ~ui'.uploading
      BY <1>5, <2>4, Zenon DEF TaskFields
    <3> QED
      BY <1>2, <2>4, <3>1 DEF LoadsFor
  <2>5. CASE ui # None /\ ui' = [ui EXCEPT !.view = None, !.loading = FALSE,
                                          !.draft = TaskPage!NoDraft, !.uploading = FALSE]
    <3>1. /\ ui' = [f \in TaskFields |-> ui'[f]] /\ ui'.inst = ui.inst /\ ~ui'.loading
          /\ ui'.sending = ui.sending /\ ui'.busy = ui.busy /\ ~ui'.uploading
      BY <1>5, <2>5, Zenon DEF TaskFields
    <3> QED
      BY <1>2, <2>5, <3>1
  <2> QED
    BY <1>17, <2>2, <2>3, <2>4, <2>5 DEF TaskPage!FileFails, TaskPage!Reaches, TaskPage!Open
<1>18. CASE TaskPage!Deleted(c)
  BY <1>2, <1>18 DEF TaskPage!Deleted, TaskPage!Ends
<1> QED
  BY <1>3, <1>4, <1>6, <1>8, <1>10, <1>11, <1>12, <1>13, <1>14, <1>15, <1>16, <1>17, <1>18
     DEF TaskPage!Answer

LEMMA TaskPageWaits ==
  /\ TaskPage!Init => TaskWaits
  /\ TaskWaits /\ TaskPage!Next /\ page' = page => TaskWaits'
  /\ TaskWaits => TaskPage!NoStuckSpinner
<1>1. TaskPage!Init => TaskWaits
  BY Zenon DEF TaskPage!Init, TaskWaits, AreCalls
<1>2. TaskWaits /\ TaskPage!Next /\ page' = page => TaskWaits'
  BY TaskUserSteps, TaskAnswerSteps DEF TaskPage!Elsewhere, TaskWaits, SpinsFor, LoadsFor,
     AreCalls, TaskPage!Staff, TaskPage!Next
<1>3. TaskWaits => TaskPage!NoStuckSpinner
  BY DEF TaskWaits, SpinsFor, LoadsFor, TaskPage!NoStuckSpinner, TaskPage!Waiting,
     TaskPage!Open, TaskPage!Reloading
<1> QED
  BY <1>1, <1>2, <1>3

-----------------------------------------------------------------------------
(* The schedule board                                                      *)

LEMMA BoardWaitsStarts == Board!Init => BoardWaits
<1> SUFFICES ASSUME Board!Init PROVE BoardWaits
  OBVIOUS
<1>1. ui = [f \in BoardFields |-> ui[f]]
  BY Zenon DEF Board!Init, BoardFields
<1>4. ui.busy = None
  BY DEF Board!Init
<1>2. PICK k : calls = {Fetch(k)}
  BY Zenon DEF Board!Init, Board!Fetch, Board!Call, Fetch, Call
<1>3. IsCall(Fetch(k))
  BY DEF Fetch, Call, IsCall, CallFields
<1> QED
  BY <1>1, <1>2, <1>3, <1>4 DEF BoardWaits, AreCalls

LEMMA BoardWaitsSteps == BoardWaits /\ Board!Next => BoardWaits'
<1> SUFFICES ASSUME BoardWaits, Board!Next PROVE BoardWaits'
  OBVIOUS
<1>0. ui = [f \in BoardFields |-> ui[f]] /\ AreCalls(calls)
  BY DEF BoardWaits
\* What the bar waits for stays among the calls, or the bar is free.
<1>1. ASSUME ui' = [f \in BoardFields |-> ui'[f]], AreCalls(calls'),
             \/ ui'.busy = None
             \/ /\ ui'.busy = ui.busy /\ ui'.inst = ui.inst
                /\ \A e \in calls : Barring(ui, e) => \E g \in calls' : SameCall(e, g)
      PROVE  BoardWaits'
  BY <1>1 DEF BoardWaits, Barring, SameCall
<1>2. "list" \notin Board!Bulk
  BY DEF Board!Bulk
\* Lists are fetched again, after c or with it.
<1>3. ASSUME NEW S, NEW keys, NEW k, AreCalls(S),
             calls' = Board!Overtaken(S, keys) \cup {Board!Fetch(k)}
      PROVE  AreCalls(calls') /\ \A e \in S : e.op # "list" => e \in calls'
  <2> USE <1>3
  <2>1. Board!Fetch(k) = Fetch(k)
    BY DEF Board!Fetch, Board!Call, Fetch, Call
  <2>2. \A e \in calls' : \/ e = Fetch(k)
                          \/ e \in S
                          \/ \E c \in S : c.op = "list" /\ e = Late(c)
    BY <2>1, Zenon DEF Board!Overtaken, Late
  <2>3. \A e \in S : e.op # "list" => e \in calls'
    BY Zenon DEF Board!Overtaken
  <2> QED
    BY <2>2, <2>3, Refetched
<1>4. ASSUME NEW u, u = [f \in BoardFields |-> u[f]]
      PROVE  LET v == Board!Stale(u)
             IN  v = [f \in BoardFields |-> v[f]] /\ v.busy = u.busy /\ v.inst = u.inst
  BY <1>4 DEF Board!Stale, BoardFields
<1>5. ASSUME NEW u, u = [f \in BoardFields |-> u[f]], NEW set
      PROVE  LET v == Board!Choose(u, set)
             IN  /\ v = [f \in BoardFields |-> v[f]] /\ v.inst = u.inst
                 /\ v.busy = IF set = {} THEN None ELSE u.busy
  BY <1>5, Zenon DEF Board!Choose, BoardFields
\* A call ends that the bar did not wait for, and the lists are fetched again.
<1>6. ASSUME NEW c \in calls, NEW u, u = [f \in BoardFields |-> u[f]],
             Board!AnsweredAndFetches(c, u),
             \/ u.busy = None
             \/ u.busy = ui.busy /\ u.inst = ui.inst /\ ~Barring(ui, c)
      PROVE  BoardWaits'
  <2> USE <1>6
  <2>1. /\ ui' = [f \in BoardFields |-> ui'[f]] /\ ui'.busy = u.busy /\ ui'.inst = u.inst
    BY <1>4 DEF Board!AnsweredAndFetches
  <2>2. AreCalls(calls \ {c})
    BY <1>0 DEF AreCalls
  <2>3. AreCalls(calls') /\ \A e \in calls \ {c} : e.op # "list" => e \in calls'
    <3>1. PICK S, keys, k : /\ S = calls \ {c}
                            /\ calls' = Board!Overtaken(S, keys) \cup {Board!Fetch(k)}
      BY DEF Board!AnsweredAndFetches, Board!Refetching
    <3> QED
      BY <1>3, <2>2, <3>1, Zenon
  <2> QED
    BY <1>1, <1>2, <2>1, <2>3 DEF Barring, SameCall
<1>7. CASE Board!Retry
  BY <1>7, <1>0, <1>3, <1>4, <1>1, <1>2 DEF Board!Retry, Board!Refetching, Barring, SameCall
<1>8. CASE Board!Turn \/ Board!ToggleSelectionMode
  BY <1>8, <1>0, <1>5, <1>1 DEF Board!Turn, Board!ToggleSelectionMode, BoardFields
<1>9. CASE Board!Widen
  <2>1. PICK u : u = Board!Choose(ui, {})
    OBVIOUS
  <2>2. u = [f \in BoardFields |-> u[f]] /\ u.busy = None
    BY <1>0, <1>5, <2>1
  <2>3. ui' = [u EXCEPT !.cache["window"] = Board!Cold, !.fresh["window"] = TRUE,
                        !.failed["window"] = FALSE]
    BY <1>9, <2>1 DEF Board!Widen
  <2>4. ui' = [f \in BoardFields |-> ui'[f]] /\ ui'.busy = None
    BY <2>2, <2>3, Zenon DEF BoardFields
  <2>5. AreCalls(calls')
    BY <1>9, <1>0, <1>3 DEF Board!Widen
  <2> QED
    BY <1>1, <2>4, <2>5
<1>10. CASE \E v \in Board!View : Board!Navigate(v)
  <2>1. ui' = [f \in BoardFields |-> ui'[f]] /\ ui'.busy = None
    BY <1>0, <1>10, Zenon DEF Board!Navigate, BoardFields
  <2>2. \/ calls' = calls
        \/ \E keys, k : calls' = Board!Overtaken(calls, keys) \cup {Board!Fetch(k)}
    BY <1>10 DEF Board!Navigate
  <2> QED
    BY <1>0, <1>1, <1>3, <2>1, <2>2
<1>11. CASE \/ \E s \in Item : Board!ToggleItem(s)
            \/ \E status \in Status : Board!SelectColumn(status)
  <2>1. PICK set : ui' = Board!Choose(ui, set) /\ calls' = calls
    BY <1>11, Zenon DEF Board!ToggleItem, Board!SelectColumn
  <2>2. /\ ui' = [f \in BoardFields |-> ui'[f]] /\ ui'.inst = ui.inst
        /\ ui'.busy \in {None, ui.busy}
    BY <1>0, <1>5, <2>1
  <2> QED
    BY <1>0, <1>1, <2>1, <2>2 DEF SameCall
<1>12. ASSUME NEW s, NEW doc, NEW op, NEW value, NEW prev,
              Board!Swapped(s, doc), Board!StartSwapped(s, op, value, prev)
       PROVE  BoardWaits'
  <2>1. /\ ui' = [f \in BoardFields |-> ui'[f]] /\ ui'.busy = ui.busy /\ ui'.inst = ui.inst
    BY <1>0, <1>12, Zenon DEF Board!Swapped, BoardFields
  <2>2. PICK c : IsCall(c) /\ calls' = Board!Overtaken(calls, Board!Keys) \cup {c}
    BY <1>12, Zenon DEF Board!StartSwapped, Board!Call, IsCall, CallFields
  <2>3. ASSUME NEW e \in Board!Overtaken(calls, Board!Keys)
        PROVE  IsCall(e)
    <3>1. PICK g \in calls : \/ e = g
                             \/ e = [g EXCEPT !.value = "overtaken", !.answer = None]
      BY Zenon DEF Board!Overtaken
    <3> QED
      BY <1>0, <3>1, Zenon DEF AreCalls, IsCall, CallFields
  <2>4. \A e \in calls : e.op # "list" => e \in calls'
    BY <2>2, Zenon DEF Board!Overtaken
  <2> QED
    BY <1>1, <1>2, <2>1, <2>2, <2>3, <2>4 DEF Barring, SameCall, AreCalls
<1>13. CASE \/ \E s \in Item : \/ \E status \in Status : Board!ChangeStatus(s, status)
                               \/ \E slot \in Value : Board!DropOnSlot(s, slot)
            \/ Board!ForceRelocate
  BY <1>12, <1>13, Zenon DEF Board!ChangeStatus, Board!DropOnSlot, Board!ForceRelocate, Board!Relocate
<1>14. CASE Board!TypeReason \/ Board!CloseConflict \/ Board!AskBulk \/ Board!CancelBulk
  BY <1>14, <1>0, <1>1 DEF Board!TypeReason, Board!CloseConflict, Board!AskBulk, Board!CancelBulk,
     BoardFields, SameCall
<1>15. CASE Board!ConfirmBulk \/ \E status \in Status : Board!BulkStatus(status)
  <2>1. PICK op, item, value :
          /\ op \in Board!Bulk
          /\ ui' = [ui EXCEPT !.busy = made]
          /\ Board!Start(ui.inst, item, op, value, None)
    <3>1. "bulk status" \in Board!Bulk /\ "bulk delete" \in Board!Bulk
      BY DEF Board!Bulk
    <3>2. ui' = [ui EXCEPT !.busy = made]
      BY <1>15, Zenon DEF Board!ConfirmBulk, Board!BulkStatus, Board!Begin
    <3>3. \/ Board!Start(ui.inst, ui.confirm, "bulk delete", None, None)
          \/ \E status : Board!Start(ui.inst, ui.chosen, "bulk status", status, None)
      BY <1>15, Zenon DEF Board!ConfirmBulk, Board!BulkStatus
    <3> QED
      BY <3>1, <3>2, <3>3, Zenon
  <2> USE <2>1
  <2>2. calls' = calls \cup {Call(made, ui.inst, item, op, value, None)}
    BY DEF Board!Start, Board!Call, Call
  <2>3. /\ AreCalls(calls') /\ \E c \in calls' : c.id = made /\ c.inst = ui.inst /\ c.op = op
    BY <1>0, <2>2, OneMore
  <2>4. /\ ui' = [f \in BoardFields |-> ui'[f]] /\ ui'.busy = made /\ ui'.inst = ui.inst
    BY <1>0 DEF BoardFields
  <2> QED
    BY <2>3, <2>4 DEF BoardWaits, Barring
<1>16. ASSUME NEW c \in calls, Board!Serve(c) \/ Board!Refuse(c)
       PROVE  BoardWaits'
  <2>1. PICK x, y : calls' = (calls \ {c}) \cup {[c EXCEPT !.at = x, !.answer = y]}
    BY <1>16, Zenon DEF Board!Serve, Board!Refuse, Board!Answered, Board!Refused, Board!Replace,
       Board!Fault
  <2>2. ui' = ui
    BY <1>16 DEF Board!Serve, Board!Refuse
  <2> QED
    BY <1>0, <1>1, <2>1, <2>2, WentOn, Zenon
<1>17. ASSUME NEW c \in calls, Board!ListArrives(c) \/ Board!ListFails(c)
       PROVE  BoardWaits'
  <2>1. c.op = "list" /\ calls' = calls \ {c}
    BY <1>17 DEF Board!ListArrives, Board!ListFails, Board!Ends
  <2>2. \/ ui' = ui
        \/ \E x, y : ui' = [ui EXCEPT !.cache = x, !.failed = y]
        \/ \E x : ui' = [ui EXCEPT !.banner = TRUE, !.failed = x]
    BY <1>0, <1>17, Zenon DEF Board!ListArrives, Board!ListFails, BoardFields
  <2>3. /\ ui' = [f \in BoardFields |-> ui'[f]] /\ ui'.busy = ui.busy /\ ui'.inst = ui.inst
    BY <1>0, <2>2, Zenon DEF BoardFields
  <2> QED
    BY <1>0, <1>1, <1>2, <2>1, <2>3, Ended DEF Barring, SameCall
<1>18. ASSUME NEW c \in calls, Board!StatusAnswered(c)
       PROVE  BoardWaits'
  BY <1>0, <1>6, <1>18, Zenon DEF Board!StatusAnswered, Barring, Board!Bulk
<1>19. ASSUME NEW c \in calls, Board!Relocated(c) \/ Board!RelocateFails(c)
       PROVE  BoardWaits'
  <2>1. PICK u : /\ Board!AnsweredAndFetches(c, u)
                 /\ \/ u = ui
                    \/ \E x, y : u = [ui EXCEPT !.conflict = x, !.reason = y]
                    \/ \E x : u = [ui EXCEPT !.conflict = x]
    BY <1>19, Zenon DEF Board!Relocated, Board!RelocateFails
  <2>2. /\ u = [f \in BoardFields |-> u[f]] /\ u.busy = ui.busy /\ u.inst = ui.inst
    BY <1>0, <2>1, Zenon DEF BoardFields
  <2> QED
    BY <1>6, <1>19, <2>1, <2>2, Zenon DEF Board!Relocated, Board!RelocateFails, Barring, Board!Bulk
<1>20. ASSUME NEW c \in calls, Board!BulkDone(c)
       PROVE  BoardWaits'
  BY <1>20, <1>0, <1>5, <1>6 DEF Board!BulkDone, Barring
<1>21. ASSUME NEW c \in calls, Board!BulkFails(c)
       PROVE  BoardWaits'
  <2>1. calls' = calls \ {c}
    BY <1>21 DEF Board!BulkFails, Board!Ends
  <2>2. \/ ui' = ui /\ ui.busy # c.id
        \/ ui' = [ui EXCEPT !.busy = None, !.confirm = None]
    BY <1>21 DEF Board!BulkFails, Board!Idle
  <2>3. CASE ui' = ui /\ ui.busy # c.id
    BY <1>0, <1>1, <2>1, <2>3, Ended DEF Barring, SameCall
  <2>4. CASE ui' = [ui EXCEPT !.busy = None, !.confirm = None]
    <3>1. ui' = [f \in BoardFields |-> ui'[f]] /\ ui'.busy = None
      BY <1>0, <2>4, Zenon DEF BoardFields
    <3> QED
      BY <1>0, <1>1, <2>1, <3>1, Ended
  <2> QED
    BY <2>2, <2>3, <2>4
<1> QED
  BY <1>7, <1>8, <1>9, <1>10, <1>11, <1>13, <1>14, <1>15, <1>16, <1>17, <1>18, <1>19, <1>20,
     <1>21 DEF Board!Next, Board!User

-----------------------------------------------------------------------------
(* The project boards                                                      *)

LEMMA ProjectsWaitsStarts == Projects!Init => ProjectsWaits
<1> SUFFICES ASSUME Projects!Init PROVE ProjectsWaits
  OBVIOUS
<1>1. PlainInv /\ ui.gate = None /\ \A c \in calls : c.op = "list" /\ c.at = "out"
  BY BoardsStart
<1>2. ui.pending = {} /\ ui.adding = None
  BY Zenon DEF Projects!Init
<1> QED
  BY <1>1, <1>2 DEF ProjectsWaits, Ungated, Projects!NoStuckTask

LEMMA ProjectsWaitsSteps == ProjectsWaits /\ Projects!Next /\ page' = page => ProjectsWaits'
<1> SUFFICES ASSUME ProjectsWaits, Projects!Next, page' = page PROVE ProjectsWaits'
  OBVIOUS
<1>0. /\ ui = [f \in BoardsFields |-> ui[f]] /\ AreCalls(calls)
  BY DEF ProjectsWaits, PlainInv, AreCalls
<1>1. PlainInv'
  BY UserSteps, AnswerSteps DEF ProjectsWaits, Projects!Next
<1>2. page # "projects" => Ungated'
  BY OtherBoards DEF ProjectsWaits
<1>3. "list" \notin Projects!Moves /\ "add" \in Projects!Moves /\ "move" \in Projects!Moves
      /\ "toggle" \in Projects!Moves
  BY DEF Projects!Moves
\* A call more.
<1>4. ASSUME NEW i, NEW op, NEW value, NEW prev, Projects!Ask(i, op, value, prev)
      PROVE  /\ \A e \in calls : e \in calls'
             /\ \E g \in calls' : g.op = op /\ g.item = i
  <2>1. calls' = calls \cup {Call(made, 0, i, op, value, prev)}
    BY <1>4 DEF Projects!Ask, Projects!Start, Projects!Call, Call
  <2> QED
    BY <1>0, <2>1, OneMore
\* Nothing ends, and nothing more is disabled than a call that is there.
<1>5. ASSUME \A e \in calls : e.op \in Projects!Moves =>
               \E g \in calls' : g.op = e.op /\ g.item = e.item,
             \A i \in ui'.pending \ ui.pending :
               ~Projects!Staff /\ \E g \in calls' : g.item = i /\ g.op \in Projects!Moves,
             \/ ui'.adding \in {ui.adding, None}
             \/ Projects!Staff /\ \E g \in calls' : g.op = "add"
      PROVE  ProjectsWaits'
  BY <1>1, <1>2, <1>3, <1>5 DEF ProjectsWaits, Projects!NoStuckTask, Projects!Staff, Projects!Moves
<1>6. CASE Projects!Retry
  <2>1. UNCHANGED ui /\ \A e \in calls : e.op # "list" => e \in calls'
    BY <1>6, Zenon DEF Projects!Retry, Projects!Refetching, Projects!Overtaken
  <2> QED
    BY <1>3, <1>5, <2>1
<1>7. CASE \/ Projects!ForceAdvance
           \/ \E i \in Item : \/ Projects!DeleteTask(i)
                              \/ \E l \in Projects!Lane : \/ Projects!DropProject(i, l)
                                                          \/ Projects!DropTask(i, l)
  BY <1>7, <1>4, <1>5 DEF Projects!ForceAdvance, Projects!DeleteTask, Projects!DropProject,
     Projects!DropTask
<1>8. CASE Projects!CancelGate \/ \E i \in Item : Projects!DragPending(i)
  <2>1. calls' = calls /\ \E x : ui' = [ui EXCEPT !.gate = x] \/ ui' = [ui EXCEPT !.board = x]
    BY <1>8, Zenon DEF Projects!CancelGate, Projects!DragPending
  <2>2. ui'.pending = ui.pending /\ ui'.adding = ui.adding
    BY <1>0, <2>1 DEF BoardsFields
  <2> QED
    BY <1>5, <2>1, <2>2
<1>9. CASE Projects!SwitchView
  <2>1. ui'.pending = ui.pending /\ ui'.adding = ui.adding
    BY <1>0, <1>9, Zenon DEF Projects!SwitchView, BoardsFields
  <2>2. ASSUME NEW e \in calls
        PROVE  \E g \in calls' : g.op = e.op /\ g.item = e.item
    <3>1. PICK g : g = [e EXCEPT !.inst = None]
      BY Zenon
    <3>2. g.op = e.op /\ g.item = e.item
      BY <1>0, <3>1 DEF AreCalls, IsCall, CallFields
    <3>3. g \in calls'
      BY <1>9, <3>1, Zenon DEF Projects!SwitchView
    <3> QED
      BY <3>2, <3>3
  <2> QED
    BY <1>5, <2>1, <2>2
<1>10. ASSUME NEW i \in Item, NEW l \in Projects!Lane, Projects!AddTask(i, l)
       PROVE  ProjectsWaits'
  BY <1>10, <1>0, <1>4, <1>5 DEF Projects!AddTask, Projects!Staff, BoardsFields
<1>11. ASSUME NEW i \in Item,
              Projects!ToggleTask(i) \/ \E l \in Projects!Lane : Projects!DragTask(i, l)
       PROVE  ProjectsWaits'
  <2> USE <1>11
  <2>1. PICK op, value, prev : Projects!Ask(i, op, value, prev) /\ op \in {"move", "toggle"}
    BY Zenon DEF Projects!ToggleTask, Projects!DragTask
  <2>2. ~Projects!Staff
    BY Zenon DEF Projects!ToggleTask, Projects!DragTask, Projects!Staff
  <2>3. ui'.pending = ui.pending \cup {i} /\ ui'.adding = ui.adding
    <3>1. CASE Projects!ToggleTask(i)
      BY <1>0, <3>1, Zenon DEF Projects!ToggleTask, BoardsFields
    <3>2. CASE \E l \in Projects!Lane : Projects!DragTask(i, l)
      BY <1>0, <3>2, Zenon DEF Projects!DragTask, BoardsFields
    <3> QED
      BY <3>1, <3>2
  <2> QED
    BY <1>3, <1>4, <1>5, <2>1, <2>2, <2>3
<1>12. CASE Projects!User
  BY <1>6, <1>7, <1>8, <1>9, <1>10, <1>11, <1>12 DEF Projects!User
\* A call goes on.
<1>13. ASSUME NEW c \in calls, NEW d, IsCall(d), SameCall(c, d), d \in calls',
              \A e \in calls : e.op # "list" /\ e # c => e \in calls', ui' = ui
       PROVE  ProjectsWaits'
  BY <1>3, <1>5, <1>13 DEF SameCall
<1>14. ASSUME NEW c \in calls, Projects!Serve(c) \/ Projects!Refuse(c) \/ Projects!PortalListed(c)
       PROVE  ProjectsWaits'
  <2>1. PICK d : /\ calls' = (calls \ {c}) \cup {d}
                 /\ \E x, y : d = [c EXCEPT !.at = x, !.answer = y] \/ d = [c EXCEPT !.at = x]
    BY <1>14, Zenon DEF Projects!Serve, Projects!Refuse, Projects!PortalListed, Projects!Listing,
       Projects!Gate, Projects!Answered, Projects!Refused, Projects!Fault, Projects!Replace
  <2>2. ui' = ui
    BY <1>14 DEF Projects!Serve, Projects!Refuse, Projects!PortalListed
  <2>3. IsCall(d) /\ SameCall(c, d)
    BY <1>0, <2>1, GoesOn, Zenon DEF AreCalls
  <2> QED
    BY <1>13, <2>1, <2>2, <2>3
<1>15. ASSUME NEW c \in calls, Projects!PortalSaved(c)
       PROVE  ProjectsWaits'
  <2>1. PICK d : d = [c EXCEPT !.step = 2, !.at = "waits"]
    OBVIOUS
  <2>2. IsCall(d) /\ SameCall(c, d) /\ c.op \in Projects!Moves /\ ui' = ui
    BY <1>0, <1>15, <2>1, Zenon DEF AreCalls, IsCall, CallFields, SameCall, Projects!PortalSaved
  <2>3. calls' = Projects!Refetching((calls \ {c}) \cup {d})
    BY <1>15, <2>1 DEF Projects!PortalSaved
  <2>4. \A e \in (calls \ {c}) \cup {d} : e.op # "list" => e \in calls'
    BY <2>3, Zenon DEF Projects!Refetching, Projects!Overtaken
  <2> QED
    BY <1>3, <1>13, <2>2, <2>4 DEF SameCall
\* A call ends.
<1>16. ASSUME NEW c \in calls, \A e \in calls : e.op # "list" /\ e # c => e \in calls',
              c.op # "add" \/ ui'.adding = None,
              Projects!Staff \/ c.item \notin ui'.pending \/ c.op \notin Projects!Moves,
              ui'.pending \subseteq ui.pending, ui'.adding \in {ui.adding, None}
       PROVE  ProjectsWaits'
  BY <1>1, <1>2, <1>3, <1>16 DEF ProjectsWaits, Projects!NoStuckTask, Projects!Staff
<1>17. ASSUME NEW c \in calls, Projects!Arrives(c) \/ Projects!ListFails(c)
       PROVE  ProjectsWaits'
  <2>1. c.op = "list" /\ calls' = calls \ {c}
    BY <1>17 DEF Projects!Arrives, Projects!ListArrives, Projects!ListFails, Projects!Ends
  <2>2. PICK u : /\ u = ui \/ \E x : u = [ui EXCEPT !.shown = x, !.board = x]
                 /\ ui' = u \/ \E x : ui' = [u EXCEPT !.failed = x]
    BY <1>17, Zenon DEF Projects!Arrives, Projects!ListArrives, Projects!ListFails, Projects!Fills
  <2>3. /\ u = [f \in BoardsFields |-> u[f]] /\ u.pending = ui.pending /\ u.adding = ui.adding
    BY <1>0, <2>2, Zenon DEF BoardsFields
  <2>4. ui'.pending = ui.pending /\ ui'.adding = ui.adding
    BY <2>2, <2>3, Zenon DEF BoardsFields
  <2> QED
    BY <1>3, <1>16, <2>1, <2>4
<1>18. ASSUME NEW c \in calls, Projects!Warned(c)
       PROVE  ProjectsWaits'
  BY <1>18, <1>0, <1>16 DEF Projects!Warned, Projects!Ends, BoardsFields, ProjectsWaits, Ungated,
     Projects!Staff
<1>19. ASSUME NEW c \in calls, Projects!StaffDone(c) \/ Projects!StaffFails(c)
       PROVE  ProjectsWaits'
  <2>1. Projects!Staff /\ \A e \in calls : e.op # "list" /\ e # c => e \in calls'
    BY <1>19, Zenon DEF Projects!StaffDone, Projects!StaffFails, Projects!EndsAndFetches,
       Projects!Refetching, Projects!Overtaken, Projects!Ends
  <2>2. /\ ui'.pending = ui.pending
        /\ ui'.adding = IF c.op = "add" THEN None ELSE ui.adding
    BY <1>0, <1>19, Zenon DEF Projects!StaffDone, Projects!StaffFails, Projects!Done, BoardsFields
  <2> QED
    BY <1>16, <2>1, <2>2
<1>20. ASSUME NEW c \in calls, Projects!PortalRefreshed(c) \/ Projects!PortalFails(c)
       PROVE  ProjectsWaits'
  <2>1. calls' = calls \ {c} /\ ~Projects!Staff
    BY <1>20 DEF Projects!PortalRefreshed, Projects!PortalFails, Projects!Ends
  <2>2. ui'.pending = ui.pending \ {c.item} /\ ui'.adding = ui.adding
    BY <1>0, <1>20, Zenon DEF Projects!PortalRefreshed, Projects!PortalFails, BoardsFields
  <2>3. ui.adding = None
    BY <2>1 DEF ProjectsWaits
  <2> QED
    BY <1>16, <2>1, <2>2, <2>3
<1> QED
  BY <1>12, <1>14, <1>15, <1>17, <1>18, <1>19, <1>20 DEF Projects!Next

-----------------------------------------------------------------------------
(* The managers                                                            *)

LEMMA RecordsWaitsStarts == Lookups!Init => RecordsWaits
  BY DEF Lookups!Init, RecordFields, Lookups!Fetch, Lookups!Call, AreCalls, IsCall, CallFields,
     RecordsWaits, Lookups!NoStuckForm

LEMMA RecordsWaitsSteps == RecordsWaits /\ Lookups!Next => RecordsWaits'
<1> SUFFICES ASSUME RecordsWaits, Lookups!Next PROVE RecordsWaits'
  OBVIOUS
<1>0. ui = [f \in RecordFields |-> ui[f]] /\ AreCalls(calls)
  BY DEF RecordsWaits
\* What the form waits for stays among the calls, or is called now.
<1>1. ASSUME ui' = [f \in RecordFields |-> ui'[f]], AreCalls(calls'),
             ui'.saving => \/ \E g \in calls' : g.op = "save"
                           \/ ui.saving /\ \A e \in calls : e.op = "save" =>
                                             \E g \in calls' : g.op = "save",
             ui'.lookup => \/ \E g \in calls' : g.op = "drive"
                           \/ ui.lookup /\ \A e \in calls : e.op = "drive" =>
                                             \E g \in calls' : g.op = "drive"
      PROVE  RecordsWaits'
  BY <1>1 DEF RecordsWaits, Lookups!NoStuckForm
<1>2. ASSUME NEW S, AreCalls(S), calls' = Lookups!Refetching(S)
      PROVE  AreCalls(calls') /\ \A e \in S : e.op # "list" => e \in calls'
  <2> USE <1>2
  <2>1. Lookups!Fetch(None) = Fetch(None)
    BY DEF Lookups!Fetch, Lookups!Call, Fetch, Call
  <2>2. \A e \in calls' : \/ e = Fetch(None)
                          \/ e \in S
                          \/ \E c \in S : c.op = "list" /\ e = Late(c)
    BY <2>1, Zenon DEF Lookups!Refetching, Lookups!Overtaken, Late
  <2>3. \A e \in S : e.op # "list" => e \in calls'
    BY Zenon DEF Lookups!Refetching, Lookups!Overtaken
  <2> QED
    BY <2>2, <2>3, Refetched
<1>3. ASSUME NEW inst, NEW item, NEW op, NEW value, NEW prev,
             Lookups!Start(inst, item, op, value, prev)
      PROVE  AreCalls(calls') /\ (\A c \in calls : c \in calls') /\ \E c \in calls' : c.op = op
  BY <1>3, <1>0, OneMore DEF Lookups!Start, Lookups!Call, Call
<1>4. CASE Lookups!Retry
  BY <1>4, <1>0, <1>1, <1>2 DEF Lookups!Retry
<1>5. CASE \/ Lookups!OpenNew \/ Lookups!CloseForm \/ Lookups!CancelDelete
           \/ \E i \in Item : Lookups!OpenEdit(i) \/ Lookups!OpenDelete(i)
           \/ \E v \in Value : Lookups!TypeMain(v)
           \/ \E d \in {"typed", None} : Lookups!TypeDrive(d)
  <2>1. calls' = calls
    BY <1>5, Zenon DEF Lookups!OpenNew, Lookups!CloseForm, Lookups!CancelDelete, Lookups!OpenEdit,
       Lookups!OpenDelete, Lookups!TypeMain, Lookups!TypeDrive, Lookups!Opens
  <2>2. /\ ui' = [f \in RecordFields |-> ui'[f]] /\ ui'.saving = ui.saving
        /\ ui'.lookup = ui.lookup
    BY <1>0, <1>5, Zenon DEF Lookups!OpenNew, Lookups!CloseForm, Lookups!CancelDelete, Lookups!OpenEdit,
       Lookups!OpenDelete, Lookups!TypeMain, Lookups!TypeDrive, Lookups!Opens, Lookups!Closed,
       RecordFields
  <2> QED
    BY <1>0, <1>1, <2>1, <2>2
<1>6. ASSUME NEW v \in Value, Lookups!SelectPlace(v)
      PROVE  RecordsWaits'
  <2>1. CASE ui.touched
    BY <1>6, <2>1, <1>0, <1>1 DEF Lookups!SelectPlace, RecordFields
  <2>2. CASE ~ui.touched
    <3>1. /\ ui' = [ui EXCEPT !.main = v, !.lookup = TRUE, !.warned = FALSE]
          /\ Lookups!Start(0, None, "drive", v, None)
      BY <1>6, <2>2 DEF Lookups!SelectPlace
    <3>2. ui' = [f \in RecordFields |-> ui'[f]] /\ ui'.saving = ui.saving
      BY <1>0, <3>1, Zenon DEF RecordFields
    <3> QED
      BY <1>1, <1>3, <3>1, <3>2
  <2> QED
    BY <2>1, <2>2
<1>7. CASE Lookups!Submit
  <2>1. /\ ui' = [ui EXCEPT !.saving = TRUE]
        /\ \E item, value : Lookups!Start(0, item, "save", value, None)
    BY <1>7 DEF Lookups!Submit
  <2>2. ui' = [f \in RecordFields |-> ui'[f]] /\ ui'.lookup = ui.lookup
    BY <1>0, <2>1, Zenon DEF RecordFields
  <2> QED
    BY <1>1, <1>3, <2>1, <2>2
<1>8. CASE Lookups!Delete
  BY <1>8, <1>0, <1>1, <1>3 DEF Lookups!Delete, RecordFields
<1>9. ASSUME NEW c \in calls, Lookups!Serve(c) \/ Lookups!Refuse(c)
      PROVE  RecordsWaits'
  <2>1. PICK x, y : calls' = (calls \ {c}) \cup {[c EXCEPT !.at = x, !.answer = y]}
    BY <1>9, Zenon DEF Lookups!Serve, Lookups!Refuse, Lookups!Listing, Lookups!Answered, Lookups!Refused,
       Lookups!Fault, Lookups!Replace
  <2>2. ui' = ui
    BY <1>9 DEF Lookups!Serve, Lookups!Refuse
  <2>3. AreCalls(calls') /\ \A e \in calls : \E g \in calls' : SameCall(e, g)
    BY <1>0, <2>1, WentOn, Zenon
  <2> QED
    BY <1>0, <1>1, <2>2, <2>3 DEF SameCall
\* A call ends that nothing waits for any more.
<1>10. ASSUME NEW c \in calls, ui' = [f \in RecordFields |-> ui'[f]],
              calls' = calls \ {c} \/ calls' = Lookups!Refetching(calls \ {c}),
              ~ui'.saving \/ (ui'.saving = ui.saving /\ c.op # "save"),
              ~ui'.lookup \/ (ui'.lookup = ui.lookup /\ c.op # "drive")
       PROVE  RecordsWaits'
  BY <1>0, <1>2, <1>10, <1>1 DEF AreCalls
<1>11. ASSUME NEW c \in calls,
              Lookups!Arrives(c) \/ Lookups!ListFails(c) \/ Lookups!Deleted(c)
              \/ Lookups!DeleteFails(c)
       PROVE  RecordsWaits'
  <2>1. /\ c.op \in {"list", "delete"}
        /\ calls' = calls \ {c} \/ calls' = Lookups!Refetching(calls \ {c})
    BY <1>11 DEF Lookups!Arrives, Lookups!ListArrives, Lookups!ListFails, Lookups!Deleted,
       Lookups!DeleteFails, Lookups!Ends, Lookups!EndsAndFetches
  <2>2. /\ ui' = [f \in RecordFields |-> ui'[f]] /\ ui'.saving = ui.saving
        /\ ui'.lookup = ui.lookup
    BY <1>0, <1>11, Zenon DEF Lookups!Arrives, Lookups!ListArrives, Lookups!ListFails, Lookups!Deleted,
       Lookups!DeleteFails, Lookups!Asked, Lookups!Fills, RecordFields
  <2> QED
    BY <1>10, <2>1, <2>2
<1>12. ASSUME NEW c \in calls,
              Lookups!DriveAnswered(c) \/ Lookups!Saved(c) \/ Lookups!SaveFails(c)
       PROVE  RecordsWaits'
  <2>1. /\ c.op \in {"drive", "save"}
        /\ calls' = calls \ {c} \/ calls' = Lookups!Refetching(calls \ {c})
    BY <1>12 DEF Lookups!DriveAnswered, Lookups!Saved, Lookups!SaveFails, Lookups!Ends,
       Lookups!EndsAndFetches
  <2>2. /\ ui' = [f \in RecordFields |-> ui'[f]]
        /\ ui'.saving = IF c.op = "save" THEN FALSE ELSE ui.saving
        /\ ui'.lookup = IF c.op = "drive" THEN FALSE ELSE ui.lookup
    BY <1>0, <1>12, Zenon DEF Lookups!DriveAnswered, Lookups!Saved, Lookups!SaveFails, Lookups!Closed,
       RecordFields
  <2> QED
    BY <1>10, <2>1, <2>2, Zenon
<1> QED
  BY <1>4, <1>5, <1>6, <1>7, <1>8, <1>9, <1>11, <1>12 DEF Lookups!Next, Lookups!User

-----------------------------------------------------------------------------
(* The accounts                                                            *)

LEMMA UsersWaitStarts == Accounts!Init => UsersWait
<1> SUFFICES ASSUME Accounts!Init PROVE UsersWait
  OBVIOUS
<1>1. ui = [f \in UserFields |-> ui[f]]
  BY Zenon DEF Accounts!Init, UserFields
<1>2. ~ui.inviting /\ ~ui.spinner /\ ~ui.revoking /\ calls = {}
  BY DEF Accounts!Init
<1> QED
  BY <1>1, <1>2 DEF UsersWait, Accounts!NoStuckButton, AreCalls

LEMMA UsersWaitSteps == UsersWait /\ Accounts!Next => UsersWait'
<1> SUFFICES ASSUME UsersWait, Accounts!Next PROVE UsersWait'
  OBVIOUS
<1>0. ui = [f \in UserFields |-> ui[f]] /\ AreCalls(calls)
  BY DEF UsersWait
<1> DEFINE Has(op) == \E g \in calls' : g.inst = 0 /\ g.op = op
           Keeps(op) == (\E e \in calls : e.inst = 0 /\ e.op = op) => Has(op)
<1>1. ASSUME ui' = [f \in UserFields |-> ui'[f]], AreCalls(calls'),
             ui'.inviting => Has("invite") \/ (ui.inviting /\ Keeps("invite")),
             ui'.spinner => Has("sessions") \/ (ui.spinner /\ Keeps("sessions")),
             ui'.revoking => Has("revoke") \/ (ui.revoking /\ Keeps("revoke"))
      PROVE  UsersWait'
  BY <1>1 DEF UsersWait, Accounts!NoStuckButton, Accounts!Waiting
<1>2. ASSUME NEW item, NEW op, NEW value, Accounts!Start(0, item, op, value, None)
      PROVE  AreCalls(calls') /\ (\A c \in calls : c \in calls') /\ Has(op)
  BY <1>2, <1>0, OneMore DEF Accounts!Start, Accounts!Call, Call
<1>3. CASE \/ Accounts!CancelDelete \/ Accounts!OpenInvite \/ Accounts!CloseInvite
           \/ Accounts!CloseSessions
           \/ \E i \in Item : Accounts!RequestDelete(i) \/ Accounts!TypeEmail(i)
  <2>1. calls' = calls
    BY <1>3 DEF Accounts!CancelDelete, Accounts!OpenInvite, Accounts!CloseInvite,
       Accounts!CloseSessions, Accounts!RequestDelete, Accounts!TypeEmail
  <2>2. /\ ui' = [f \in UserFields |-> ui'[f]] /\ ui'.inviting = ui.inviting
        /\ ui'.spinner = ui.spinner /\ ui'.revoking = ui.revoking
    BY <1>0, <1>3, Zenon DEF Accounts!CancelDelete, Accounts!OpenInvite, Accounts!CloseInvite,
       Accounts!CloseSessions, Accounts!RequestDelete, Accounts!TypeEmail, UserFields
  <2> QED
    BY <1>0, <1>1, <2>1, <2>2
<1>4. CASE \/ Accounts!ConfirmDelete
           \/ \E i \in Item :
                \/ \E op \in {"approve", "reject"} : Accounts!Decide(i, op)
                \/ \E role \in {"viewer", "admin"} : Accounts!ChangeRole(i, role)
                \/ Accounts!RevokeInvitation(i) \/ Accounts!ClearLockout(i)
  BY <1>4, <1>0, <1>1, <1>2 DEF Accounts!ConfirmDelete, Accounts!Decide, Accounts!ChangeRole,
     Accounts!RevokeInvitation, Accounts!ClearLockout, Accounts!Act, UserFields
<1>5. CASE Accounts!Invite
  <2>1. /\ ui' = [ui EXCEPT !.inviting = TRUE]
        /\ Accounts!Start(0, ui.email, "invite", None, None)
    BY <1>5 DEF Accounts!Invite, Accounts!Act
  <2>2. /\ ui' = [f \in UserFields |-> ui'[f]]
        /\ ui'.spinner = ui.spinner /\ ui'.revoking = ui.revoking
    BY <1>0, <2>1, Zenon DEF UserFields
  <2> QED
    BY <1>1, <1>2, <2>1, <2>2
<1>6. CASE Accounts!RevokeSessions
  <2>1. /\ ui' = [ui EXCEPT !.revoking = TRUE]
        /\ Accounts!Start(0, ui.for, "revoke", None, None)
    BY <1>6 DEF Accounts!RevokeSessions, Accounts!Act
  <2>2. /\ ui' = [f \in UserFields |-> ui'[f]]
        /\ ui'.spinner = ui.spinner /\ ui'.inviting = ui.inviting
    BY <1>0, <2>1, Zenon DEF UserFields
  <2> QED
    BY <1>1, <1>2, <2>1, <2>2
<1>7. ASSUME NEW i \in Item, Accounts!OpenSessions(i)
      PROVE  UsersWait'
  <2>1. /\ ui' = [ui EXCEPT !.for = i, !.sessions = None, !.spinner = TRUE]
        /\ Accounts!Start(0, i, "sessions", None, None)
    BY <1>7 DEF Accounts!OpenSessions
  <2>2. /\ ui' = [f \in UserFields |-> ui'[f]]
        /\ ui'.inviting = ui.inviting /\ ui'.revoking = ui.revoking
    BY <1>0, <2>1, Zenon DEF UserFields
  <2> QED
    BY <1>1, <1>2, <2>1, <2>2
<1>8. ASSUME NEW c \in calls, Accounts!Serve(c) \/ Accounts!Refuse(c)
      PROVE  UsersWait'
  <2>1. PICK x, y : calls' = (calls \ {c}) \cup {[c EXCEPT !.at = x, !.answer = y]}
    BY <1>8, Zenon DEF Accounts!Serve, Accounts!Refuse, Accounts!Answered, Accounts!Refused,
       Accounts!Fault, Accounts!Replace
  <2>2. ui' = ui
    BY <1>8 DEF Accounts!Serve, Accounts!Refuse
  <2>3. AreCalls(calls') /\ \A e \in calls : \E g \in calls' : SameCall(e, g)
    BY <1>0, <2>1, WentOn, Zenon
  <2> QED
    BY <1>0, <1>1, <2>2, <2>3 DEF SameCall
\* A call ends that nothing waits for any more.
<1>9. ASSUME NEW c \in calls, ui' = [f \in UserFields |-> ui'[f]],
             calls' = calls \ {c} \/ \E list : Accounts!EndsAndFetches(c, list),
             ~ui'.inviting \/ (ui'.inviting = ui.inviting /\ c.op # "invite"),
             ~ui'.spinner \/ (ui'.spinner = ui.spinner /\ c.op # "sessions"),
             ~ui'.revoking \/ (ui'.revoking = ui.revoking /\ c.op # "revoke")
      PROVE  UsersWait'
  BY <1>0, <1>9, <1>1 DEF Accounts!EndsAndFetches, Accounts!Fetches, Accounts!Call, AreCalls,
     IsCall, CallFields
<1>10. ASSUME NEW c \in calls,
              Accounts!ListArrives(c) \/ Accounts!Acted(c) \/ Accounts!Cleared(c)
       PROVE  UsersWait'
  <2>1. /\ c.op \notin {"invite", "sessions", "revoke"}
        /\ calls' = calls \ {c} \/ \E list : Accounts!EndsAndFetches(c, list)
    BY <1>10 DEF Accounts!ListArrives, Accounts!Acted, Accounts!Cleared, Accounts!Actions,
       Accounts!Ends
  <2>2. /\ ui' = [f \in UserFields |-> ui'[f]] /\ ui'.inviting = ui.inviting
        /\ ui'.spinner = ui.spinner /\ ui'.revoking = ui.revoking
    BY <1>0, <1>10, Zenon DEF Accounts!ListArrives, Accounts!Acted, Accounts!Cleared, UserFields
  <2> QED
    BY <1>9, <2>1, <2>2
<1>11. ASSUME NEW c \in calls,
              \/ Accounts!Invited(c) \/ Accounts!InviteFails(c)
              \/ Accounts!SessionsArrive(c) \/ Accounts!Revoked(c)
       PROVE  UsersWait'
  <2>1. /\ c.op \in {"invite", "sessions", "revoke"}
        /\ calls' = calls \ {c} \/ \E list : Accounts!EndsAndFetches(c, list)
    BY <1>11 DEF Accounts!Invited, Accounts!InviteFails, Accounts!SessionsArrive,
       Accounts!Revoked, Accounts!Ends
  <2>2. /\ ui' = [f \in UserFields |-> ui'[f]]
        /\ ui'.inviting = IF c.op = "invite" THEN FALSE ELSE ui.inviting
        /\ ui'.spinner = IF c.op = "sessions" THEN FALSE ELSE ui.spinner
        /\ ui'.revoking = IF c.op = "revoke" THEN FALSE ELSE ui.revoking
    BY <1>0, <1>11, Zenon DEF Accounts!Invited, Accounts!InviteFails, Accounts!SessionsArrive,
       Accounts!Revoked, UserFields
  <2> QED
    BY <1>9, <2>1, <2>2, Zenon
<1> QED
  BY <1>3, <1>4, <1>5, <1>6, <1>7, <1>8, <1>10, <1>11 DEF Accounts!Next, Accounts!User

-----------------------------------------------------------------------------
(* The webhooks                                                            *)

LEMMA HooksWaitStarts == Hooks!Init => HooksWait
  BY DEF Hooks!Init, HookFields, HooksWait, Hooks!NoStuckWebhook, AreCalls

LEMMA HooksWaitSteps == HooksWait /\ Hooks!Next => HooksWait'
<1> SUFFICES ASSUME HooksWait, Hooks!Next PROVE HooksWait'
  OBVIOUS
<1>0. ui = [f \in HookFields |-> ui[f]] /\ AreCalls(calls)
  BY DEF HooksWait
<1> USE <1>0
<1> DEFINE Has(op) == \E g \in calls' : g.op = op
           Keeps(op) == (\E e \in calls : e.op = op) => Has(op)
<1>1. ASSUME ui' = [f \in HookFields |-> ui'[f]], AreCalls(calls'),
             ui'.creating => Has("create") \/ (ui.creating /\ Keeps("create")),
             ui'.rotating = None \/ Has("rotate") \/ (ui.rotating # None /\ Keeps("rotate"))
      PROVE  HooksWait'
  BY <1>1 DEF HooksWait, Hooks!NoStuckWebhook, Hooks!Rotating
<1>2. ASSUME NEW item, NEW op, NEW value, Hooks!Start(0, item, op, value, None)
      PROVE  AreCalls(calls') /\ (\A c \in calls : c \in calls') /\ Has(op)
  BY <1>2, OneMore DEF Hooks!Start, Hooks!Call, Call
<1>3. CASE Hooks!OpenCreate \/ Hooks!CloseCreate \/ Hooks!Dismiss \/ \E i \in Item : Hooks!Fill(i)
  <2>1. calls' = calls
    BY <1>3 DEF Hooks!OpenCreate, Hooks!CloseCreate, Hooks!Dismiss, Hooks!Fill
  <2>2. /\ ui' = [f \in HookFields |-> ui'[f]] /\ ui'.creating = ui.creating
        /\ ui'.rotating = ui.rotating
    BY <1>3, Zenon DEF Hooks!OpenCreate, Hooks!CloseCreate, Hooks!Dismiss, Hooks!Fill, HookFields
  <2> QED
    BY <1>1, <2>1, <2>2
<1>4. CASE Hooks!Create
  <2>1. /\ ui' = [ui EXCEPT !.creating = TRUE]
        /\ \E value : Hooks!Start(0, ui.draft, "create", value, None)
    BY <1>4 DEF Hooks!Create
  <2>2. ui' = [f \in HookFields |-> ui'[f]] /\ ui'.rotating = ui.rotating
    BY <2>1, Zenon DEF HookFields
  <2> QED
    BY <1>1, <1>2, <2>1, <2>2
<1>5. ASSUME NEW i \in Item, Hooks!Rotate(i) \/ Hooks!Delete(i)
      PROVE  HooksWait'
  BY <1>1, <1>2, <1>5 DEF Hooks!Rotate, HookFields, Hooks!Delete
<1>6. ASSUME NEW c \in calls, Hooks!Serve(c) \/ Hooks!Refuse(c)
      PROVE  HooksWait'
  <2>1. PICK x, y : calls' = (calls \ {c}) \cup {[c EXCEPT !.at = x, !.answer = y]}
    BY <1>6, Zenon DEF Hooks!Serve, Hooks!Refuse, Hooks!Answered, Hooks!Refused, Hooks!Fault,
       Hooks!Replace
  <2>2. ui' = ui
    BY <1>6 DEF Hooks!Serve, Hooks!Refuse
  <2>3. AreCalls(calls') /\ \A e \in calls : \E g \in calls' : SameCall(e, g)
    BY <2>1, WentOn, Zenon
  <2> QED
    BY <1>1, <2>2, <2>3 DEF SameCall
<1>7. ASSUME NEW c \in calls,
             \/ Hooks!ListArrives(c) \/ Hooks!Created(c) \/ Hooks!CreateFails(c)
             \/ Hooks!Rotated(c) \/ Hooks!Deleted(c)
      PROVE  HooksWait'
  <2>1. /\ c.op \in {"list", "create", "rotate", "delete"}
        /\ calls' = calls \ {c} \/ Hooks!EndsAndFetches(c)
    BY <1>7 DEF Hooks!ListArrives, Hooks!Created, Hooks!CreateFails, Hooks!Rotated,
       Hooks!Deleted, Hooks!Ends
  <2>2. AreCalls(calls') /\ \A e \in calls \ {c} : e \in calls'
    BY <2>1 DEF Hooks!EndsAndFetches, Hooks!Fetch, Hooks!Call, AreCalls, IsCall, CallFields
  <2>3. /\ ui' = [f \in HookFields |-> ui'[f]]
        /\ ui'.creating = IF c.op = "create" THEN FALSE ELSE ui.creating
        /\ ui'.rotating = IF c.op = "rotate" THEN None ELSE ui.rotating
    BY <1>7, Zenon DEF Hooks!ListArrives, Hooks!Created, Hooks!CreateFails, Hooks!Rotated,
       Hooks!Deleted, HookFields
  <2> QED
    BY <1>1, <2>1, <2>2, <2>3
<1> QED
  BY <1>3, <1>4, <1>5, <1>6, <1>7 DEF Hooks!Next

-----------------------------------------------------------------------------
(* The reports                                                             *)

LEMMA ReportsWaitStarts == Numbers!Init => ReportsWait
<1> SUFFICES ASSUME Numbers!Init PROVE ReportsWait
  OBVIOUS
<1>1. PICK f \in Item :
        /\ ui = [filter |-> f, shown |-> None, loading |-> TRUE, failed |-> FALSE,
                 cached |-> {}, inst |-> 0]
        /\ calls = {Numbers!Call(0, 0, f, "report", None, None)}
  BY Zenon DEF Numbers!Init
<1>2. ui = [g \in ReportFields |-> ui[g]] /\ ui.filter = f
  BY <1>1, Zenon DEF ReportFields
<1>3. AreCalls(calls) /\ \E c \in calls : c.item = f
  BY <1>1 DEF Numbers!Call, AreCalls, IsCall, CallFields
<1> QED
  BY <1>2, <1>3 DEF ReportsWait, Numbers!NoStuckReport

LEMMA ReportsWaitSteps == ReportsWait /\ Numbers!Next => ReportsWait'
<1> SUFFICES ASSUME ReportsWait, Numbers!Next PROVE ReportsWait'
  OBVIOUS
<1>0. ui = [f \in ReportFields |-> ui[f]] /\ AreCalls(calls)
  BY DEF ReportsWait
<1> USE <1>0
<1>1. ASSUME NEW inst, NEW f
      PROVE  LET c == Numbers!Call(made, inst, f, "report", None, None)
             IN  IsCall(c) /\ c.item = f
  BY DEF Numbers!Call, IsCall, CallFields
<1>2. ASSUME NEW f \in Item, Numbers!ChangeFilter(f)
      PROVE  ReportsWait'
  <2>1. CASE f \in ui.cached
    <3>1. ui' = [f2 \in ReportFields |-> ui'[f2]] /\ ~ui'.loading /\ calls' = calls
      BY <1>2, <2>1, Zenon DEF Numbers!ChangeFilter, ReportFields
    <3> QED
      BY <3>1 DEF ReportsWait, Numbers!NoStuckReport
  <2>2. CASE f \notin ui.cached
    <3>1. ui' = [g \in ReportFields |-> ui'[g]] /\ ui'.filter = f
      BY <1>2, <2>2, Zenon DEF Numbers!ChangeFilter, ReportFields
    <3>2. calls' = Numbers!KeepsRequests \cup Numbers!Asks(f)
      BY <1>2, <2>2 DEF Numbers!ChangeFilter
    <3>3. AreCalls(calls')
      BY <1>1, <3>2 DEF Numbers!KeepsRequests, Numbers!Asks, AreCalls
    <3>4. \E c \in calls' : c.item = f
      BY <3>2, <1>1 DEF Numbers!KeepsRequests, Numbers!Asks
    <3> QED
      BY <3>1, <3>3, <3>4 DEF ReportsWait, Numbers!NoStuckReport
  <2> QED
    BY <2>1, <2>2
<1>3. CASE Numbers!Retry
  <2>1. ui' = [g \in ReportFields |-> ui'[g]] /\ ui'.filter = ui.filter
    BY <1>3, Zenon DEF Numbers!Retry, ReportFields
  <2>2. AreCalls(calls') /\ \E c \in calls' : c.item = ui.filter
    BY <1>1, <1>3 DEF Numbers!Retry, AreCalls
  <2> QED
    BY <2>1, <2>2 DEF ReportsWait, Numbers!NoStuckReport
<1>4. ASSUME NEW c \in calls, Numbers!Serve(c) \/ Numbers!Refuse(c)
      PROVE  ReportsWait'
  <2>1. PICK x, y : calls' = (calls \ {c}) \cup {[c EXCEPT !.at = x, !.answer = y]}
    BY <1>4, Zenon DEF Numbers!Serve, Numbers!Refuse, Numbers!Answered, Numbers!Refused, Numbers!Fault,
       Numbers!Replace
  <2>2. ui' = ui
    BY <1>4 DEF Numbers!Serve, Numbers!Refuse
  <2>3. AreCalls(calls') /\ \A e \in calls : \E g \in calls' : SameCall(e, g)
    BY <2>1, WentOn, Zenon
  <2> QED
    BY <2>2, <2>3 DEF ReportsWait, Numbers!NoStuckReport, SameCall
<1>5. ASSUME NEW c \in calls, Numbers!Arrives(c) \/ Numbers!Fails(c)
      PROVE  ReportsWait'
  <2>1. AreCalls(calls') /\ \A e \in calls : e = c \/ e \in calls'
    BY <1>5, Ended DEF Numbers!Arrives, Numbers!Fails, Numbers!Ends
  <2>2. /\ ui' = [g \in ReportFields |-> ui'[g]]
        /\ ui'.filter = ui.filter
        /\ ui'.loading => ui.loading /\ c.item # ui.filter
    BY <1>5, Zenon DEF Numbers!Arrives, Numbers!Fails, Numbers!Fills, ReportFields
  <2> QED
    BY <2>1, <2>2 DEF ReportsWait, Numbers!NoStuckReport
<1> QED
  BY <1>2, <1>3, <1>4, <1>5 DEF Numbers!Next

-----------------------------------------------------------------------------
(* The form and the wizard of a schedule                                   *)

LEMMA FormWaitsStarts == Form!Init => FormWaits
  BY DEF Form!Init, Form!Shut, Form!Form, FormFields, FormWaits, Form!NoStuckForm, AreCalls

LEMMA FormWaitsSteps == FormWaits /\ Form!Next => FormWaits'
<1> SUFFICES ASSUME FormWaits, Form!Next PROVE FormWaits'
  OBVIOUS
<1>0. ui = [f \in FormFields |-> ui[f]] /\ AreCalls(calls)
  BY DEF FormWaits
<1> DEFINE Has(ops) == \E g \in calls' : g.inst = ui'.inst /\ g.op \in ops
           Keeps(ops) == /\ ui'.inst = ui.inst
                         /\ (\E e \in calls : e.inst = ui.inst /\ e.op \in ops) => Has(ops)
<1>1. ASSUME ui' = [f \in FormFields |-> ui'[f]], AreCalls(calls'),
             ui'.loading => Has({"save", "delete"}) \/ (ui.loading /\ Keeps({"save", "delete"})),
             ui'.deleting => Has({"series"}) \/ (ui.deleting /\ Keeps({"series"}))
      PROVE  FormWaits'
  BY <1>1 DEF FormWaits, Form!NoStuckForm, Form!Waiting
<1>2. ASSUME NEW inst, NEW item, NEW op, NEW value, NEW prev,
             Form!Start(inst, item, op, value, prev)
      PROVE  /\ AreCalls(calls') /\ \A c \in calls : c \in calls'
             /\ \E c \in calls' : c.inst = inst /\ c.op = op
  BY <1>2, <1>0, OneMore DEF Form!Start, Form!Call, Call
\* Nothing is disabled in a form that is mounted, or gone.
<1>3. ASSUME NEW inst, NEW e, NEW s, ui' = Form!Form(inst, e, s), calls' \subseteq calls
      PROVE  FormWaits'
  BY <1>3, <1>0, <1>1 DEF Form!Form, FormFields, AreCalls
<1>4. CASE \E s \in Value \cup {None}, e \in Single \cup {None} : Form!Open(e, s)
  BY <1>3, <1>4 DEF Form!Open
\* The form stays, and so do the calls.
<1>5. ASSUME ui' = [f \in FormFields |-> ui'[f]], ui'.inst = ui.inst,
             ui'.loading = ui.loading, ui'.deleting = ui.deleting, calls' = calls
      PROVE  FormWaits'
  BY <1>0, <1>1, <1>5, Zenon
<1>6. CASE Form!Close \/ \E b \in BOOLEAN : Form!AnswerDiscard(b)
  BY <1>3, <1>0, <1>5, <1>6 DEF Form!Shut, Form!Outlives, FormFields, Form!Close,
     Form!AnswerDiscard
<1>7. CASE \/ \E s \in Value \cup {None} : Form!Change(s)
           \/ \E scope \in {"this", "future"} : Form!PickScope(scope)
           \/ Form!CancelSeries
  <2>1. calls' = calls
    BY <1>7, Zenon DEF Form!Change, Form!PickScope, Form!CancelSeries
  <2>2. /\ ui' = [f \in FormFields |-> ui'[f]] /\ ui'.inst = ui.inst
        /\ ui'.loading = ui.loading /\ ui'.deleting = ui.deleting
    BY <1>0, <1>7, Zenon DEF Form!Change, Form!PickScope, Form!CancelSeries, FormFields
  <2> QED
    BY <1>5, <2>1, <2>2
<1>8. ASSUME NEW inst, NEW s
      PROVE  IsCall(Form!Check(inst, s))
  BY Zenon DEF Form!Check, Form!Fetch, Form!Call, IsCall, CallFields
<1>9. CASE Form!Debounced \/ Form!RetryPreview
  <2>1. \/ calls' = calls
        \/ calls' = calls \cup {Form!Check(ui.inst, ui.slot)}
    BY <1>9 DEF Form!Debounced, Form!RetryPreview, Form!FetchPreview
  <2>2. /\ ui' = [f \in FormFields |-> ui'[f]] /\ ui'.inst = ui.inst
        /\ ui'.loading = ui.loading /\ ui'.deleting = ui.deleting
    BY <1>0, <1>9, Zenon DEF Form!Debounced, Form!RetryPreview, Form!FetchPreview, FormFields
  <2>3. AreCalls(calls') /\ \A e \in calls : e \in calls'
    BY <1>0, <1>8, <2>1 DEF AreCalls
  <2> QED
    BY <1>1, <2>2, <2>3
<1>10. ASSUME NEW c \in calls, Form!Previewed(c) \/ Form!LegSet(c)
       PROVE  FormWaits'
  <2>1. /\ c.op \in {"check", "leg"}
        /\ \/ calls' = calls \ {c}
           \/ calls' = (calls \ {c}) \cup {Form!Check(c.inst, c.value)}
    BY <1>10 DEF Form!Previewed, Form!LegSet, Form!Ends, Form!Replace
  <2>2. /\ ui' = [f \in FormFields |-> ui'[f]] /\ ui'.inst = ui.inst
        /\ ui'.loading = ui.loading /\ ui'.deleting = ui.deleting
    BY <1>0, <1>10, Zenon DEF Form!Previewed, Form!LegSet, FormFields
  <2>3. AreCalls(calls') /\ \A e \in calls \ {c} : e \in calls'
    BY <1>0, <1>8, <2>1 DEF AreCalls
  <2> QED
    BY <1>1, <2>1, <2>2, <2>3
<1>11. CASE Form!OverrideLeg
  BY <1>11, <1>0, <1>1, <1>2 DEF Form!OverrideLeg
<1>12. CASE Form!Submit
  <2>1. /\ ui' = [ui EXCEPT !.loading = TRUE]
        /\ \E prev : Form!Start(ui.inst, ui.edit, "save", ui.slot, prev)
    BY <1>12 DEF Form!Submit
  <2>2. /\ ui' = [f \in FormFields |-> ui'[f]] /\ ui'.inst = ui.inst
        /\ ui'.deleting = ui.deleting
    BY <1>0, <2>1, Zenon DEF FormFields
  <2> QED
    BY <1>1, <1>2, <2>1, <2>2
<1>13. CASE Form!Delete
  <2>1. CASE ui' = [ui EXCEPT !.ask = TRUE] /\ calls' = calls
    BY <1>0, <1>5, <2>1, Zenon DEF FormFields
  <2>2. CASE /\ ui' = [ui EXCEPT !.loading = TRUE]
             /\ Form!Start(ui.inst, ui.edit, "delete", None, None)
    <3>1. /\ ui' = [f \in FormFields |-> ui'[f]] /\ ui'.inst = ui.inst
          /\ ui'.deleting = ui.deleting
      BY <1>0, <2>2, Zenon DEF FormFields
    <3> QED
      BY <1>1, <1>2, <2>2, <3>1
  <2> QED
    BY <1>13, <2>1, <2>2 DEF Form!Delete
<1>14. CASE Form!DeleteSeries
  <2>1. /\ ui' = [ui EXCEPT !.deleting = TRUE]
        /\ Form!Start(ui.inst, ui.edit, "series", None, None)
    BY <1>14 DEF Form!DeleteSeries
  <2>2. /\ ui' = [f \in FormFields |-> ui'[f]] /\ ui'.inst = ui.inst
        /\ ui'.loading = ui.loading
    BY <1>0, <2>1, Zenon DEF FormFields
  <2> QED
    BY <1>1, <1>2, <2>1, <2>2
<1>15. ASSUME NEW c \in calls, Form!Saved(c)
       PROVE  FormWaits'
  BY <1>3, <1>15 DEF Form!Saved, Form!Shut, Form!Outlives
<1>16. ASSUME NEW c \in calls, Form!SaveFails(c) \/ Form!DeleteFails(c)
       PROVE  FormWaits'
  <2>1. calls' = calls \ {c}
    BY <1>16 DEF Form!SaveFails, Form!DeleteFails, Form!Ends
  <2>2. /\ ui' = [f \in FormFields |-> ui'[f]] /\ ui'.inst = ui.inst
        /\ ui'.loading = IF c.inst = ui.inst /\ c.op # "series" THEN FALSE ELSE ui.loading
        /\ ui'.deleting = IF c.inst = ui.inst /\ c.op = "series" THEN FALSE ELSE ui.deleting
        /\ c.op \in {"save", "delete", "series"}
    BY <1>0, <1>16, Zenon DEF Form!SaveFails, Form!DeleteFails, FormFields
  <2>3. AreCalls(calls') /\ \A e \in calls : e = c \/ e \in calls'
    BY <1>0, <2>1, Ended
  <2> QED
    BY <1>1, <2>2, <2>3
<1> QED
  BY <1>4, <1>6, <1>7, <1>9, <1>10, <1>11, <1>12, <1>13, <1>14, <1>15, <1>16 DEF Form!Next

LEMMA WizardWaitsStarts == Wizard!Init => WizardWaits
  BY WizardStarts DEF Wizard!Init, WizardWaits, Wizard!NoStuckQuick

LEMMA WizardWaitsSteps == WizardWaits /\ Wizard!Next => WizardWaits'
<1> SUFFICES ASSUME WizardWaits, Wizard!Next PROVE WizardWaits'
  OBVIOUS
<1>0. ui = [f \in DOMAIN ui |-> ui[f]] /\ "creating" \in DOMAIN ui /\ WizardInv'
  BY WizardSteps DEF WizardWaits, WizardInv, WizardUi
<1> USE <1>0
<1>1. ASSUME NEW u, Wizard!Edits(u), u.creating = ui.creating
      PROVE  WizardWaits'
  BY <1>1 DEF WizardWaits, Wizard!NoStuckQuick, Wizard!Edits
<1>2. CASE Wizard!CreateClass
  <2>1. \E c \in calls' : c.op = "class"
    <3>1. PICK c : c = Wizard!Call(made, None, None, "class", None, None)
      OBVIOUS
    <3>2. c.op = "class" /\ c \in calls'
      BY <1>2, <3>1 DEF Wizard!CreateClass, Wizard!Start, Wizard!Call
    <3> QED
      BY <3>2
  <2> QED
    BY <2>1 DEF WizardWaits, Wizard!NoStuckQuick
<1>3. CASE \E c \in calls : Wizard!ClassCreated(c) \/ Wizard!ClassFails(c)
  <2>1. ~ui'.creating
    BY <1>3, Zenon DEF Wizard!ClassCreated, Wizard!ClassFails
  <2> QED
    BY <2>1 DEF WizardWaits, Wizard!NoStuckQuick
<1>4. CASE Wizard!SubmitFails
  BY <1>4 DEF Wizard!SubmitFails, WizardWaits, Wizard!NoStuckQuick
<1>5. CASE \/ Wizard!Forward \/ Wizard!Back \/ \E step \in 0..2 : Wizard!Jump(step)
           \/ \E b \in BOOLEAN : Wizard!PickStaff(b) \/ Wizard!TypeCount(b)
           \/ Wizard!PickClass \/ Wizard!OpenQuick \/ Wizard!CloseQuick
           \/ \E e \in Wizard!Endings : Wizard!PickEnd(e)
  BY <1>1, <1>5, Zenon DEF Wizard!Forward, Wizard!Back, Wizard!Jump, Wizard!PickStaff,
     Wizard!TypeCount, Wizard!PickClass, Wizard!OpenQuick, Wizard!CloseQuick, Wizard!PickEnd
<1>6. CASE \/ \E b \in BOOLEAN : Wizard!PickPlace(b)
           \/ \E r \in {"none", "simple", "custom"} : Wizard!PickRepeat(r)
           \/ Wizard!OpenCustom \/ Wizard!CancelCustom \/ Wizard!DoneCustom
           \/ \E r \in Wizard!Rules : Wizard!EditDraft(r)
  BY <1>1, <1>6, Zenon DEF Wizard!PickPlace, Wizard!PickRepeat, Wizard!OpenCustom,
     Wizard!CancelCustom, Wizard!DoneCustom, Wizard!EditDraft
<1>7. CASE Wizard!Submit
  BY <1>1, <1>7 DEF Wizard!Submit
<1> QED
  BY <1>2, <1>3, <1>4, <1>5, <1>6, <1>7 DEF Wizard!Next

-----------------------------------------------------------------------------
(* The session                                                             *)

LEMMA SessionWaitsStarts == Browser!Init => SessionWaits
  BY DEF Browser!Init, SessionWaits, AreCalls, Browser!NoStuckCall

LEMMA SessionWaitsSteps == SessionWaits /\ Browser!Next => SessionWaits'
<1> SUFFICES ASSUME SessionWaits, Browser!Next PROVE SessionWaits'
  OBVIOUS
<1>0. AreCalls(calls) /\ \A c \in calls : IsCall(c)
  BY DEF SessionWaits, AreCalls
\* The refreshes of a tab stay, or none of its calls waits.
<1>1. ASSUME AreCalls(calls'),
             \A d \in calls' : d.at = "wait" =>
               \/ \E c \in calls : c.at = "wait" /\ c.inst = d.inst /\ c.op = d.op
               \/ d.inst # None /\ d.op \in {"get", "change"}
                  /\ \E r \in calls' : r.inst = d.inst /\ r.op = "refresh",
             \A d \in calls', r \in calls : d.at = "wait" /\ r.op = "refresh" /\ r.inst = d.inst =>
               \E s \in calls' : s.inst = r.inst /\ s.op = "refresh"
      PROVE  SessionWaits'
  BY <1>1 DEF SessionWaits, Browser!NoStuckCall, Browser!Refreshing, Browser!Waiting
<1>2. ASSUME NEW t, NEW op, NEW c, c = Browser!Ask(t, op)
      PROVE  IsCall(c) /\ c.inst = t /\ c.op = op /\ c.at = "out"
  BY <1>2 DEF Browser!Ask, Browser!Call, IsCall, CallFields
<1>14. ASSUME NEW c, IsCall(c), NEW d, NEW a, d = [c EXCEPT !.value = a]
       PROVE  IsCall(d) /\ d.at = c.at
  BY <1>14 DEF IsCall, CallFields
<1>15. ASSUME NEW t, NEW u, NEW at, Browser!Load(u, t, at)
       PROVE  \E m : /\ IsCall(m) /\ m.at = "out"
                     /\ calls' = {c \in calls : c.inst # t}
                                 \cup {[c EXCEPT !.inst = None] : c \in Browser!Orphans(t)}
                                 \cup {m}
  <2>1. PICK c : c = Browser!Ask(t, "me")
    OBVIOUS
  <2>2. PICK m : m = [c EXCEPT !.value = u.jar[u.of[t]].access]
    BY Zenon
  <2>3. IsCall(m) /\ m.at = "out"
    BY <1>2, <1>14, <2>1, <2>2
  <2> QED
    BY <1>15, <2>1, <2>2, <2>3, Zenon DEF Browser!Load
<1>3. ASSUME NEW t \in Item, NEW op, calls' = calls \cup {Browser!Ask(t, op)}
      PROVE  SessionWaits'
  BY <1>2, <1>3, <1>0, <1>1 DEF AreCalls
<1>4. CASE Browser!GraceEnds \/ \E j \in DOMAIN ui.jar : Browser!Expire(j)
  BY <1>4, <1>0, <1>1 DEF Browser!GraceEnds, Browser!Expire
<1>5. ASSUME NEW t, NEW u, NEW at, t # None, Browser!Load(u, t, at)
      PROVE  SessionWaits'
  BY <1>5, <1>15, <1>0, <1>1 DEF Browser!Orphans, IsCall, CallFields, AreCalls
<1>6. ASSUME NEW t \in Item,
             \/ Browser!Reload(t) \/ Browser!Send(t, "get") \/ Browser!Send(t, "change")
             \/ Browser!LogIn(t) \/ Browser!LogOut(t)
      PROVE  SessionWaits'
  BY NoneIsNothing, <1>3, <1>5, <1>6 DEF Browser!Reload, Browser!Send, Browser!LogIn,
     Browser!LogOut
\* A call ends, and with a refresh those that wait for it.
<1>7. ASSUME NEW c \in calls, NEW S, calls' = calls \ S,
             \A r \in S : r.op = "refresh" => \A d \in calls' : d.at = "wait" => d.inst # r.inst
      PROVE  SessionWaits'
  BY <1>0, <1>1, <1>7 DEF AreCalls
<1>8. ASSUME NEW c \in calls,
             \/ Browser!Done(c) \/ Browser!LoggedIn(c) \/ Browser!LoggedOut(c)
             \/ Browser!Orphaned(c)
      PROVE  SessionWaits'
  <2>1. calls' = calls \ {c} /\ (c.op # "refresh" \/ c.inst = None)
    BY <1>8 DEF Browser!Done, Browser!LoggedIn, Browser!LoggedOut, Browser!Orphaned, Browser!Ends
  <2>2. \A d \in calls : d.at = "wait" => d.inst # None
    BY DEF SessionWaits
  <2> QED
    BY <1>7, <2>1, <2>2, Zenon
<1>9. ASSUME NEW c \in calls, Browser!MeAnswered(c)
      PROVE  SessionWaits'
  BY <1>7, <1>9, <1>5, <1>15, <1>0, <1>1 DEF Browser!MeAnswered, Browser!Orphans, IsCall,
     CallFields, AreCalls, Browser!Ends
<1>10. ASSUME NEW c \in calls, Browser!Denied(c)
       PROVE  SessionWaits'
  BY <1>0, <1>10, <1>2, <1>1 DEF Browser!Denied, IsCall, CallFields, Browser!Refreshing,
     Browser!Waiting, AreCalls
<1>11. ASSUME NEW c \in calls, Browser!Refreshed(c)
       PROVE  SessionWaits'
  <2>1. ASSUME NEW d \in Browser!Waiters(c.inst)
        PROVE  LET e == [d EXCEPT !.at = "out", !.step = 2, !.value = c.answer.access,
                                  !.prev = c.answer.refresh]
               IN  IsCall(e) /\ e.at = "out"
    BY <1>0, Zenon DEF Browser!Waiters, IsCall, CallFields
  <2>2. AreCalls(calls') /\ \A d \in calls' : d.at = "wait" => d \in calls /\ d.inst # c.inst
    BY <1>0, <1>11, <2>1, Zenon DEF Browser!Refreshed, Browser!Waiters, AreCalls
  <2>3. \A r \in calls : r.inst # c.inst => r \in calls'
    BY <1>11, Zenon DEF Browser!Refreshed, Browser!Waiters
  <2> QED
    BY <1>1, <2>2, <2>3
<1>12. ASSUME NEW c \in calls, Browser!NotRefreshed(c)
       PROVE  SessionWaits'
  <2>1. CASE calls' = calls \ ({c} \cup Browser!Waiters(c.inst))
    <3>1. \A r \in {c} \cup Browser!Waiters(c.inst) : r.inst = c.inst
      BY DEF Browser!Waiters
    <3>2. \A d \in calls' : d.at = "wait" => d.inst # c.inst
      BY <2>1 DEF Browser!Waiters
    <3> QED
      BY <1>7, <2>1, <3>1, <3>2, Zenon
  <2>2. CASE \E u : Browser!Load(u, c.inst, "login")
    BY <1>5, <1>12, <2>2 DEF Browser!NotRefreshed
  <2> QED
    BY <1>12, <2>1, <2>2 DEF Browser!NotRefreshed
<1>13. ASSUME NEW c \in calls, Browser!Serve(c) \/ Browser!Lose(c)
       PROVE  SessionWaits'
  <2>1. ASSUME NEW d, IsCall(d), SameCall(c, d), d.at # "wait", calls' = (calls \ {c}) \cup {d}
        PROVE  SessionWaits'
    BY <1>0, <1>1, <2>1 DEF SameCall, AreCalls
  <2>2. \/ \E x \in {"denied", "reused"} : Browser!Denies(c, x)
        \/ \E y : Browser!Answered(c, y) \/ Browser!Refused(c, y)
    BY <1>13 DEF Browser!Serve, Browser!Lose, Browser!ServeRefresh, Browser!ServeLogOut,
       Browser!ServeChange, Browser!Issues, Browser!Fault
  <2>3. ASSUME NEW x \in {"denied", "reused"}, Browser!Denies(c, x)
        PROVE  SessionWaits'
    <3>1. PICK d : d = [c EXCEPT !.at = x]
      BY Zenon
    <3>2. IsCall(d) /\ SameCall(c, d) /\ d.at = x
      BY <1>0, <3>1 DEF IsCall, CallFields, SameCall
    <3> QED
      BY <2>1, <2>3, <3>1, <3>2, Zenon DEF Browser!Denies, Browser!Replace
  <2>4. ASSUME NEW x \in {"ok", "no"}, NEW y,
               calls' = (calls \ {c}) \cup {[c EXCEPT !.at = x, !.answer = y]}
        PROVE  SessionWaits'
    <3>1. PICK d : d = [c EXCEPT !.at = x, !.answer = y]
      OBVIOUS
    <3>2. IsCall(d) /\ SameCall(c, d) /\ d.at = x
      BY <1>0, <3>1, Zenon DEF IsCall, CallFields, SameCall
    <3> QED
      BY <2>1, <2>4, <3>1, <3>2, Zenon
  <2> QED
    BY <2>2, <2>3, <2>4, Zenon DEF Browser!Answered, Browser!Refused, Browser!Replace
<1> QED
  BY <1>4, <1>6, <1>8, <1>9, <1>10, <1>11, <1>12, <1>13 DEF Browser!Next

-----------------------------------------------------------------------------
(* The import                                                              *)

LEMMA ImportWaitsStarts == Csv!Init => ImportWaits
  BY DEF Csv!Init, Csv!Fresh, ImportFields, ImportWaits, AreCalls, Csv!ImportsOnce

LEMMA ImportWaitsSteps == ImportWaits /\ Csv!Next => ImportWaits'
<1> SUFFICES ASSUME ImportWaits, Csv!Next PROVE ImportWaits'
  OBVIOUS
<1>0. /\ ui = [f \in ImportFields |-> ui[f]] /\ AreCalls(calls)
      /\ ui.inst \in Nat /\ \A c \in calls : c.inst \in Nat /\ c.inst <= ui.inst
  BY DEF ImportWaits
<1>1. CASE Csv!OpenDialog
  BY <1>1, <1>0 DEF Csv!OpenDialog, Csv!Fresh, ImportFields, ImportWaits, Csv!ImportsOnce
\* The dialog stays, and so do the calls.
<1>2. CASE Csv!CloseDialog \/ Csv!ChangeFile \/ \E i \in Item : Csv!SelectFile(i)
  <2>1. calls' = calls
    BY <1>2, Zenon DEF Csv!CloseDialog, Csv!ChangeFile, Csv!SelectFile
  <2>2. /\ ui' = [f \in ImportFields |-> ui'[f]] /\ ui'.inst = ui.inst
        /\ ui'.open => ui.open
        /\ ui'.uploading = ui.uploading /\ ui'.committing = ui.committing
    BY <1>0, <1>2, Zenon DEF Csv!CloseDialog, Csv!ChangeFile, Csv!SelectFile, ImportFields
  <2> QED
    BY <2>1, <2>2 DEF ImportWaits, Csv!ImportsOnce, Csv!Waiting
<1>3. ASSUME NEW item, NEW op, Csv!Start(ui.inst, item, op, None, None)
      PROVE  \E d : /\ calls' = calls \cup {d}
                    /\ IsCall(d) /\ d.inst = ui.inst /\ d.op = op
  <2>1. PICK d : d = Call(made, ui.inst, item, op, None, None)
    OBVIOUS
  <2>2. IsCall(d) /\ d.inst = ui.inst /\ d.op = op
    BY <2>1, NewCall
  <2>3. calls' = calls \cup {d}
    BY <1>3, <2>1 DEF Csv!Start, Csv!Call, Call
  <2> QED
    BY <2>2, <2>3
<1>4. CASE Csv!Preview
  <2>1. ui' = [ui EXCEPT !.uploading = TRUE]
    BY <1>4 DEF Csv!Preview
  <2>2. PICK d : calls' = calls \cup {d} /\ IsCall(d) /\ d.inst = ui.inst /\ d.op = "preview"
    BY <1>3, <1>4 DEF Csv!Preview
  <2>3. /\ ui' = [f \in ImportFields |-> ui'[f]] /\ ui'.inst = ui.inst /\ ui'.open = ui.open
        /\ ui'.committing = ui.committing
    BY <1>0, <2>1, Zenon DEF ImportFields
  <2> QED
    BY <2>2, <2>3 DEF ImportWaits, AreCalls, Csv!ImportsOnce, Csv!Waiting
<1>5. CASE Csv!Commit
  <2>1. ui' = [ui EXCEPT !.committing = TRUE] /\ ~ui.committing
    BY <1>5 DEF Csv!Commit
  <2>2. PICK d : calls' = calls \cup {d} /\ IsCall(d) /\ d.inst = ui.inst /\ d.op = "commit"
    BY <1>3, <1>5 DEF Csv!Commit
  <2>3. /\ ui' = [f \in ImportFields |-> ui'[f]] /\ ui'.inst = ui.inst /\ ui'.open = ui.open
        /\ ui'.uploading = ui.uploading /\ ui'.committing
    BY <1>0, <2>1, Zenon DEF ImportFields
  <2> QED
    BY <2>1, <2>2, <2>3 DEF ImportWaits, AreCalls, Csv!ImportsOnce, Csv!Waiting
<1>6. ASSUME NEW c \in calls, Csv!Serve(c) \/ Csv!Refuse(c)
      PROVE  ImportWaits'
  <2>1. PICK x, y : calls' = (calls \ {c}) \cup {[c EXCEPT !.at = x, !.answer = y]}
    BY <1>6, Zenon DEF Csv!Serve, Csv!Refuse, Csv!Answered, Csv!Refused, Csv!Fault, Csv!Replace
  <2>2. PICK d : d = [c EXCEPT !.at = x, !.answer = y]
    OBVIOUS
  <2>3. IsCall(d) /\ SameCall(c, d)
    BY <1>0, <2>2, GoesOn, Zenon DEF AreCalls
  <2>4. ui' = ui /\ calls' = (calls \ {c}) \cup {d}
    BY <1>6, <2>1, <2>2 DEF Csv!Serve, Csv!Refuse
  <2> QED
    BY <2>3, <2>4 DEF ImportWaits, AreCalls, Csv!ImportsOnce, Csv!Waiting, SameCall
<1>7. ASSUME NEW c \in calls,
             Csv!Previewed(c) \/ Csv!PreviewFails(c) \/ Csv!Committed(c) \/ Csv!CommitFails(c)
      PROVE  ImportWaits'
  <2>1. calls' = calls \ {c} /\ c.op \in {"preview", "commit"}
    BY <1>7 DEF Csv!Previewed, Csv!PreviewFails, Csv!Committed, Csv!CommitFails, Csv!Ends
  <2>2. /\ ui' = [f \in ImportFields |-> ui'[f]] /\ ui'.inst = ui.inst
        /\ ui'.open => ui.open
        /\ ui'.uploading = IF ui.open /\ c.inst = ui.inst /\ c.op = "preview" THEN FALSE
                           ELSE ui.uploading
        /\ ui'.committing = IF ui.open /\ c.inst = ui.inst /\ c.op = "commit" THEN FALSE
                            ELSE ui.committing
    BY <1>0, <1>7, Zenon DEF Csv!Previewed, Csv!PreviewFails, Csv!Committed, Csv!CommitFails,
       Csv!Mounted, ImportFields
  <2> QED
    BY <2>1, <2>2, Zenon DEF ImportWaits, AreCalls, Csv!ImportsOnce, Csv!Waiting
<1> QED
  BY <1>1, <1>2, <1>4, <1>5, <1>6, <1>7 DEF Csv!Next

-----------------------------------------------------------------------------
(* The inboxes                                                             *)

LEMMA InboxWaitsStarts == Bell!Init => InboxWaits
<1> SUFFICES ASSUME Bell!Init PROVE InboxWaits
  OBVIOUS
<1>1. ui = [f \in InboxFields |-> ui[f]] /\ ui.at = "idle"
  BY Zenon DEF Bell!Init, InboxFields
<1> QED
  BY <1>1, Zenon DEF Bell!Init, InboxWaits, AreCalls, Bell!NoStuckBell

LEMMA InboxWaitsSteps == InboxWaits /\ Bell!Next => InboxWaits'
<1> SUFFICES ASSUME InboxWaits, Bell!Next PROVE InboxWaits'
  OBVIOUS
<1>0. ui = [f \in InboxFields |-> ui[f]] /\ AreCalls(calls)
  BY DEF InboxWaits
<1> DEFINE Polls(S) == \E c \in S : c.op = "poll"
<1>1. ASSUME ui' = [f \in InboxFields |-> ui'[f]], AreCalls(calls'),
             ui'.at = "loading" => Polls(calls') \/ (ui.at = "loading" /\ (Polls(calls) => Polls(calls')))
      PROVE  InboxWaits'
  BY <1>1 DEF InboxWaits, Bell!NoStuckBell, Bell!Polls
<1>2. ASSUME NEW id, NEW quiet, NEW c, c = Bell!Poll(id, quiet)
      PROVE  IsCall(c) /\ c.op = "poll"
  BY <1>2 DEF Bell!Poll, Bell!Call, IsCall, CallFields
<1>3. ASSUME NEW S, AreCalls(S), NEW id, NEW quiet, calls' = S \cup {Bell!Poll(id, quiet)}
      PROVE  AreCalls(calls') /\ Polls(calls')
  BY <1>3, <1>2 DEF AreCalls
<1>4. AreCalls(Bell!Disturb(calls)) /\ (Polls(calls) => Polls(Bell!Disturb(calls)))
  <2> DEFINE Disturbed(c) == IF c.op = "poll" THEN [c EXCEPT !.value = FALSE] ELSE c
  <2>1. ASSUME NEW c \in calls
        PROVE  IsCall(Disturbed(c)) /\ Disturbed(c).op = c.op
    BY <1>0, Zenon DEF AreCalls, IsCall, CallFields
  <2>2. Bell!Disturb(calls) = {Disturbed(c) : c \in calls}
    BY DEF Bell!Disturb
  <2> HIDE DEF Disturbed
  <2>3. AreCalls(Bell!Disturb(calls))
    BY <2>1, <2>2 DEF AreCalls
  <2>4. Polls(calls) => Polls(Bell!Disturb(calls))
    BY <2>1, <2>2
  <2> QED
    BY <2>3, <2>4
<1>6. CASE Bell!Bell
  <2>1. CASE ui' = [ui EXCEPT !.open = ~@] /\ calls' = calls
    BY <1>0, <2>1, <1>1 DEF InboxFields
  <2>2. CASE /\ ui' = [ui EXCEPT !.open = TRUE, !.at = "loading"]
             /\ \E quiet : calls' = calls \cup {Bell!Poll(made, quiet)}
    <3>1. ui' = [f \in InboxFields |-> ui'[f]]
      BY <1>0, <2>2, Zenon DEF InboxFields
    <3>2. AreCalls(calls') /\ Polls(calls')
      BY <1>0, <1>3, <2>2
    <3> QED
      BY <1>1, <3>1, <3>2
  <2> QED
    BY <1>6, <2>1, <2>2 DEF Bell!Bell
<1>7. ASSUME Bell!Polling
      PROVE  AreCalls(calls') /\ Polls(calls')
  <2>1. AreCalls(Bell!Writes)
    BY <1>0 DEF Bell!Writes, AreCalls
  <2> QED
    BY <1>0, <1>3, <1>7, <2>1 DEF Bell!Polling
<1>8. CASE Bell!Tick \/ Bell!Retry
  <2>1. ui' = [f \in InboxFields |-> ui'[f]] /\ Bell!Polling
    BY <1>0, <1>8, Zenon DEF Bell!Tick, Bell!Retry, InboxFields
  <2> QED
    BY <1>1, <1>7, <2>1
<1>9. CASE Bell!ClickElsewhere \/ \E i \in Item : Bell!HideAlert(i)
  BY <1>0, <1>9, <1>1 DEF Bell!ClickElsewhere, Bell!HideAlert, InboxFields
<1>10. CASE \E alerts \in SUBSET Item : Bell!Alert(alerts)
  BY <1>0, <1>1, <1>10 DEF Bell!Alert
<1>11. CASE \E i \in Item : Bell!Notify(i)
  BY <1>0, <1>1, <1>4, <1>11 DEF Bell!Notify
<1>12. ASSUME NEW u, NEW items, NEW op, Bell!Write(u, items, op),
              u = [f \in InboxFields |-> u[f]], u.at = ui.at
       PROVE  InboxWaits'
  BY <1>4, <1>12, <1>1 DEF Bell!Call, IsCall, CallFields, Bell!Write, AreCalls
<1>13. CASE Bell!ReadAll \/ Bell!DismissAll \/ \E i \in Item : Bell!Click(i) \/ Bell!Dismiss(i)
  <2>1. ASSUME NEW u, NEW items, NEW op, Bell!Write(u, items, op),
               \E x, y : u = [ui EXCEPT !.rows = x] \/ u = [ui EXCEPT !.rows = x, !.hidden = y]
        PROVE  InboxWaits'
    <3>1. u = [f \in InboxFields |-> u[f]] /\ u.at = ui.at
      BY <1>0, <2>1, Zenon DEF InboxFields
    <3> QED
      BY <1>12, <2>1, <3>1
  <2>2. CASE ui' = [ui EXCEPT !.open = FALSE] /\ calls' = calls
    <3>1. ui' = [f \in InboxFields |-> ui'[f]] /\ ui'.at = ui.at
      BY <1>0, <2>2, Zenon DEF InboxFields
    <3> QED
      BY <1>0, <1>1, <2>2, <3>1
  <2>3. CASE Bell!ReadAll
    <3>1. PICK u, items, op : Bell!Write(u, items, op) /\ u = [ui EXCEPT !.rows = Bell!Read(@, Item)]
      BY <2>3, Zenon DEF Bell!ReadAll
    <3> QED
      BY <2>1, <3>1, Zenon
  <2>4. CASE Bell!DismissAll
    <3>1. PICK u : /\ Bell!Write(u, {None}, "dismiss all")
                   /\ u = [ui EXCEPT !.rows = [i \in Item |-> None], !.hidden = ui.alerts]
      BY <2>4, Zenon DEF Bell!DismissAll
    <3> QED
      BY <2>1, <3>1, Zenon
  <2>5. ASSUME NEW i \in Item, Bell!Click(i)
        PROVE  InboxWaits'
    <3>1. CASE Bell!Write([ui EXCEPT !.rows = Bell!Read(@, {i})], {i}, "read")
      BY <2>1, <3>1, Zenon
    <3> QED
      BY <2>2, <2>5, <3>1 DEF Bell!Click
  <2>6. ASSUME NEW i \in Item, Bell!Dismiss(i)
        PROVE  InboxWaits'
    BY <2>6, <1>0, <1>12 DEF Bell!Dismiss, InboxFields
  <2> QED
    BY <1>13, <2>3, <2>4, <2>5, <2>6
<1>14. ASSUME NEW c \in calls, Bell!Polled(c)
       PROVE  InboxWaits'
  <2>1. ui' = [f \in InboxFields |-> ui'[f]] /\ ui'.at = "ready" /\ calls' = calls \ {c}
    BY <1>0, <1>14, Zenon DEF Bell!Polled, Bell!Ends, InboxFields
  <2> QED
    BY <1>0, <1>1, <2>1 DEF AreCalls
<1>15. ASSUME NEW c \in calls, Bell!Written(c) \/ Bell!WriteFails(c)
       PROVE  InboxWaits'
  <2>1. ui' = [f \in InboxFields |-> ui'[f]] /\ ui'.at = ui.at
    BY <1>0, <1>15 DEF Bell!Written, Bell!WriteFails, InboxFields
  <2>2. /\ c.op # "poll"
        /\ \/ calls' = calls \ {c}
           \/ \E id, quiet : calls' = (calls \ {c}) \cup {Bell!Poll(id, quiet)}
    BY <1>15 DEF Bell!Written, Bell!WriteFails, Bell!Ends, Bell!Reload
  <2>3. AreCalls(calls \ {c}) /\ (Polls(calls) => Polls(calls \ {c}))
    BY <1>0, <2>2 DEF AreCalls
  <2>4. AreCalls(calls') /\ (Polls(calls) => Polls(calls'))
    BY <1>3, <2>2, <2>3
  <2> QED
    BY <1>1, <2>1, <2>4
<1>16. ASSUME NEW c \in calls, NEW d, IsCall(d), d.op = c.op, calls' = (calls \ {c}) \cup {d},
              ui' = ui
       PROVE  InboxWaits'
  BY <1>0, <1>1, <1>16 DEF AreCalls
<1>17. ASSUME NEW c \in calls, Bell!PollServed(c) \/ Bell!PollFails(c)
       PROVE  InboxWaits'
  <2>1. PICK x : calls' = (calls \ {c}) \cup {[c EXCEPT !.answer = x]}
    <3>1. CASE Bell!PollFails(c)
      <4>1. calls' = (calls \ {c}) \cup {[c EXCEPT !.answer = [c.answer EXCEPT !.pending = {}]]}
        BY <3>1 DEF Bell!PollFails, Bell!Replace
      <4> QED
        BY <4>1, Zenon
    <3>2. CASE Bell!PollServed(c)
      <4>1. \/ calls' = (calls \ {c}) \cup
                 {[c EXCEPT !.answer = [c.answer EXCEPT !.rows = Bell!Rows, !.pending = @ \ {"rows"}]]}
            \/ calls' = (calls \ {c}) \cup
                 {[c EXCEPT !.answer = [c.answer EXCEPT !.alerts = server.alerts,
                                                        !.pending = @ \ {"alerts"}]]}
        BY <3>2, Zenon DEF Bell!PollServed, Bell!Replace
      <4> QED
        BY <4>1
    <3> QED
      BY <1>17, <3>1, <3>2
  <2>2. PICK d : d = [c EXCEPT !.answer = x]
    BY Zenon
  <2>3. IsCall(d) /\ d.op = c.op
    BY <1>0, <2>2 DEF AreCalls, IsCall, CallFields
  <2>4. ui' = ui
    BY <1>17 DEF Bell!PollServed, Bell!PollFails
  <2> QED
    BY <1>16, <2>1, <2>2, <2>3, <2>4, Zenon
<1>18. ASSUME NEW c \in calls, Bell!Serve(c) \/ Bell!Refuse(c)
       PROVE  InboxWaits'
  <2>1. PICK x, y : calls' = (calls \ {c}) \cup {[c EXCEPT !.at = x, !.answer = y]}
    BY <1>18, Zenon DEF Bell!Serve, Bell!Refuse, Bell!Answered, Bell!Refused, Bell!Fault, Bell!Replace
  <2>2. PICK d : d = [c EXCEPT !.at = x, !.answer = y]
    OBVIOUS
  <2>3. IsCall(d) /\ SameCall(c, d)
    BY <1>0, <2>2, GoesOn, Zenon DEF AreCalls
  <2>4. ui' = ui
    BY <1>18, Zenon DEF Bell!Serve, Bell!Refuse
  <2> QED
    BY <1>16, <2>1, <2>2, <2>3, <2>4, Zenon DEF SameCall
<1> QED
  BY <1>6, <1>8, <1>9, <1>10, <1>11, <1>13, <1>14, <1>15, <1>17, <1>18 DEF Bell!Next

-----------------------------------------------------------------------------
(* The settings                                                            *)

\* A page that is loaded asks for all that it waits for.
LEMMA SettingsLoad ==
  ASSUME NEW inst, NEW S, AreCalls(S),
         ui' = Personal!Loaded(inst),
         \A c \in calls' : c \in S \/ \E ops : c \in Personal!Loads(inst, ops),
         \A c \in Personal!Loads(inst, Personal!AtMount) : c \in calls'
  PROVE  SettingsWait'
<1>1. ASSUME NEW op, NEW c, c = Personal!Call(None, inst, None, op, None, None)
      PROVE  IsCall(c) /\ c.inst = inst /\ c.op = op
  BY <1>1 DEF Personal!Call, IsCall, CallFields
<1>2. ui' = [f \in SettingsFields |-> ui'[f]] /\ ui'.inst = inst /\ ~ui'.saving /\ ~ui'.changing
  BY Zenon DEF Personal!Loaded, SettingsFields
<1>3. AreCalls(calls')
  BY <1>1 DEF AreCalls, Personal!Loads
<1>4. ASSUME NEW op \in {"employee", "config", "prefs"}
      PROVE  \E c \in calls' : c.inst = inst /\ c.op = op
  BY <1>1 DEF Personal!Loads, Personal!AtMount
<1> QED
  BY <1>2, <1>3, <1>4 DEF SettingsWait, Personal!NoStuckSetting, Personal!Waiting

LEMMA SettingsWaitStarts == Personal!Init => SettingsWait
<1> SUFFICES ASSUME Personal!Init PROVE SettingsWait
  OBVIOUS
<1>1. ASSUME NEW op, NEW c, c = Personal!Call(None, 0, None, op, None, None)
      PROVE  IsCall(c) /\ c.inst = 0 /\ c.op = op
  BY <1>1 DEF Personal!Call, IsCall, CallFields
<1>2. ui = [f \in SettingsFields |-> ui[f]] /\ ui.inst = 0 /\ ~ui.saving /\ ~ui.changing
  BY Zenon DEF Personal!Init, Personal!Loaded, SettingsFields
<1>3. calls = {Personal!Call(None, 0, None, op, None, None) : op \in {"employee", "config", "prefs"}}
  BY DEF Personal!Init, Personal!Loads, Personal!AtMount
<1>4. AreCalls(calls)
  BY <1>1, <1>3 DEF AreCalls
<1>5. ASSUME NEW op \in {"employee", "config", "prefs"}
      PROVE  \E c \in calls : c.inst = 0 /\ c.op = op
  BY <1>1, <1>3
<1> QED
  BY <1>2, <1>4, <1>5 DEF SettingsWait, Personal!NoStuckSetting, Personal!Waiting

LEMMA SettingsWaitSteps == SettingsWait /\ Personal!Next => SettingsWait'
<1> SUFFICES ASSUME SettingsWait, Personal!Next PROVE SettingsWait'
  OBVIOUS
<1>0. ui = [f \in SettingsFields |-> ui[f]] /\ AreCalls(calls)
  BY DEF SettingsWait
<1> DEFINE Has(ops) == \E g \in calls' : g.inst = ui'.inst /\ g.op \in ops
           Keeps(ops) == (\E e \in calls : e.inst = ui.inst /\ e.op \in ops) => Has(ops)
<1>1. ASSUME ui' = [f \in SettingsFields |-> ui'[f]], AreCalls(calls'),
             ui'.loading => Has({"employee", "config"}) \/ (ui.loading /\ Keeps({"employee", "config"})),
             ui'.prefsLoading => Has({"prefs"}) \/ (ui.prefsLoading /\ Keeps({"prefs"})),
             ui'.saving => Has({"save"}) \/ (ui.saving /\ Keeps({"save"})),
             ui'.changing => Has({"password"}) \/ (ui.changing /\ Keeps({"password"}))
      PROVE  SettingsWait'
  BY <1>1 DEF SettingsWait, Personal!NoStuckSetting, Personal!Waiting
<1>2. ASSUME NEW inst, NEW item, NEW op, NEW value, NEW prev,
             Personal!Start(inst, item, op, value, prev)
      PROVE  /\ AreCalls(calls') /\ \A c \in calls : c \in calls'
             /\ \E c \in calls' : c.inst = inst /\ c.op = op
  BY <1>2, <1>0, OneMore DEF Personal!Start, Personal!Call, Call
<1>3. CASE \E i \in Item : Personal!Connect(i) \/ Personal!Disconnect(i)
  BY <1>3, <1>0, <1>1, <1>2 DEF Personal!Connect, Personal!Disconnect
<1>4. CASE \E p \in Value : Personal!ChangePrefs(p)
  <2>1. PICK p : /\ ui' = [ui EXCEPT !.prefs = p, !.saving = TRUE]
                 /\ Personal!Start(ui.inst, None, "save", p, None)
    BY <1>4, Zenon DEF Personal!ChangePrefs
  <2>2. /\ ui' = [f \in SettingsFields |-> ui'[f]] /\ ui'.inst = ui.inst
        /\ ui'.loading = ui.loading /\ ui'.prefsLoading = ui.prefsLoading
        /\ ui'.changing = ui.changing
    BY <1>0, <2>1, Zenon DEF SettingsFields
  <2> QED
    BY <1>1, <1>2, <2>1, <2>2
<1>5. CASE Personal!ChangePassword
  <2>1. /\ ui' = [ui EXCEPT !.changing = TRUE]
        /\ Personal!Start(ui.inst, None, "password", None, None)
    BY <1>5 DEF Personal!ChangePassword
  <2>2. /\ ui' = [f \in SettingsFields |-> ui'[f]] /\ ui'.inst = ui.inst
        /\ ui'.loading = ui.loading /\ ui'.prefsLoading = ui.prefsLoading
        /\ ui'.saving = ui.saving
    BY <1>0, <2>1, Zenon DEF SettingsFields
  <2> QED
    BY <1>1, <1>2, <2>1, <2>2
<1>6. CASE Personal!TypePassword
  <2>1. /\ ui' = [f \in SettingsFields |-> ui'[f]] /\ ui'.inst = ui.inst
        /\ ui'.loading = ui.loading /\ ui'.prefsLoading = ui.prefsLoading
        /\ ui'.saving = ui.saving /\ ui'.changing = ui.changing /\ calls' = calls
    BY <1>0, <1>6, Zenon DEF Personal!TypePassword, SettingsFields
  <2> QED
    BY <1>0, <1>1, <2>1
\* An answer ends its handler; what waited for it goes on, or the page that
\* asked is gone.
<1>7. ASSUME NEW c \in calls, calls' = calls \ {c},
             ui' = [f \in SettingsFields |-> ui'[f]], ui'.inst = ui.inst,
             ui'.loading => /\ ui.loading
                            /\ c.inst = ui.inst /\ c.op \in {"employee", "config"} =>
                                 \E e \in calls : /\ e.inst = ui.inst /\ e.op # c.op
                                                  /\ e.op \in {"employee", "config"},
             ui'.prefsLoading => ui.prefsLoading /\ (c.inst = ui.inst => c.op # "prefs"),
             ui'.saving => ui.saving /\ (c.inst = ui.inst => c.op # "save"),
             ui'.changing => ui.changing /\ (c.inst = ui.inst => c.op # "password")
      PROVE  SettingsWait'
  <2> USE <1>7
  <2>1. AreCalls(calls') /\ \A e \in calls : e = c \/ e \in calls'
    BY <1>0, Ended
  <2>2. ui'.loading => Has({"employee", "config"}) \/ (ui.loading /\ Keeps({"employee", "config"}))
    BY <2>1
  <2> QED
    BY <1>1, <2>1, <2>2
<1>8. ASSUME NEW c \in calls, Personal!EmployeeAnswered(c)
      PROVE  SettingsWait'
  <2>1. calls' = calls \ {c} /\ c.op \in {"employee", "again"}
    BY <1>8 DEF Personal!EmployeeAnswered, Personal!Ends
  <2>2. /\ ui' = [f \in SettingsFields |-> ui'[f]] /\ ui'.inst = ui.inst
        /\ ui'.prefsLoading = ui.prefsLoading
        /\ ui'.saving = ui.saving /\ ui'.changing = ui.changing
        /\ ui'.loading = IF c.inst = ui.inst
                           THEN ui.loading /\ c.op = "employee" /\ Personal!Waiting(ui.inst, {"config"})
                           ELSE ui.loading
    BY <1>0, <1>8, Zenon DEF Personal!EmployeeAnswered, Personal!Mine, SettingsFields
  <2> QED
    BY <1>7, <2>1, <2>2, Zenon DEF Personal!Waiting
<1>9. ASSUME NEW c \in calls, Personal!ConfigAnswered(c)
      PROVE  SettingsWait'
  <2>1. calls' = calls \ {c} /\ c.op = "config"
    BY <1>9 DEF Personal!ConfigAnswered, Personal!Ends
  <2>2. /\ ui' = [f \in SettingsFields |-> ui'[f]] /\ ui'.inst = ui.inst
        /\ ui'.prefsLoading = ui.prefsLoading
        /\ ui'.saving = ui.saving /\ ui'.changing = ui.changing
        /\ ui'.loading = IF c.inst = ui.inst
                           THEN ui.loading /\ Personal!Waiting(ui.inst, {"employee"})
                           ELSE ui.loading
    BY <1>0, <1>9, Zenon DEF Personal!ConfigAnswered, Personal!Mine, SettingsFields
  <2> QED
    BY <1>7, <2>1, <2>2, Zenon DEF Personal!Waiting
<1>10. ASSUME NEW c \in calls,
              Personal!PrefsAnswered(c) \/ Personal!Saved(c) \/ Personal!PasswordChanged(c)
       PROVE  SettingsWait'
  <2>1. calls' = calls \ {c} /\ c.op \in {"prefs", "save", "password"}
    BY <1>10 DEF Personal!PrefsAnswered, Personal!Saved, Personal!PasswordChanged, Personal!Ends
  <2>2. /\ ui' = [f \in SettingsFields |-> ui'[f]] /\ ui'.inst = ui.inst
        /\ ui'.loading = ui.loading
        /\ ui'.prefsLoading = IF c.inst = ui.inst /\ c.op = "prefs" THEN FALSE ELSE ui.prefsLoading
        /\ ui'.saving = IF c.inst = ui.inst /\ c.op = "save" THEN FALSE ELSE ui.saving
        /\ ui'.changing = IF c.inst = ui.inst /\ c.op = "password" THEN FALSE ELSE ui.changing
    BY <1>0, <1>10, Zenon DEF Personal!PrefsAnswered, Personal!Saved, Personal!PasswordChanged,
       Personal!Mine, SettingsFields
  <2> QED
    BY <1>7, <2>1, <2>2
<1>11. ASSUME NEW c \in calls, Personal!Connected(c)
       PROVE  SettingsWait'
  <2>1. CASE ui' = ui /\ calls' = calls \ {c} /\ c.op = "connect"
    BY <1>0, <1>7, <2>1
  <2>2. ASSUME NEW consents \in BOOLEAN,
               /\ ui' = Personal!Loaded(ui.inst + 1)
               /\ calls' = {d \in calls : d.at = "out" /\ d.op \in {"save", "disconnect", "password"}}
                             \cup Personal!Loads(ui.inst + 1, Personal!AtMount)
                             \cup Personal!Loads(ui.inst + 1, IF consents THEN {"again"} ELSE {})
        PROVE  SettingsWait'
    BY <1>0, <2>2, SettingsLoad
  <2> QED
    BY <1>11, <2>1, <2>2 DEF Personal!Connected, Personal!Ends
<1>12. ASSUME NEW c \in calls, Personal!ConnectFails(c) \/ Personal!Disconnected(c)
       PROVE  SettingsWait'
  BY <1>12, <1>0, <1>1 DEF Personal!ConnectFails, Personal!Disconnected, Personal!Ends,
     Personal!Call, IsCall, CallFields, AreCalls, Personal!Loads
<1>13. ASSUME NEW c \in calls, Personal!Serve(c) \/ Personal!Refuse(c)
       PROVE  SettingsWait'
  <2>1. PICK x, y : calls' = (calls \ {c}) \cup {[c EXCEPT !.at = x, !.answer = y]}
    BY <1>13, Zenon DEF Personal!Serve, Personal!Refuse, Personal!Answered, Personal!Refused,
       Personal!Fault, Personal!Replace
  <2>2. ui' = ui
    BY <1>13 DEF Personal!Serve, Personal!Refuse
  <2>3. AreCalls(calls') /\ \A e \in calls : \E g \in calls' : SameCall(e, g)
    BY <1>0, <2>1, WentOn, Zenon
  <2>4. ASSUME NEW ops
        PROVE  Keeps(ops)
    BY <2>2, <2>3 DEF SameCall
  <2> QED
    BY <1>0, <1>1, <2>2, <2>3, <2>4, Zenon
<1> QED
  BY <1>3, <1>4, <1>5, <1>6, <1>8, <1>9, <1>10, <1>11, <1>12, <1>13 DEF Personal!Next

-----------------------------------------------------------------------------
(* The outcomes                                                            *)

LEMMA IsLoad ==
  ASSUME NEW n, NEW c, c = Funnels!Load(n, Funnels!Parts)
  PROVE  IsCall(c) /\ c.op = "list"
BY DEF Funnels!Load, Funnels!Call, IsCall, CallFields

LEMMA OutcomesWaitStarts == Funnels!Init => OutcomesWait
  BY IsLoad DEF Funnels!Init, OutcomesFields, OutcomesWait, AreCalls, Adding

LEMMA OutcomesWaitSteps == OutcomesWait /\ Funnels!Next => OutcomesWait'
<1> SUFFICES ASSUME OutcomesWait, Funnels!Next PROVE OutcomesWait'
  OBVIOUS
<1>0. /\ ui = [f \in OutcomesFields |-> ui[f]] /\ AreCalls(calls)
      /\ Adding("quick", ui.quickAdding, calls) /\ Adding("bulk", ui.adding, calls)
  BY DEF OutcomesWait
<1> DEFINE Adds == {"quick", "bulk"}
\* What is not about attendees being added.
<1>1. ASSUME ui' = [f \in OutcomesFields |-> ui'[f]], AreCalls(calls'),
             ui'.adding = ui.adding, ui'.quickAdding = ui.quickAdding,
             \A c \in calls' : c \in calls \/ c.op \notin Adds,
             \A c \in calls : c \in calls' \/ c.op \notin Adds
      PROVE  OutcomesWait'
  BY <1>0, <1>1 DEF OutcomesWait, Adding
\* A call that goes on.
<1>2. ASSUME ui' = ui, NEW c \in calls, NEW d, IsCall(d), SameCall(c, d),
             c.op \in Adds => d.at # "warn",
             calls' = (calls \ {c}) \cup {d}
      PROVE  OutcomesWait'
  BY <1>0, <1>2 DEF AreCalls, Adding, SameCall, OutcomesWait
<1>3. ASSUME NEW op, NEW item, NEW value, NEW prev, Funnels!Start(0, item, op, value, prev)
      PROVE  \E d : IsCall(d) /\ d.op = op /\ d.at = "out" /\ calls' = calls \cup {d}
  <2>1. PICK d : d = Call(made, 0, item, op, value, prev)
    OBVIOUS
  <2>2. IsCall(d) /\ d.op = op /\ d.at = "out"
    BY <2>1, NewCall
  <2>3. calls' = calls \cup {d}
    BY <1>3, <2>1 DEF Funnels!Start, Funnels!Call, Call
  <2> QED
    BY <2>2, <2>3
<1>4. ASSUME NEW u, Funnels!Edits(u), u = [f \in OutcomesFields |-> u[f]],
             u.adding = ui.adding, u.quickAdding = ui.quickAdding
      PROVE  OutcomesWait'
  BY <1>0, <1>1, <1>4 DEF Funnels!Edits
<1>5. CASE \/ Funnels!ToggleQuick \/ Funnels!OpenBulk \/ Funnels!Preview
           \/ Funnels!BackToText \/ Funnels!CloseBulk
  BY <1>5, <1>0, <1>4 DEF Funnels!ToggleQuick, Funnels!OpenBulk, Funnels!Preview,
     Funnels!BackToText, Funnels!CloseBulk, OutcomesFields
<1>6. CASE Funnels!CancelWarning
  BY <1>0, <1>6, <1>1 DEF Funnels!CancelWarning, OutcomesFields
<1>7. CASE Funnels!Confirm \/ \E i \in Item, s \in Funnels!Statuses : Funnels!Change(i, s)
  BY <1>7, <1>3, <1>0, <1>1 DEF Funnels!Confirm, Funnels!Change, AreCalls
\* A button starts its call, and is disabled by then.
<1>8. CASE Funnels!QuickAdd
  <2>1. /\ ~ui.quickAdding /\ ui' = [ui EXCEPT !.quickAdding = TRUE]
        /\ Funnels!Start(0, None, "quick", None, None)
    BY <1>8 DEF Funnels!QuickAdd
  <2> USE <2>1
  <2>2. PICK d : IsCall(d) /\ d.op = "quick" /\ d.at = "out" /\ calls' = calls \cup {d}
    BY <1>3
  <2>3. ui' = [f \in OutcomesFields |-> ui'[f]] /\ ui'.quickAdding /\ ui'.adding = ui.adding
    BY <1>0, Zenon DEF OutcomesFields
  <2>4. AreCalls(calls')
    BY <1>0, <2>2 DEF AreCalls
  <2>5. Adding("quick", ui'.quickAdding, calls') /\ Adding("bulk", ui'.adding, calls')
    BY <1>0, <2>2, <2>3 DEF Adding
  <2> QED
    BY <2>3, <2>4, <2>5, Zenon DEF OutcomesWait
<1>9. CASE Funnels!BulkAdd
  <2>1. /\ ~ui.adding /\ ui' = [ui EXCEPT !.adding = TRUE]
        /\ Funnels!Start(0, None, "bulk", None, None)
    BY <1>9 DEF Funnels!BulkAdd
  <2> USE <2>1
  <2>2. PICK d : IsCall(d) /\ d.op = "bulk" /\ d.at = "out" /\ calls' = calls \cup {d}
    BY <1>3
  <2>3. ui' = [f \in OutcomesFields |-> ui'[f]] /\ ui'.adding /\ ui'.quickAdding = ui.quickAdding
    BY <1>0, Zenon DEF OutcomesFields
  <2>4. AreCalls(calls')
    BY <1>0, <2>2 DEF AreCalls
  <2>5. Adding("quick", ui'.quickAdding, calls') /\ Adding("bulk", ui'.adding, calls')
    BY <1>0, <2>2, <2>3 DEF Adding
  <2> QED
    BY <2>3, <2>4, <2>5, Zenon DEF OutcomesWait
\* The answer ends the call.  Loads follow it.
<1>10. ASSUME NEW c, \/ calls' = calls \ {c}
                     \/ \E n : Funnels!EndsAndLoads(c, n, Funnels!Parts)
       PROVE  /\ AreCalls(calls')
              /\ \A e \in calls' : (e \in calls /\ e # c) \/ e.op = "list"
              /\ \A e \in calls : e = c \/ e \in calls'
  BY <1>10, IsLoad, <1>0 DEF Funnels!EndsAndLoads, AreCalls
<1>11. ASSUME NEW c \in calls,
              \/ Funnels!Warned(c) \/ Funnels!Changed(c) \/ Funnels!ChangeFails(c)
              \/ Funnels!Arrives(c) \/ Funnels!LoadFails(c),
              c.op \notin Adds
       PROVE  OutcomesWait'
  <2> USE <1>11
  <2>1. \/ calls' = calls \ {c}
        \/ \E n : Funnels!EndsAndLoads(c, n, Funnels!Parts)
    BY DEF Funnels!Warned, Funnels!Changed, Funnels!ChangeFails, Funnels!Arrives,
       Funnels!Loaded, Funnels!LoadFails, Funnels!Ends
  <2>2. ui' = [f \in OutcomesFields |-> ui'[f]] /\ ui'.adding = ui.adding
        /\ ui'.quickAdding = ui.quickAdding
    <3>1. CASE Funnels!Warned(c) \/ Funnels!Arrives(c) \/ Funnels!LoadFails(c)
      BY <1>0, <3>1, Zenon DEF Funnels!Warned, Funnels!Arrives, Funnels!Loaded, Funnels!LoadFails,
         OutcomesFields
    <3>2. CASE Funnels!Changed(c) \/ Funnels!ChangeFails(c)
      BY <1>0, <3>2, Zenon DEF Funnels!Changed, Funnels!ChangeFails, OutcomesFields
    <3> QED
      BY <3>1, <3>2
  <2> QED
    BY <1>1, <1>10, <2>1, <2>2
<1>12. ASSUME NEW c \in calls, Funnels!Added(c) \/ Funnels!AddFails(c)
       PROVE  OutcomesWait'
  <2>1. \/ calls' = calls \ {c}
        \/ \E n : Funnels!EndsAndLoads(c, n, Funnels!Parts)
    BY <1>12 DEF Funnels!Added, Funnels!AddFails, Funnels!Ends
  <2>2. /\ ui' = [f \in OutcomesFields |-> ui'[f]]
        /\ \/ c.op = "quick" /\ ~ui'.quickAdding /\ ui'.adding = ui.adding
           \/ c.op = "bulk" /\ ~ui'.adding /\ ui'.quickAdding = ui.quickAdding
    BY <1>0, <1>12, Zenon DEF Funnels!Added, Funnels!AddFails, OutcomesFields
  <2>3. /\ AreCalls(calls')
        /\ \A e \in calls' : (e \in calls /\ e # c) \/ e.op = "list"
        /\ \A e \in calls : e = c \/ e \in calls'
    BY <1>10, <2>1
  <2>4. Adding("quick", ui'.quickAdding, calls') /\ Adding("bulk", ui'.adding, calls')
    BY <1>0, <2>2, <2>3 DEF Adding
  <2> QED
    BY <2>2, <2>3, <2>4 DEF OutcomesWait
<1>13. ASSUME NEW c \in calls,
              Funnels!Serve(c) \/ Funnels!WriteStatus(c) \/ Funnels!Refuse(c)
       PROVE  OutcomesWait'
  <2>1. ui' = ui /\ IsCall(c)
    BY <1>0, <1>13 DEF Funnels!Serve, Funnels!WriteStatus, Funnels!Refuse, AreCalls
  <2>2. PICK x, y : /\ \/ Funnels!Replace(c, [c EXCEPT !.at = x, !.answer = y])
                       \/ Funnels!Replace(c, [c EXCEPT !.answer = y, !.at = x])
                       \/ Funnels!Replace(c, [c EXCEPT !.at = x])
                    /\ c.op \in Adds => x # "warn"
    <3>0. "ok" # "warn" /\ "no" # "warn"
      OBVIOUS
    <3>1. CASE Funnels!WriteStatus(c) \/ Funnels!Refuse(c)
      <4>1. \/ Funnels!Replace(c, [c EXCEPT !.at = "ok", !.answer = None])
            \/ Funnels!Replace(c, [c EXCEPT !.at = "no", !.answer = None])
        BY <3>1 DEF Funnels!WriteStatus, Funnels!Refuse, Funnels!Answered, Funnels!Refused,
           Funnels!Fault
      <4> QED
        BY <3>0, <4>1, Zenon
    <3>2. CASE Funnels!ServeLoad(c)
      BY <3>2, Zenon DEF Funnels!ServeLoad, Funnels!ReadPart
    <3>3. CASE Funnels!ReadStatus(c)
      BY <3>3, Zenon DEF Funnels!ReadStatus
    <3>4. CASE Funnels!Insert(c)
      <4>1. Funnels!Replace(c, [c EXCEPT !.at = "ok", !.answer = None])
        BY <3>4 DEF Funnels!Insert, Funnels!Answered
      <4> QED
        BY <3>0, <4>1, Zenon
    <3> QED
      BY <1>13, <3>1, <3>2, <3>3, <3>4, Zenon DEF Funnels!Serve
  <2>3. PICK d : /\ Funnels!Replace(c, d)
                 /\ \/ d = [c EXCEPT !.at = x, !.answer = y]
                    \/ d = [c EXCEPT !.answer = y, !.at = x]
                    \/ d = [c EXCEPT !.at = x]
    BY <2>2
  <2> USE <2>3
  <2>4. IsCall(d) /\ SameCall(c, d)
    BY <2>1, Zenon DEF IsCall, CallFields, SameCall
  <2>5. calls' = (calls \ {c}) \cup {d}
    BY DEF Funnels!Replace
  <2>6. c.op \in Adds => d.at # "warn"
    <3>1. CASE c.op \in Adds /\ x # "warn"
      BY <2>1, <3>1, Zenon DEF IsCall, CallFields
    <3> QED
      BY <2>2, <3>1
  <2> QED
    BY <1>2, <2>1, <2>4, <2>5, <2>6
<1>14. ASSUME NEW c \in calls, Funnels!Warned(c)
       PROVE  c.op \notin Adds
  BY <1>0, <1>14 DEF Funnels!Warned, Adding
<1>15. CASE Funnels!User
  BY <1>5, <1>6, <1>7, <1>8, <1>9, <1>15 DEF Funnels!User
<1>16. ASSUME NEW c \in calls, Funnels!Changed(c) \/ Funnels!ChangeFails(c)
              \/ Funnels!Arrives(c) \/ Funnels!LoadFails(c)
       PROVE  c.op \notin Adds
  BY <1>16 DEF Funnels!Changed, Funnels!ChangeFails, Funnels!Arrives, Funnels!Loaded,
     Funnels!LoadFails
<1> QED
  BY <1>11, <1>12, <1>13, <1>14, <1>15, <1>16 DEF Funnels!Next

-----------------------------------------------------------------------------
(* The conversations                                                       *)

LEMMA IsAsk ==
  ASSUME NEW p
  PROVE  IsCall(Threads!Ask(p)) /\ Threads!Ask(p).op = "list"
BY DEF Threads!Ask, Threads!Fetch, Threads!Call, IsCall, CallFields

\* What is rendered anew is not sending.
LEMMA ThreadsRender ==
  ASSUME NEW u, u = [f \in ThreadsFields |-> u[f]], Threads!Renders(u), AreCalls(calls'),
         u.sending => Handled(calls', u.inst)
  PROVE  ThreadsWait'
<1>1. CASE ui' = u
  BY <1>1 DEF ThreadsWait
<1>2. CASE ui' = [u EXCEPT !.draft = None, !.sending = FALSE, !.delivery = None, !.inst = made]
  <2>1. ui' = [f \in ThreadsFields |-> ui'[f]] /\ ~ui'.sending
    BY <1>2, Zenon DEF ThreadsFields
  <2> QED
    BY <2>1 DEF ThreadsWait
<1> QED
  BY <1>1, <1>2 DEF Threads!Renders

\* A fetch that is overtaken is still awaited.
LEMMA ThreadsRefetch ==
  ASSUME NEW S, AreCalls(S), NEW p, NEW f, IsCall(f), calls' = Threads!Refetching(p, S, f)
  PROVE  /\ AreCalls(calls') /\ f \in calls'
         /\ \A inst : Handled(S, inst) => Handled(calls', inst)
<1>1. /\ \A e \in calls' : e = f \/ e \in S \/ \E c \in S : e = Late(c)
      /\ f \in calls'
      /\ \A c \in S : \/ c \in calls'
                      \/ c.op = "list"
                      \/ c.op = "refresh" /\ Late(c) \in calls'
  BY Zenon DEF Threads!Refetching, Threads!Fetches, Late
<1>2. ASSUME NEW c \in S
      PROVE  IsCall(Late(c)) /\ Late(c).inst = c.inst /\ Late(c).op = c.op
  BY Zenon DEF AreCalls, IsCall, CallFields, Late
<1>3. AreCalls(calls')
  BY <1>1, <1>2 DEF AreCalls
<1>4. ASSUME NEW inst, Handled(S, inst)
      PROVE  Handled(calls', inst)
  BY <1>4, <1>2, <1>1 DEF Handled
<1> QED
  BY <1>1, <1>3, <1>4

LEMMA ThreadsWaitStarts == Threads!Init => ThreadsWait
<1> SUFFICES ASSUME Threads!Init PROVE ThreadsWait
  OBVIOUS
<1>1. ui = [f \in ThreadsFields |-> ui[f]] /\ ~ui.sending
  <2>1. PICK p, x, y : ui = [active |-> p, cache |-> x, failed |-> y, inst |-> 0,
                             draft |-> None, sending |-> FALSE, delivery |-> None]
    BY Zenon DEF Threads!Init
  <2> QED
    BY <2>1 DEF ThreadsFields
<1>2. AreCalls(calls)
  BY IsAsk DEF Threads!Init, AreCalls
<1> QED
  BY <1>1, <1>2 DEF ThreadsWait

LEMMA ThreadsWaitSteps == ThreadsWait /\ Threads!Next => ThreadsWait'
<1> SUFFICES ASSUME ThreadsWait, Threads!Next PROVE ThreadsWait'
  OBVIOUS
<1>0. /\ ui = [f \in ThreadsFields |-> ui[f]] /\ AreCalls(calls)
      /\ ui.sending => Handled(calls, ui.inst)
  BY DEF ThreadsWait
<1>1. ASSUME NEW p \in Item, Threads!Choose(p)
      PROVE  ThreadsWait'
  BY <1>1, <1>0, IsAsk, ThreadsRender DEF Threads!Choose, ThreadsFields, AreCalls, Handled
<1>2. CASE Threads!Retry
  BY <1>2, <1>0, IsAsk, ThreadsRefetch DEF Threads!Retry, ThreadsWait
<1>3. CASE Threads!Write
  BY <1>0, <1>3 DEF Threads!Write, ThreadsFields, ThreadsWait
<1>4. CASE Threads!Send
  <2>1. ui' = [f \in ThreadsFields |-> ui'[f]] /\ ui'.inst = ui.inst
    BY <1>0, <1>4, Zenon DEF Threads!Send, ThreadsFields
  <2>2. calls' = calls \cup {Call(made, ui.inst, ui.active, "send", ui.draft, None)}
    BY <1>4 DEF Threads!Send, Threads!Start, Threads!Call, Call
  <2>3. AreCalls(calls') /\ \E c \in calls' : c.inst = ui.inst /\ c.op = "send"
    BY <1>0, <2>2, OneMore
  <2> QED
    BY <2>1, <2>3 DEF ThreadsWait, Handled
<1>5. ASSUME NEW c \in calls, Threads!Sent(c)
      PROVE  ThreadsWait'
  <2>1. PICK f : f = Call(c.id, c.inst, ui.active, "refresh", "latest", None)
    OBVIOUS
  <2>2. IsCall(f) /\ f.inst = c.inst /\ f.op = "refresh"
    BY <2>1, NewCall
  <2>3. calls' = Threads!Refetching(ui.active, calls \ {c}, f)
    BY <1>5, <2>1 DEF Threads!Sent, Threads!Call, Call
  <2>4. AreCalls(calls \ {c})
    BY <1>0 DEF AreCalls
  <2>5. /\ AreCalls(calls') /\ f \in calls'
        /\ \A inst : Handled(calls \ {c}, inst) => Handled(calls', inst)
    BY <2>2, <2>3, <2>4, ThreadsRefetch
  <2>6. ui' = [f1 \in ThreadsFields |-> ui'[f1]] /\ ui'.sending = ui.sending /\ ui'.inst = ui.inst
    BY <1>0, <1>5, Zenon DEF Threads!Sent, ThreadsFields
  <2>7. ASSUME NEW inst, Handled(calls, inst)
        PROVE  Handled(calls', inst)
    BY <2>2, <2>5, <2>7 DEF Handled
  <2> QED
    BY <1>0, <2>5, <2>6, <2>7 DEF ThreadsWait
<1>6. ASSUME NEW c \in calls, Threads!SendFails(c)
      PROVE  ThreadsWait'
  <2>1. calls' = calls \ {c}
    BY <1>6 DEF Threads!SendFails, Threads!Ends
  <2>2. /\ ui' = [f \in ThreadsFields |-> ui'[f]] /\ ui'.inst = ui.inst
        /\ ui'.sending = IF c.inst = ui.inst THEN FALSE ELSE ui.sending
    BY <1>0, <1>6, Zenon DEF Threads!SendFails, ThreadsFields
  <2>3. AreCalls(calls') /\ \A e \in calls : e = c \/ e \in calls'
    BY <1>0, <2>1, Ended
  <2> QED
    BY <1>0, <2>2, <2>3 DEF ThreadsWait, Handled
\* A fetch that ends lets the handler go that awaits it.
<1>7. ASSUME NEW c \in calls, c.op \in {"list", "refresh"}, calls' = calls \ {c},
             NEW v, v = [f \in ThreadsFields |-> v[f]], v.sending = ui.sending, v.inst = ui.inst,
             Threads!Renders(Threads!Over(c, v))
      PROVE  ThreadsWait'
  <2> USE <1>7
  <2>1. PICK u : u = Threads!Over(c, v)
    OBVIOUS
  <2>2. /\ u = [f \in ThreadsFields |-> u[f]] /\ u.inst = ui.inst
        /\ u.sending = IF c.op = "refresh" /\ c.inst = ui.inst THEN FALSE ELSE ui.sending
    BY <2>1, Zenon DEF Threads!Over, ThreadsFields
  <2>3. AreCalls(calls') /\ \A e \in calls : e = c \/ e \in calls'
    BY <1>0, Ended
  <2>4. u.sending => Handled(calls', u.inst)
    BY <1>0, <2>2, <2>3, Zenon DEF Handled
  <2> QED
    BY <2>1, <2>2, <2>3, <2>4, ThreadsRender
<1>8. ASSUME NEW c \in calls, Threads!Arrives(c) \/ Threads!FetchFails(c)
      PROVE  ThreadsWait'
  <2>1. c.op \in {"list", "refresh"} /\ calls' = calls \ {c}
    BY <1>8 DEF Threads!Arrives, Threads!FetchFails, Threads!Ends, Threads!Fetches
  <2>2. PICK v : /\ Threads!Renders(Threads!Over(c, v))
                 /\ \/ v = ui
                    \/ v = [ui EXCEPT !.cache[c.item] = c.answer, !.failed[c.item] = FALSE]
                    \/ v = [ui EXCEPT !.failed[c.item] = TRUE]
    BY <1>8 DEF Threads!Arrives, Threads!FetchFails
  <2>3. v = [f \in ThreadsFields |-> v[f]] /\ v.sending = ui.sending /\ v.inst = ui.inst
    BY <1>0, <2>2, Zenon DEF ThreadsFields
  <2> QED
    BY <1>7, <2>1, <2>2, <2>3
<1>9. ASSUME NEW c \in calls, Threads!Serve(c) \/ Threads!Refuse(c)
      PROVE  ThreadsWait'
  <2>1. PICK x, y : calls' = (calls \ {c}) \cup {[c EXCEPT !.at = x, !.answer = y]}
    BY <1>9, Zenon DEF Threads!Serve, Threads!Refuse, Threads!Answered, Threads!Refused,
       Threads!Fault, Threads!Replace
  <2>2. ui' = ui
    BY <1>9 DEF Threads!Serve, Threads!Refuse
  <2>3. AreCalls(calls') /\ \A e \in calls : \E g \in calls' : SameCall(e, g)
    BY <1>0, <2>1, WentOn, Zenon
  <2>4. \A inst : Handled(calls, inst) => Handled(calls', inst)
    BY <2>3 DEF SameCall, Handled
  <2> QED
    BY <1>0, <2>2, <2>3, <2>4 DEF ThreadsWait
<1> QED
  BY <1>1, <1>2, <1>3, <1>4, <1>5, <1>6, <1>8, <1>9 DEF Threads!Next, Threads!User

-----------------------------------------------------------------------------
(* All pages                                                               *)

LEMMA StuckStarts == Init => StuckInv
  BY StartsOn, TaskPageWaits, BoardWaitsStarts, ProjectsWaitsStarts, RecordsWaitsStarts,
     UsersWaitStarts, HooksWaitStarts, ReportsWaitStarts, FormWaitsStarts, WizardWaitsStarts,
     SessionWaitsStarts, ImportWaitsStarts, InboxWaitsStarts, SettingsWaitStarts,
     OutcomesWaitStarts, ThreadsWaitStarts DEF StuckInv

LEMMA StuckStays == StuckInv /\ UNCHANGED vars => StuckInv'
<1> SUFFICES ASSUME StuckInv, UNCHANGED vars PROVE StuckInv'
  OBVIOUS
<1>0. UNCHANGED <<page, ui, calls, server, made>>
  BY DEF vars
<1> USE <1>0
<1> USE DEF AreCalls, IsCall
<1>1. (TaskWaits => TaskWaits') /\ (BoardWaits => BoardWaits')
  BY DEF TaskWaits, SpinsFor, LoadsFor, TaskPage!Staff, BoardWaits, Barring
<1>2. ProjectsWaits => ProjectsWaits'
  BY DEF ProjectsWaits, PlainInv, Ungated, Projects!Staff, Projects!NoStuckTask
<1>3. (RecordsWaits => RecordsWaits') /\ (UsersWait => UsersWait') /\ (HooksWait => HooksWait')
  BY DEF RecordsWaits, Lookups!NoStuckForm, UsersWait, Accounts!NoStuckButton,
     Accounts!Waiting, HooksWait, Hooks!NoStuckWebhook, Hooks!Rotating
<1>4. (ReportsWait => ReportsWait') /\ (FormWaits => FormWaits')
  BY DEF ReportsWait, Numbers!NoStuckReport, FormWaits, Form!NoStuckForm, Form!Waiting
<1>5. WizardWaits => WizardWaits'
  BY DEF WizardWaits, WizardInv, Wizard!SendsWholeRule, Wizard!Sound, Wizard!NoStuckQuick
<1>6. SessionWaits => SessionWaits'
  BY DEF SessionWaits, Browser!NoStuckCall, Browser!Refreshing, Browser!Waiting
<1>7. (ImportWaits => ImportWaits') /\ (InboxWaits => InboxWaits')
  BY DEF ImportWaits, Csv!ImportsOnce, Csv!Waiting, InboxWaits, Bell!NoStuckBell, Bell!Polls
<1>8. (SettingsWait => SettingsWait') /\ (OutcomesWait => OutcomesWait') /\ (ThreadsWait => ThreadsWait')
  BY DEF SettingsWait, Personal!NoStuckSetting, Personal!Waiting, OutcomesWait, Adding,
     ThreadsWait, Handled
<1> QED
  BY <1>1, <1>2, <1>3, <1>4, <1>5, <1>6, <1>7, <1>8 DEF StuckInv

LEMMA StuckSteps == StuckInv /\ [Next]_vars => StuckInv'
<1> SUFFICES ASSUME StuckInv, [Next]_vars PROVE StuckInv'
  OBVIOUS
<1>1. CASE UNCHANGED vars
  BY <1>1, StuckStays
<1>2. CASE page' = page /\ ~UNCHANGED vars
  <2> USE <1>2
  <2>1. page \in TaskPages => TaskWaits'
    BY StaysOn, TaskPageWaits DEF StuckInv
  <2>2. page = "board" => BoardWaits'
    BY StaysOn, BoardWaitsSteps DEF StuckInv
  <2>3. page \in Boards => ProjectsWaits'
    BY StaysOn, ProjectsWaitsSteps DEF StuckInv
  <2>4. page \in Managers => RecordsWaits'
    BY StaysOn, RecordsWaitsSteps DEF StuckInv
  <2>5. page = "users" => UsersWait'
    BY StaysOn, UsersWaitSteps DEF StuckInv
  <2>6. page = "webhooks" => HooksWait'
    BY StaysOn, HooksWaitSteps DEF StuckInv
  <2>7. page \in Figures => ReportsWait'
    BY StaysOn, ReportsWaitSteps DEF StuckInv
  <2>8. page = "form" => FormWaits'
    BY StaysOn, FormWaitsSteps DEF StuckInv
  <2>9. page = "wizard" => WizardWaits'
    BY StaysOn, WizardWaitsSteps DEF StuckInv
  <2>10. page = "session" => SessionWaits'
    BY StaysOn, SessionWaitsSteps DEF StuckInv
  <2>11. page = "import" => ImportWaits'
    BY StaysOn, ImportWaitsSteps DEF StuckInv
  <2>12. page \in Bells => InboxWaits'
    BY StaysOn, InboxWaitsSteps DEF StuckInv
  <2>13. page = "settings" => SettingsWait'
    BY StaysOn, SettingsWaitSteps DEF StuckInv
  <2>14. page = "outcomes" => OutcomesWait'
    BY StaysOn, OutcomesWaitSteps DEF StuckInv
  <2>15. page = "messages" => ThreadsWait'
    BY StaysOn, ThreadsWaitSteps DEF StuckInv
  <2> QED
    BY <2>1, <2>2, <2>3, <2>4, <2>5, <2>6, <2>7, <2>8, <2>9, <2>10, <2>11, <2>12, <2>13, <2>14, <2>15 DEF StuckInv
<1> QED
  BY <1>1, <1>2, StaysOn

\* On every page, whatever overlaps, fails, comes late or never: a spinner that
\* turns, a control that is disabled and a request that waits for a refreshed
\* session wait for an answer that is still to come, and rows that one click
\* adds or imports are sent once.
THEOREM NothingIsStuck == Spec => []NoStuckControl
<1>1. StuckInv => NoStuckControl
  <2> SUFFICES ASSUME StuckInv PROVE NoStuckControl
    OBVIOUS
  <2>1. page \in TaskPages => TaskPage!NoStuckSpinner
    BY TaskPageWaits DEF StuckInv
  <2>2. page = "board" => Board!NoStuckBar
    BY DEF StuckInv, BoardWaits, Barring, Board!NoStuckBar
  <2>3. page \in Boards => Projects!NoStuckTask
    BY DEF StuckInv, ProjectsWaits
  <2>4. page \in Managers => Lookups!NoStuckForm
    BY DEF StuckInv, RecordsWaits
  <2>5. page = "users" => Accounts!NoStuckButton
    BY DEF StuckInv, UsersWait
  <2>6. page = "webhooks" => Hooks!NoStuckWebhook
    BY DEF StuckInv, HooksWait
  <2>7. page \in Figures => Numbers!NoStuckReport
    BY DEF StuckInv, ReportsWait
  <2>8. page = "form" => Form!NoStuckForm
    BY DEF StuckInv, FormWaits
  <2>9. page = "wizard" => Wizard!NoStuckQuick
    BY DEF StuckInv, WizardWaits
  <2>10. page = "session" => Browser!NoStuckCall
    BY DEF StuckInv, SessionWaits
  <2>11. page = "import" => Csv!ImportsOnce
    BY DEF StuckInv, ImportWaits
  <2>12. page \in Bells => Bell!NoStuckBell
    BY DEF StuckInv, InboxWaits
  <2>13. page = "settings" => Personal!NoStuckSetting
    BY DEF StuckInv, SettingsWait
  <2>14. page = "outcomes" => Funnels!AddsOnce
    BY DEF StuckInv, OutcomesWait, Adding, Funnels!AddsOnce
  <2>15. page = "messages" => Threads!NoStuckThread
    BY DEF StuckInv, ThreadsWait, Handled, Threads!NoStuckThread
  <2> QED
    BY <2>1, <2>2, <2>3, <2>4, <2>5, <2>6, <2>7, <2>8, <2>9, <2>10, <2>11, <2>12, <2>13, <2>14,
       <2>15 DEF NoStuckControl
<1> QED
  BY <1>1, StuckStarts, StuckSteps, PTL DEF Spec

-----------------------------------------------------------------------------
(* What is shown belongs to what it is shown for: the task dialogs         *)

LEMMA TaskShowsUser == TaskShows /\ TaskPage!User => TaskShows'
<1> SUFFICES ASSUME TaskShows, TaskPage!User PROVE TaskShows'
  OBVIOUS
<1>0. AreCalls(calls) /\ made \in Nat /\ \A c \in calls : c.inst \in Nat /\ c.inst < made
  BY DEF TaskShows
<1>1. ASSUME NEW inst, NEW item, NEW op, NEW value, NEW prev,
             TaskPage!Start(inst, item, op, value, prev)
      PROVE  /\ AreCalls(calls') /\ made' = made + 1
             /\ \A c \in calls' : c \in calls \/ (c.inst = inst /\ c.item = item /\ c.op = op)
  BY <1>1, <1>0, OneMore DEF TaskPage!Start, TaskPage!Call, Call, TaskPage!Counts
<1>2. ASSUME NEW t \in Item, TaskPage!OpenTask(t)
      PROVE  TaskShows'
  BY <1>2, <1>1, <1>0 DEF TaskPage!OpenTask, TaskFields, TaskShows, ShowsFor
<1>3. CASE TaskPage!Close
  BY <1>0, <1>3 DEF TaskPage!Close, TaskShows
\* A handler starts or the user types, in the dialog that is open.
<1>4. ASSUME ui # None, ui' = [f \in TaskFields |-> ui'[f]],
             ui'.inst = ui.inst, ui'.task = ui.task, ui'.id = ui.id,
             ui.view # None \/ ui'.view = ui.view,
             \/ calls' = calls /\ made' = made
             \/ \E op, value, prev :
                  /\ TaskPage!Start(ui'.inst, ui'.task, op, value, prev)
                  /\ ui.view # None \/ op = "load"
      PROVE  TaskShows'
  BY <1>4, <1>0, <1>1 DEF TaskShows, ShowsFor
<1>5. ASSUME ui # None
      PROVE  ui = [f \in TaskFields |-> ui[f]]
  BY <1>5 DEF TaskShows, ShowsFor
<1>6. ASSUME ui # None,
             \/ ui' = ui
             \/ \E x : ui' = [ui EXCEPT !.loading = x]
             \/ \E x : ui' = [ui EXCEPT !.text = x]
             \/ \E x : ui' = [ui EXCEPT !.owner = x]
             \/ \E x : ui' = [ui EXCEPT !.draft = x]
             \/ \E x : ui' = [ui EXCEPT !.sending = x]
             \/ \E x : ui' = [ui EXCEPT !.uploading = x]
             \/ ui.view # None /\ \E x : ui' = [ui EXCEPT !.view = x]
             \/ ui.view # None /\ \E x, y : ui' = [ui EXCEPT !.view = x, !.busy = y]
      PROVE  /\ ui' = [f \in TaskFields |-> ui'[f]]
             /\ ui'.inst = ui.inst /\ ui'.task = ui.task /\ ui'.id = ui.id
             /\ ui.view # None \/ ui'.view = ui.view
  BY <1>5, <1>6, Zenon DEF TaskFields
<1>7. CASE TaskPage!Retry
  <2>1. ui # None /\ ui' = [ui EXCEPT !.loading = TRUE]
        /\ TaskPage!Start(ui'.inst, ui'.task, "load", None, None)
    BY <1>7 DEF TaskPage!Retry, TaskPage!Ask, TaskPage!Open
  <2>2. /\ ui' = [f \in TaskFields |-> ui'[f]]
        /\ ui'.inst = ui.inst /\ ui'.task = ui.task /\ ui'.id = ui.id
        /\ ui.view # None \/ ui'.view = ui.view
    BY <1>6, <2>1, Zenon
  <2> QED
    BY <1>4, <2>1, <2>2
<1>8. CASE TaskPage!BlurText \/ TaskPage!Detach \/ TaskPage!Delete
  BY <1>8, <1>4, <1>5 DEF TaskPage!BlurText, TaskPage!Detach, TaskPage!Delete, TaskPage!Ask,
     TaskPage!Open, TaskPage!Shown
<1>9. CASE \/ TaskPage!ToggleFlag \/ TaskPage!Send \/ TaskPage!Upload
           \/ \E o \in TaskPage!Owner : TaskPage!PickOwner(o)
           \/ \E s \in Status : TaskPage!PickStatus(s)
  <2>1. /\ ui # None /\ ui.view # None
        /\ \E op, value, prev : TaskPage!Start(ui'.inst, ui'.task, op, value, prev)
    BY <1>9, Zenon DEF TaskPage!ToggleFlag, TaskPage!Send, TaskPage!Upload, TaskPage!PickOwner,
       TaskPage!PickStatus, TaskPage!Ask, TaskPage!Open, TaskPage!Shown
  <2> USE <2>1
  <2>2. \/ \E x : ui' = [ui EXCEPT !.owner = x]
        \/ \E x : ui' = [ui EXCEPT !.sending = x]
        \/ \E x : ui' = [ui EXCEPT !.uploading = x]
        \/ \E x : ui' = [ui EXCEPT !.view = x]
        \/ \E x, y : ui' = [ui EXCEPT !.view = x, !.busy = y]
    <3>1. CASE TaskPage!ToggleFlag
      BY <1>5, <3>1, Zenon DEF TaskPage!ToggleFlag, TaskFields
    <3>2. CASE \E s \in Status : TaskPage!PickStatus(s)
      BY <1>5, <3>2, Zenon DEF TaskPage!PickStatus, TaskFields
    <3>3. CASE TaskPage!Send \/ TaskPage!Upload \/ \E o \in TaskPage!Owner : TaskPage!PickOwner(o)
      BY <3>3, Zenon DEF TaskPage!Send, TaskPage!Upload, TaskPage!PickOwner
    <3> QED
      BY <1>9, <3>1, <3>2, <3>3, Zenon
  <2>3. /\ ui' = [f \in TaskFields |-> ui'[f]]
        /\ ui'.inst = ui.inst /\ ui'.task = ui.task /\ ui'.id = ui.id
    BY <1>6, <2>2, Zenon
  <2> QED
    BY <1>4, <2>3
<1>10. CASE \/ \E x \in Value : TaskPage!TypeText(x)
            \/ \E b \in BOOLEAN : \E kept \in SUBSET Single : TaskPage!TypeBody(b, kept)
            \/ \E m \in Single : TaskPage!AcceptMember(m)
  <2>1. /\ ui # None /\ calls' = calls /\ made' = made
        /\ \/ \E x : ui' = [ui EXCEPT !.text = x]
           \/ \E x : ui' = [ui EXCEPT !.draft = x]
    BY <1>5, <1>10 DEF TaskPage!TypeText, TaskPage!TypeBody, TaskPage!AcceptMember,
                TaskPage!Open, TaskPage!Shown, TaskFields
  <2>2. /\ ui' = [f \in TaskFields |-> ui'[f]]
        /\ ui'.inst = ui.inst /\ ui'.task = ui.task /\ ui'.id = ui.id
        /\ ui.view # None \/ ui'.view = ui.view
    BY <1>6, <2>1, Zenon
  <2> QED
    BY <1>4, <2>1, <2>2
<1> QED
  BY <1>2, <1>3, <1>7, <1>8, <1>9, <1>10 DEF TaskPage!User

LEMMA CallsGoOn ==
  ASSUME AreCalls(calls), NEW c \in calls, NEW x, NEW y,
         \/ calls' = calls
         \/ calls' = calls \ {c}
         \/ calls' = (calls \ {c}) \cup {[c EXCEPT !.at = x, !.answer = y]}
         \/ calls' = (calls \ {c}) \cup {[c EXCEPT !.step = 2, !.at = x, !.answer = y]}
  PROVE  Heirs(calls)
<1>1. \A e \in calls : SameCall(e, e) /\ IsCall(e)
  BY DEF SameCall, AreCalls
<1> USE <1>1
<1>2. CASE calls' = calls \/ calls' = calls \ {c}
  BY <1>2 DEF Heirs
<1>3. CASE \/ calls' = (calls \ {c}) \cup {[c EXCEPT !.at = x, !.answer = y]}
           \/ calls' = (calls \ {c}) \cup {[c EXCEPT !.step = 2, !.at = x, !.answer = y]}
  <2>1. PICK d : /\ calls' = (calls \ {c}) \cup {d}
                 /\ \/ d = [c EXCEPT !.at = x, !.answer = y]
                    \/ d = [c EXCEPT !.step = 2, !.at = x, !.answer = y]
    BY <1>3
  <2>2. IsCall(d) /\ SameCall(c, d)
    BY <2>1, GoesOn, Zenon
  <2> QED
    BY <2>1, <2>2 DEF Heirs
<1> QED
  BY <1>2, <1>3

LEMMA TaskShowsAnswer ==
  ASSUME TaskShows, NEW c \in calls,
         TaskPage!Serve(c) \/ TaskPage!Refuse(c) \/ TaskPage!Answer(c)
  PROVE  TaskShows'
<1>0. AreCalls(calls) /\ made \in Nat /\ \A e \in calls : e.inst \in Nat /\ e.inst < made
  BY DEF TaskShows
<1>1. made' = made
  BY DEF TaskPage!Serve, TaskPage!Refuse, TaskPage!Answer, TaskPage!Loaded, TaskPage!LoadFails,
     TaskPage!FieldAnswered, TaskPage!StatusSaved, TaskPage!StatusRefreshed, TaskPage!StatusFails,
     TaskPage!FlagAnswered, TaskPage!CommentPosted, TaskPage!CommentShown, TaskPage!CommentFails,
     TaskPage!FileStored, TaskPage!FilesShown, TaskPage!FileFails, TaskPage!Deleted
<1>2. CASE TaskPage!Serve(c) \/ TaskPage!Refuse(c)
  <2>1. \E x, y : calls' = (calls \ {c}) \cup {[c EXCEPT !.at = x, !.answer = y]}
    BY <1>2, Zenon DEF TaskPage!Serve, TaskPage!Refuse, TaskPage!Answered, TaskPage!Refused,
       TaskPage!Replace, TaskPage!Fault
  <2>2. Heirs(calls)
    BY <1>0, <2>1, CallsGoOn, Zenon
  <2>3. ui' = ui
    BY <1>2 DEF TaskPage!Serve, TaskPage!Refuse
  <2> QED
    BY <1>1, <2>2, <2>3 DEF TaskShows, ShowsFor, Heirs, SameCall, AreCalls
<1>3. CASE TaskPage!Answer(c)
  <2>1. \/ calls' = calls \ {c}
        \/ calls' = (calls \ {c}) \cup {[c EXCEPT !.step = 2, !.at = "out", !.answer = None]}
    BY <1>3 DEF TaskPage!Answer, TaskPage!Loaded, TaskPage!LoadFails,
     TaskPage!FieldAnswered, TaskPage!StatusSaved, TaskPage!StatusRefreshed, TaskPage!StatusFails,
     TaskPage!FlagAnswered, TaskPage!CommentPosted, TaskPage!CommentShown, TaskPage!CommentFails,
     TaskPage!FileStored, TaskPage!FilesShown, TaskPage!FileFails, TaskPage!Deleted,
     TaskPage!Ends, TaskPage!Continue, TaskPage!Replace
  <2>2. Heirs(calls)
    BY <1>0, <2>1, CallsGoOn, Zenon
  <2>3. CASE ui' = None \/ ui' = ui
    BY <1>1, <2>2, <2>3 DEF TaskShows, ShowsFor, Heirs, SameCall, AreCalls
  <2>4. CASE ui' # None /\ ui' # ui
    <3>1. ui # None /\ ui = [f \in TaskFields |-> ui[f]] /\ c.inst = ui.inst
      BY <1>3, <2>4 DEF TaskShows, ShowsFor, TaskPage!Answer, TaskPage!Loaded, TaskPage!LoadFails,
         TaskPage!FieldAnswered, TaskPage!StatusSaved, TaskPage!StatusRefreshed,
         TaskPage!StatusFails, TaskPage!FlagAnswered, TaskPage!CommentPosted,
         TaskPage!CommentShown, TaskPage!CommentFails, TaskPage!FileStored, TaskPage!FilesShown,
         TaskPage!FileFails, TaskPage!Deleted, TaskPage!LoadBreaks, TaskPage!Touches,
         TaskPage!Reaches, TaskPage!Open
    <3>2. c.item = ui.task /\ (c.op # "load" => ui.id = ui.task)
      BY <3>1 DEF TaskShows, ShowsFor
    <3>3. LET m == TaskPage!Filled(ui, c)
          IN  /\ m = [f \in TaskFields |-> m[f]] /\ m.inst = ui.inst /\ m.task = ui.task
              /\ m.id = ui.task
      BY <3>1, <3>2, Zenon DEF TaskPage!Filled, TaskFields
    <3>4. ASSUME ui' = [f \in TaskFields |-> ui'[f]], ui'.inst = ui.inst, ui'.task = ui.task,
                 ui'.id = ui.task \/ (ui'.id = ui.id /\ ui'.view = None)
          PROVE  TaskShows'
      BY <1>1, <2>2, <2>4, <3>1, <3>4 DEF TaskShows, ShowsFor, Heirs, SameCall, AreCalls
    <3>5. CASE TaskPage!Loaded(c)
      BY <2>4, <3>3, <3>4, <3>5 DEF TaskPage!Loaded
    <3>6. CASE TaskPage!LoadBreaks(c)
      <4>1. ui' = [ui EXCEPT !.view = None, !.loading = FALSE, !.draft = TaskPage!NoDraft]
        BY <2>4, <3>6 DEF TaskPage!LoadBreaks
      <4> QED
        BY <3>1, <3>4, <4>1, Zenon DEF TaskFields
    <3>7. CASE TaskPage!CommentShown(c)
      <4>1. c.op # "load"
        BY <3>7 DEF TaskPage!CommentShown
      <4>2. PICK m : /\ ui' = [m EXCEPT !.draft = TaskPage!NoDraft, !.sending = FALSE]
                     /\ m = TaskPage!Filled(ui, c) \/ m = ui \/ \E x : m = [ui EXCEPT !.view = x]
        BY <2>4, <3>1, <3>7, Zenon DEF TaskPage!CommentShown, TaskFields
      <4>3. m = [f \in TaskFields |-> m[f]] /\ m.inst = ui.inst /\ m.task = ui.task /\ m.id = ui.task
        BY <3>1, <3>2, <3>3, <4>1, <4>2 DEF TaskFields
      <4>4. ui' = [f \in TaskFields |-> ui'[f]] /\ ui'.inst = ui.inst /\ ui'.task = ui.task
            /\ ui'.id = ui.task
        BY <4>2, <4>3, Zenon DEF TaskFields
      <4> QED
        BY <3>4, <4>4
    <3>8. CASE TaskPage!FilesShown(c)
      <4>1. PICK m : m = TaskPage!Filled(ui, c) /\ ui' = [m EXCEPT !.uploading = FALSE]
        BY <2>4, <3>8, Zenon DEF TaskPage!FilesShown
      <4>2. ui' = [f \in TaskFields |-> ui'[f]] /\ ui'.inst = ui.inst /\ ui'.task = ui.task
            /\ ui'.id = ui.task
        BY <3>3, <4>1, Zenon DEF TaskFields
      <4> QED
        BY <3>4, <4>2
    \* The others leave alone which task is shown.
    <3>9. ASSUME c.op # "load",
                 \/ \E x : ui' = [ui EXCEPT !.view = x]
                 \/ \E x : ui' = [ui EXCEPT !.view = x, !.busy = FALSE]
                 \/ ui' = [ui EXCEPT !.busy = FALSE]
                 \/ ui' = [ui EXCEPT !.sending = FALSE]
                 \/ ui' = [ui EXCEPT !.uploading = FALSE]
                 \/ \E x : ui' = [ui EXCEPT !.loading = TRUE, !.draft = x, !.sending = FALSE]
                 \/ \E x : ui' = [ui EXCEPT !.view = None, !.loading = FALSE, !.draft = x,
                                            !.uploading = FALSE]
          PROVE  TaskShows'
      <4>1. ui' = [f \in TaskFields |-> ui'[f]] /\ ui'.inst = ui.inst /\ ui'.task = ui.task
            /\ ui'.id = ui.task
        BY <3>1, <3>2, <3>9, Zenon DEF TaskFields
      <4> QED
        BY <3>4, <4>1
    <3>10. CASE TaskPage!StatusRefreshed(c) \/ TaskPage!StatusFails(c) \/ TaskPage!FlagAnswered(c)
      <4>1. \/ \E x : ui' = [ui EXCEPT !.view = x]
            \/ \E x : ui' = [ui EXCEPT !.view = x, !.busy = FALSE]
            \/ ui' = [ui EXCEPT !.busy = FALSE]
        BY <2>4, <3>1, <3>10, Zenon DEF TaskPage!StatusRefreshed, TaskPage!StatusFails,
           TaskPage!FlagAnswered, TaskFields
      <4>2. c.op # "load"
        BY <3>10 DEF TaskPage!StatusRefreshed, TaskPage!StatusFails, TaskPage!FlagAnswered
      <4> QED
        BY <3>9, <4>1, <4>2, Zenon
    <3>11. CASE TaskPage!FileStored(c) \/ TaskPage!FileFails(c)
      <4>1. \/ \E x : ui' = [ui EXCEPT !.loading = TRUE, !.draft = x, !.sending = FALSE]
            \/ ui' = [ui EXCEPT !.uploading = FALSE]
            \/ \E x : ui' = [ui EXCEPT !.view = None, !.loading = FALSE, !.draft = x,
                                       !.uploading = FALSE]
        BY <2>4, <3>11, Zenon DEF TaskPage!FileStored, TaskPage!FileFails
      <4>2. c.op # "load"
        BY <3>11 DEF TaskPage!FileStored, TaskPage!FileFails
      <4> QED
        BY <3>9, <4>1, <4>2, Zenon
    <3>12. CASE TaskPage!CommentFails(c)
      <4>1. c.op # "load"
        BY <3>12 DEF TaskPage!CommentFails
      <4>2. TaskPage!LoadBreaks(c) \/ ui' = [ui EXCEPT !.sending = FALSE]
        BY <2>4, <3>12 DEF TaskPage!CommentFails
      <4> QED
        BY <3>6, <3>9, <4>1, <4>2, Zenon
    <3>13. CASE \/ TaskPage!FieldAnswered(c) \/ TaskPage!StatusSaved(c)
                \/ TaskPage!CommentPosted(c) \/ TaskPage!Deleted(c)
      BY <2>4, <3>13 DEF TaskPage!FieldAnswered, TaskPage!StatusSaved,
         TaskPage!CommentPosted, TaskPage!Deleted
    <3> QED
      BY <1>3, <3>5, <3>6, <3>7, <3>8, <3>10, <3>11, <3>12, <3>13
         DEF TaskPage!Answer, TaskPage!LoadFails
  <2> QED
    BY <2>3, <2>4
<1> QED
  BY <1>2, <1>3

LEMMA TaskShowsOwn ==
  /\ TaskPage!Init => TaskShows
  /\ TaskShows /\ TaskPage!Next => TaskShows'
  /\ TaskShows => TaskPage!ShowsOwnTask
<1>1. TaskPage!Init => TaskShows
  <2>1. TaskPage!Init => ui = None /\ calls = {} /\ made = 0
    BY Zenon DEF TaskPage!Init
  <2> QED
    BY <2>1 DEF TaskShows, AreCalls
<1>2. TaskShows /\ TaskPage!Next => TaskShows'
  BY TaskShowsUser, TaskShowsAnswer DEF TaskPage!Elsewhere, TaskPage!Counts, TaskShows, ShowsFor,
     AreCalls, TaskPage!Next
<1>3. TaskShows => TaskPage!ShowsOwnTask
  BY DEF TaskShows, ShowsFor, TaskPage!ShowsOwnTask, TaskPage!Open
<1> QED
  BY <1>1, <1>2, <1>3

-----------------------------------------------------------------------------
(* The sessions of an account                                              *)

\* A call that was just made.
LEMMA OneOut ==
  ASSUME NEW inst, NEW item, NEW op, NEW value, NEW prev,
         calls' = calls \cup {Call(made, inst, item, op, value, prev)}
  PROVE  \E n : /\ calls' = calls \cup {n} /\ IsCall(n)
                /\ n.id = made /\ n.inst = inst /\ n.item = item /\ n.op = op
                /\ n.value = value /\ n.prev = prev /\ n.step = 1 /\ n.at = "out"
<1>1. PICK n : n = Call(made, inst, item, op, value, prev)
  OBVIOUS
<1> USE <1>1
<1>2. IsCall(n) /\ n.prev = prev
  BY DEF Call, IsCall, CallFields
<1>3. /\ n.id = made /\ n.inst = inst /\ n.item = item /\ n.op = op
      /\ n.value = value /\ n.step = 1 /\ n.at = "out"
  BY NewCall
<1>4. calls' = calls \cup {n}
  OBVIOUS
<1> QED
  BY <1>2, <1>3, <1>4

LEMMA OneAnswered ==
  ASSUME AreCalls(calls), NEW c \in calls, NEW x, NEW y,
         calls' = (calls \ {c}) \cup {Answering(c, x, y)}
  PROVE  \E d : /\ calls' = (calls \ {c}) \cup {d} /\ IsCall(d)
                /\ SameCall(c, d) /\ d.value = c.value /\ d.prev = c.prev /\ d.step = c.step
                /\ d.at = x /\ d.answer = y
<1>1. PICK d : d = Answering(c, x, y)
  OBVIOUS
<1>2. /\ IsCall(d) /\ SameCall(c, d) /\ d.value = c.value /\ d.prev = c.prev /\ d.step = c.step
      /\ d.at = x /\ d.answer = y
  BY <1>1, Zenon DEF AreCalls, IsCall, CallFields, SameCall, Answering
<1>3. calls' = (calls \ {c}) \cup {d}
  BY <1>1
<1> QED
  BY <1>2, <1>3

LEMMA UsersShowStarts == Accounts!Init => UsersShow
<1> SUFFICES ASSUME Accounts!Init PROVE UsersShow
  OBVIOUS
<1>1. ui = [f \in UserFields |-> ui[f]]
  BY Zenon DEF Accounts!Init, UserFields
<1>2. ui.for = None /\ calls = {}
  BY DEF Accounts!Init
<1> QED
  BY <1>1, <1>2 DEF UsersShow, AreCalls

LEMMA UsersShowSteps == UsersShow /\ Accounts!Next => UsersShow'
<1> SUFFICES ASSUME UsersShow, Accounts!Next PROVE UsersShow'
  OBVIOUS
<1>0. ui = [f \in UserFields |-> ui[f]] /\ AreCalls(calls)
  BY DEF UsersShow
\* Nothing new about the sessions: what comes from elsewhere is no call for them.
<1>1. ASSUME ui' = [f \in UserFields |-> ui'[f]], AreCalls(calls'), clean' => clean,
             \A c \in calls' : c \in calls \/ c.op # "sessions",
             \/ ui'.for = None
             \/ ui'.for = ui.for /\ ui'.sessions \in {ui.sessions, None}
      PROVE  UsersShow'
  BY <1>1 DEF UsersShow
<1>2. ASSUME NEW item, NEW op, NEW value, Accounts!Start(0, item, op, value, None)
      PROVE  /\ AreCalls(calls')
             /\ \A c \in calls' :
                  c \in calls \/ (c.inst = 0 /\ c.item = item /\ c.op = op /\ c.at = "out")
  BY <1>2, <1>0, OneOut DEF Accounts!Start, Accounts!Call, Call, AreCalls
<1>3. CASE \/ Accounts!CancelDelete \/ Accounts!OpenInvite \/ Accounts!CloseInvite
           \/ Accounts!CloseSessions
           \/ \E i \in Item : Accounts!RequestDelete(i) \/ Accounts!TypeEmail(i)
  <2>1. calls' = calls /\ clean' = clean
    BY <1>3 DEF Accounts!CancelDelete, Accounts!OpenInvite, Accounts!CloseInvite,
       Accounts!CloseSessions, Accounts!RequestDelete, Accounts!TypeEmail
  <2>2. /\ ui' = [f \in UserFields |-> ui'[f]]
        /\ ui'.for = None \/ (ui'.for = ui.for /\ ui'.sessions = ui.sessions)
    BY <1>0, <1>3, Zenon DEF Accounts!CancelDelete, Accounts!OpenInvite, Accounts!CloseInvite,
       Accounts!CloseSessions, Accounts!RequestDelete, Accounts!TypeEmail, UserFields
  <2> QED
    BY <1>0, <1>1, <2>1, <2>2
<1>4. CASE \/ Accounts!ConfirmDelete \/ Accounts!Invite \/ Accounts!RevokeSessions
           \/ \E i \in Item :
                \/ \E op \in {"approve", "reject"} : Accounts!Decide(i, op)
                \/ \E role \in {"viewer", "admin"} : Accounts!ChangeRole(i, role)
                \/ Accounts!RevokeInvitation(i) \/ Accounts!ClearLockout(i)
  BY <1>4, <1>0, <1>1, <1>2 DEF Accounts!ConfirmDelete, Accounts!Decide, Accounts!ChangeRole,
     Accounts!Invite, Accounts!RevokeInvitation, Accounts!ClearLockout, Accounts!RevokeSessions,
     Accounts!Act, UserFields
<1>5. ASSUME NEW i \in Item, Accounts!OpenSessions(i)
      PROVE  UsersShow'
  <2>1. /\ ui' = [ui EXCEPT !.for = i, !.sessions = None, !.spinner = TRUE]
        /\ Accounts!Start(0, i, "sessions", None, None)
        /\ clean' => ~\E c \in calls : c.inst = 0 /\ c.op \in {"sessions"}
    BY <1>5, Zenon DEF Accounts!OpenSessions, Accounts!Waiting
  <2> USE <2>1
  <2>2. ui' = [f \in UserFields |-> ui'[f]] /\ ui'.for = i /\ ui'.sessions = None
    BY <1>0, Zenon DEF UserFields
  <2>3. /\ AreCalls(calls')
        /\ \A c \in calls' :
             c \in calls \/ (c.inst = 0 /\ c.item = i /\ c.op = "sessions" /\ c.at = "out")
    BY <1>2
  <2> QED
    BY <2>2, <2>3, Zenon DEF UsersShow
<1>6. ASSUME NEW c \in calls, Accounts!Serve(c) \/ Accounts!Refuse(c)
      PROVE  UsersShow'
  <2>1. PICK x, y : /\ calls' = (calls \ {c}) \cup {Answering(c, x, y)}
                    /\ x = "ok" /\ c.op = "sessions" => y \in {c.item, None}
    <3>1. CASE Accounts!Serve(c)
      BY <3>1, Zenon DEF Accounts!Serve, Accounts!Answered, Accounts!Replace, Answering
    <3>2. CASE Accounts!Refuse(c)
      BY <3>2, Zenon DEF Accounts!Refuse, Accounts!Refused, Accounts!Fault, Accounts!Replace, Answering
    <3> QED
      BY <1>6, <3>1, <3>2
  <2>2. ui' = ui /\ clean' = clean
    BY <1>6 DEF Accounts!Serve, Accounts!Refuse
  <2>3. calls' = (calls \ {c}) \cup {Answering(c, x, y)}
    BY <2>1
  <2>4. PICK d : /\ calls' = (calls \ {c}) \cup {d} /\ IsCall(d)
                 /\ SameCall(c, d) /\ d.value = c.value /\ d.prev = c.prev /\ d.step = c.step
                 /\ d.at = x /\ d.answer = y
    BY <1>0, <2>3, OneAnswered
  <2> QED
    BY <2>1, <2>2, <2>4 DEF UsersShow, SameCall, AreCalls
<1>7. ASSUME NEW c \in calls, NEW list, Accounts!EndsAndFetches(c, list)
      PROVE  AreCalls(calls') /\ (\A d \in calls' : d \in calls \/ d.op # "sessions") /\ (clean' => clean)
  <2>1. IsCall(Accounts!Fetches(list)) /\ Accounts!Fetches(list).op = "list"
    BY DEF Accounts!Fetches, Accounts!Call, IsCall, CallFields
  <2> QED
    BY <1>0, <1>7, <2>1, Zenon DEF Accounts!EndsAndFetches, AreCalls
<1>8. ASSUME NEW c \in calls,
             \/ Accounts!ListArrives(c) \/ Accounts!Acted(c) \/ Accounts!Cleared(c)
             \/ Accounts!Invited(c) \/ Accounts!InviteFails(c) \/ Accounts!Revoked(c)
      PROVE  UsersShow'
  <2>1. \/ calls' = calls \ {c} /\ clean' = clean
        \/ \E list : Accounts!EndsAndFetches(c, list)
    BY <1>8 DEF Accounts!ListArrives, Accounts!Acted, Accounts!Cleared, Accounts!Invited,
       Accounts!InviteFails, Accounts!Revoked, Accounts!Ends
  <2>2. AreCalls(calls') /\ (\A d \in calls' : d \in calls \/ d.op # "sessions") /\ (clean' => clean)
    BY <1>0, <1>7, <2>1 DEF AreCalls
  <2>3. /\ ui' = [f \in UserFields |-> ui'[f]] /\ ui'.for = ui.for
        /\ ui'.sessions \in {ui.sessions, None}
    BY <1>0, <1>8, Zenon DEF Accounts!ListArrives, Accounts!Acted, Accounts!Cleared, Accounts!Invited,
       Accounts!InviteFails, Accounts!Revoked, UserFields
  <2> QED
    BY <1>1, <2>2, <2>3
<1>9. ASSUME NEW c \in calls, Accounts!SessionsArrive(c)
      PROVE  UsersShow'
  <2>1. c.op = "sessions" /\ c.at # "out" /\ calls' = calls \ {c} /\ clean' = clean
    BY <1>9 DEF Accounts!SessionsArrive, Accounts!Ends
  <2>2. /\ ui' = [f \in UserFields |-> ui'[f]] /\ ui'.for = ui.for
        /\ ui'.sessions = IF c.at = "ok" THEN c.answer ELSE ui.sessions
    BY <1>0, <1>9, Zenon DEF Accounts!SessionsArrive, UserFields
  <2> QED
    BY <1>0, <2>1, <2>2 DEF UsersShow, AreCalls
<1> QED
  BY <1>3, <1>4, <1>5, <1>6, <1>8, <1>9 DEF Accounts!Next, Accounts!User

-----------------------------------------------------------------------------
(* The secrets of webhooks                                                 *)

LEMMA HooksShowStarts == Hooks!Init => HooksShow
  BY DEF Hooks!Init, HookFields, HooksShow, Secrets, AreCalls

LEMMA HooksShowSteps == HooksShow /\ Hooks!Next => HooksShow'
<1> SUFFICES ASSUME HooksShow, Hooks!Next PROVE HooksShow'
  OBVIOUS
<1>0. /\ ui = [f \in HookFields |-> ui[f]] /\ AreCalls(calls) /\ made \in Nat
      /\ server = [i \in Item |-> server[i]]
  BY DEF HooksShow
<1>1. ASSUME NEW item, NEW op, NEW value, Hooks!Start(0, item, op, value, None)
      PROVE  /\ made' \in Nat
             /\ \E n : /\ calls' = calls \cup {n} /\ IsCall(n)
                       /\ n.item = item /\ n.op = op /\ n.value = value /\ n.at = "out"
  <2>1. calls' = calls \cup {Call(made, 0, item, op, value, None)}
    BY <1>1 DEF Hooks!Start, Hooks!Call, Call
  <2>2. made' = made + 1
    BY <1>1 DEF Hooks!Start, Hooks!Counts
  <2> QED
    BY <1>0, <2>1, <2>2, OneOut
<1>2. CASE Hooks!OpenCreate \/ Hooks!CloseCreate \/ Hooks!Dismiss \/ \E i \in Item : Hooks!Fill(i)
  <2>1. UNCHANGED <<calls, server, made, clean>>
    BY <1>2 DEF Hooks!OpenCreate, Hooks!CloseCreate, Hooks!Dismiss, Hooks!Fill
  <2>2. /\ ui' = [f \in HookFields |-> ui'[f]] /\ ui'.creating = ui.creating
        /\ ui'.draft = ui.draft \/ ui'.draft \in Item
        /\ ui'.rotated = None \/ (ui'.rotated = ui.rotated /\ ui'.for = ui.for)
    BY <1>0, <1>2, Zenon DEF Hooks!OpenCreate, Hooks!CloseCreate, Hooks!Dismiss, Hooks!Fill, HookFields
  <2> QED
    BY <2>1, <2>2 DEF HooksShow, Secrets, AreCalls, HookCall
<1>3. CASE Hooks!Create
  <2>1. /\ ~ui.creating /\ ui.draft # None /\ server[ui.draft] = 0
        /\ ui' = [ui EXCEPT !.creating = TRUE]
        /\ Hooks!Start(0, ui.draft, "create", made + 2, None)
        /\ UNCHANGED <<server, clean>>
    BY <1>3 DEF Hooks!Create
  <2> USE <2>1
  <2>2. /\ ui' = [f \in HookFields |-> ui'[f]] /\ ui'.creating /\ ui'.draft = ui.draft
        /\ ui'.rotated = ui.rotated /\ ui'.for = ui.for
    BY <1>0, Zenon DEF HookFields
  <2>3. PICK n : /\ calls' = calls \cup {n} /\ IsCall(n)
                 /\ n.item = ui.draft /\ n.op = "create" /\ n.value = made + 2 /\ n.at = "out"
    BY <1>1
  <2>4. made' \in Nat /\ HookCall(n)
    BY <1>0, <1>1, <2>3 DEF HooksShow, HookCall
  <2> QED
    BY <2>2, <2>3, <2>4 DEF HooksShow, Secrets, AreCalls, HookCall
<1>4. ASSUME NEW i \in Item, Hooks!Rotate(i)
      PROVE  HooksShow'
  <2>1. /\ ui.rotated = None
        /\ ui' = [ui EXCEPT !.rotating = i]
        /\ Hooks!Start(0, i, "rotate", made + 2, None)
        /\ server' = server
        /\ clean' => clean /\ \A c \in calls : ~(c.op = "rotate" /\ c.item = i)
    BY <1>4, Zenon DEF Hooks!Rotate, Hooks!Behind
  <2> USE <2>1
  <2>2. /\ ui' = [f \in HookFields |-> ui'[f]] /\ ui'.creating = ui.creating /\ ui'.draft = ui.draft
        /\ ui'.rotated = None
    BY <1>0, Zenon DEF HookFields
  <2>3. PICK n : /\ calls' = calls \cup {n} /\ IsCall(n)
                 /\ n.item = i /\ n.op = "rotate" /\ n.value = made + 2 /\ n.at = "out"
    BY <1>1
  <2>4. made' \in Nat /\ HookCall(n)
    BY <1>0, <1>1, <2>3 DEF HookCall
  <2> QED
    BY <2>2, <2>3, <2>4 DEF HooksShow, Secrets, AreCalls, HookCall
<1>5. ASSUME NEW i \in Item, Hooks!Delete(i)
      PROVE  HooksShow'
  BY <1>5, <1>1, <1>0 DEF Hooks!Delete, HookCall, HooksShow, Secrets, AreCalls
<1>6. ASSUME NEW c \in calls, NEW d, calls' = (calls \ {c}) \cup {d}, IsCall(d), SameCall(c, d),
             d.value = c.value, c.at = "out", UNCHANGED <<ui, made, clean>>,
             \/ d.at = "no" /\ server' = server
             \/ d.at = "ok" /\ c.op = "list" /\ server' = server
             \/ /\ d.at = "ok" /\ c.op # "list" /\ server' = [server EXCEPT ![c.item] = c.value]
                /\ c.op # "create" => server[c.item] \notin {0, None}
      PROVE  HooksShow'
  <2> USE <1>6
  <2>1. HookCall(c) /\ HookCall(d) /\ d.op = c.op /\ d.item = c.item
    BY DEF HooksShow, HookCall, SameCall
  <2> USE <2>1
  <2>2. /\ made' \in Nat /\ AreCalls(calls') /\ ui'.draft \in Item \cup {None}
        /\ ui' = [f \in HookFields |-> ui'[f]]
        /\ \A e \in calls' : HookCall(e)
    BY DEF HooksShow, AreCalls
  <2>3. \A e, g \in calls' : e.op = "create" /\ g.op = "create" => e = g
    BY DEF HooksShow
  <2>4. CASE server' = server /\ (d.at = "no" \/ c.op = "list")
    BY <1>0, <2>2, <2>3, <2>4 DEF HooksShow, Secrets
  <2>5. CASE /\ d.at = "ok" /\ c.op # "list" /\ server' = [server EXCEPT ![c.item] = c.value]
             /\ c.op # "create" => server[c.item] \notin {0, None}
    <3>1. /\ server' = [i \in Item |-> server'[i]] /\ server'[c.item] = c.value
          /\ \A i \in Item : i # c.item => server'[i] = server[i]
      BY <1>0, <2>5 DEF HookCall
    <3>2. c.op = "create" => server[c.item] = 0
      BY DEF HooksShow
    <3>3. \A e \in calls' : e.op = "create" => ui'.creating /\ (e.at = "out" => server'[e.item] = 0)
      BY <2>5, <3>1 DEF HooksShow, HookCall
    <3>4. clean' => Secrets'
      <4> SUFFICES ASSUME clean' PROVE Secrets'
        OBVIOUS
      <4>0. Secrets
        BY DEF HooksShow
      <4>1. \A e, g \in calls' : e.op = "rotate" /\ g.op = "rotate" /\ e.item = g.item => e = g
        BY <4>0 DEF Secrets
      <4>2. ASSUME NEW e \in calls', e.op = "rotate", e.at = "ok"
            PROVE  server'[e.item] \in {e.value, None}
        <5>1. CASE e = d
          BY <3>1, <5>1
        <5>2. CASE e # d
          <6>1. /\ e \in calls /\ e # c /\ e.item \in Item /\ e.value \in Nat \ {0}
                /\ server[e.item] \in {e.value, None}
            BY <4>0, <4>2, <5>2 DEF HooksShow, HookCall, Secrets
          <6> USE <6>1
          <6>2. server[e.item] # 0
            BY NoneIsNothing
          <6>3. e.item = c.item => c.op = "delete"
            BY <2>5, <3>2, <4>0, <4>2, <6>2 DEF Secrets, HookCall
          <6> QED
            BY <3>1, <6>3 DEF HookCall
        <5> QED
          BY <5>1, <5>2
      <4>3. ASSUME ui'.rotated # None
            PROVE  /\ ui'.for \in Item /\ ui'.rotated \in Nat \ {0}
                   /\ server'[ui'.for] \in {ui'.rotated, None}
                   /\ \A e \in calls' : e.op = "rotate" => e.item # ui'.for
        BY <4>0, <4>3, NoneIsNothing, <2>5, <3>2, <3>1 DEF Secrets, HookCall
      <4> QED
        BY <4>1, <4>2, <4>3 DEF Secrets
    <3> QED
      BY <2>2, <2>3, <3>1, <3>3, <3>4 DEF HooksShow
  <2> QED
    BY <2>4, <2>5
<1>7. ASSUME NEW c \in calls, Hooks!Serve(c) \/ Hooks!Refuse(c)
      PROVE  HooksShow'
  <2>1. PICK x, y : calls' = (calls \ {c}) \cup {Answering(c, x, y)}
                    /\ c.at = "out" /\ UNCHANGED <<ui, made, clean>>
                    /\ \/ x = "no" /\ server' = server
                       \/ x = "ok" /\ c.op = "list" /\ server' = server
                       \/ /\ x = "ok" /\ c.op # "list"
                          /\ server' = [server EXCEPT ![c.item] = c.value]
                          /\ ~Hooks!Missing(c)
    <3>1. CASE Hooks!Serve(c)
      BY <3>1, Zenon DEF Hooks!Serve, Hooks!Answered, Hooks!Replace, Answering
    <3>2. CASE Hooks!Refuse(c)
      BY <3>2, Zenon DEF Hooks!Refuse, Hooks!Refused, Hooks!Fault, Hooks!Replace, Answering
    <3> QED
      BY <1>7, <3>1, <3>2
  <2>2. calls' = (calls \ {c}) \cup {Answering(c, x, y)}
    BY <2>1
  <2>3. PICK d : /\ calls' = (calls \ {c}) \cup {d} /\ IsCall(d)
                 /\ SameCall(c, d) /\ d.value = c.value /\ d.prev = c.prev /\ d.step = c.step
                 /\ d.at = x /\ d.answer = y
    BY <1>0, <2>2, OneAnswered
  <2>4. HookCall(c)
    BY DEF HooksShow
  <2>5. ~Hooks!Missing(c) /\ c.op \notin {"list", "create"} => server[c.item] \notin {0, None}
    BY <2>4 DEF HookCall, Hooks!Missing, Hooks!Live
  <2> QED
    BY <1>6, <2>1, <2>3, <2>5
<1>8. ASSUME NEW c \in calls,
             \/ Hooks!ListArrives(c) \/ Hooks!Created(c) \/ Hooks!CreateFails(c)
             \/ Hooks!Rotated(c) \/ Hooks!Deleted(c)
      PROVE  HooksShow'
  <2>1. /\ c.at # "out" /\ UNCHANGED <<server, made>>
        /\ \/ calls' = calls \ {c} /\ clean' = clean
           \/ Hooks!EndsAndFetches(c)
    BY <1>8 DEF Hooks!ListArrives, Hooks!Created, Hooks!CreateFails, Hooks!Rotated,
       Hooks!Deleted, Hooks!Ends
  <2> USE <2>1
  <2>2. IsCall(Hooks!Fetch(None)) /\ Hooks!Fetch(None).op = "list"
    BY DEF Hooks!Fetch, Hooks!Call, IsCall, CallFields
  <2>3. PICK n : n = Hooks!Fetch(None)
    OBVIOUS
  <2>4. /\ IsCall(n) /\ n.op = "list" /\ HookCall(n)
        /\ \A e \in calls' : (e \in calls /\ e # c) \/ e = n
        /\ clean' => clean
    <3>1. IsCall(n) /\ n.op = "list"
      BY <2>2, <2>3
    <3>2. calls' = calls \ {c} \/ calls' = (calls \ {c}) \cup {n}
      BY <2>3 DEF Hooks!EndsAndFetches
    <3>3. clean' => clean
      BY Zenon DEF Hooks!EndsAndFetches
    <3> QED
      BY <3>1, <3>2, <3>3 DEF HookCall
  <2> USE <2>4
  <2>5. /\ AreCalls(calls') /\ \A e \in calls' : HookCall(e)
        /\ \A e, g \in calls' : e.op = "create" /\ g.op = "create" => e = g
    BY DEF HooksShow, AreCalls
  <2>6. /\ ui' = [f \in HookFields |-> ui'[f]]
        /\ ui'.creating = IF c.op = "create" THEN FALSE ELSE ui.creating
        /\ ui'.draft \in {ui.draft, None}
        /\ IF c.op = "rotate" /\ c.at = "ok"
             THEN ui'.rotated = c.value /\ ui'.for = c.item
             ELSE ui'.rotated = ui.rotated /\ ui'.for = ui.for
    BY <1>0, <1>8, Zenon DEF Hooks!ListArrives, Hooks!Created, Hooks!CreateFails, Hooks!Rotated,
       Hooks!Deleted, HookFields
  <2> USE <2>6
  <2>7. \A e \in calls' : e.op = "create" => ui'.creating /\ (e.at = "out" => server'[e.item] = 0)
    BY DEF HooksShow
  <2>8. clean' => Secrets'
    BY DEF HooksShow, Secrets, HookCall
  <2> QED
    BY <1>0, <2>5, <2>7, <2>8 DEF HooksShow
<1> QED
  BY <1>2, <1>3, <1>4, <1>5, <1>7, <1>8 DEF Hooks!Next

-----------------------------------------------------------------------------
(* The numbers of a filter                                                 *)

LEMMA ReportsShowStarts == Numbers!Init => ReportsShow
<1> SUFFICES ASSUME Numbers!Init PROVE ReportsShow
  OBVIOUS
<1>0. page \in Figures
  BY DEF Numbers!Init, Figures
<1>1. PICK f \in Item :
        /\ ui = [filter |-> f, shown |-> None, loading |-> TRUE, failed |-> FALSE,
                 cached |-> {}, inst |-> 0]
        /\ calls = {Numbers!Call(0, 0, f, "report", None, None)}
  BY Zenon DEF Numbers!Init
<1>2. ui = [g \in ReportFields |-> ui[g]] /\ ui.filter = f /\ ui.cached = {} /\ ui.loading
  BY <1>1, Zenon DEF ReportFields
<1>3. AreCalls(calls) /\ \A c \in calls : c.item = f
  BY <1>1 DEF Numbers!Call, AreCalls, IsCall, CallFields
<1> QED
  BY <1>0, <1>2, <1>3 DEF ReportsShow, Numbers!ReportFitsFilter

LEMMA ReportsShowSteps == ReportsShow /\ Numbers!Next => ReportsShow'
<1> SUFFICES ASSUME ReportsShow, Numbers!Next PROVE ReportsShow'
  OBVIOUS
<1>0. ui = [f \in ReportFields |-> ui[f]] /\ AreCalls(calls)
  BY DEF ReportsShow
<1>1. ASSUME NEW inst, NEW f
      PROVE  LET c == Numbers!Call(made, inst, f, "report", None, None)
             IN  IsCall(c) /\ c.item = f
  BY DEF Numbers!Call, IsCall, CallFields
<1>2. ASSUME NEW f \in Item, Numbers!ChangeFilter(f)
      PROVE  ReportsShow'
  <2>1. page' = page
    BY <1>2 DEF Numbers!ChangeFilter
  <2>2. CASE f \in ui.cached
    <3>1. /\ ui' = [g \in ReportFields |-> ui'[g]] /\ calls' = calls
          /\ ui'.shown = f /\ ui'.filter = f /\ page = "analytics"
      BY <1>0, <1>2, <2>2, Zenon DEF Numbers!ChangeFilter, ReportFields, ReportsShow
    <3> QED
      BY <1>0, <2>1, <3>1 DEF ReportsShow, Numbers!ReportFitsFilter
  <2>3. CASE f \notin ui.cached
    <3>1. /\ ui' = [g \in ReportFields |-> ui'[g]] /\ ui'.filter = f /\ ui'.loading
          /\ ui'.cached = ui.cached
      BY <1>0, <1>2, <2>3, Zenon DEF Numbers!ChangeFilter, ReportFields
    <3>2. calls' = Numbers!KeepsRequests \cup Numbers!Asks(f)
      BY <1>2, <2>3 DEF Numbers!ChangeFilter
    <3>3. AreCalls(calls')
      BY <1>0, <1>1, <3>2 DEF Numbers!KeepsRequests, Numbers!Asks, AreCalls
    <3>4. \A c \in Numbers!Asks(f) : c.item = f
      BY <1>1 DEF Numbers!Asks
    <3>5. page = "profile" => Numbers!KeepsRequests = {}
      BY DEF Numbers!KeepsRequests
    <3>6. clean' => (page = "weekly" => calls = {})
      BY <1>2, Zenon DEF Numbers!ChangeFilter
    <3>7. page \in {"profile", "weekly", "analytics"}
      BY DEF ReportsShow, Figures
    <3>8. page = "profile" \/ (clean' /\ page # "analytics") => \A c \in calls' : c.item = f
      BY <3>2, <3>4, <3>5, <3>6, <3>7 DEF Numbers!KeepsRequests
    <3> QED
      BY <2>1, <3>1, <3>3, <3>8 DEF ReportsShow, Numbers!ReportFitsFilter
  <2> QED
    BY <2>2, <2>3
<1>3. CASE Numbers!Retry
  <2>1. /\ ui' = [g \in ReportFields |-> ui'[g]] /\ ui'.filter = ui.filter /\ ui'.loading
        /\ page = "analytics" /\ page' = page
    BY <1>0, <1>3, Zenon DEF Numbers!Retry, ReportFields
  <2>2. AreCalls(calls')
    BY <1>0, <1>1, <1>3 DEF Numbers!Retry, AreCalls
  <2> QED
    BY <2>1, <2>2 DEF ReportsShow, Numbers!ReportFitsFilter
<1>4. ASSUME NEW c \in calls, Numbers!Serve(c) \/ Numbers!Refuse(c)
      PROVE  ReportsShow'
  <2>1. \E x, y : calls' = (calls \ {c}) \cup {[c EXCEPT !.at = x, !.answer = y]}
    BY <1>4, Zenon DEF Numbers!Serve, Numbers!Refuse, Numbers!Answered, Numbers!Refused, Numbers!Fault,
       Numbers!Replace
  <2>2. Heirs(calls)
    BY <1>0, <2>1, CallsGoOn, Zenon
  <2>3. UNCHANGED <<page, ui, clean>>
    BY <1>4 DEF Numbers!Serve, Numbers!Refuse
  <2> QED
    BY <2>2, <2>3 DEF ReportsShow, Numbers!ReportFitsFilter, Heirs, SameCall, AreCalls
<1>5. ASSUME NEW c \in calls, Numbers!Arrives(c)
      PROVE  ReportsShow'
  <2> USE <1>5
  <2>1. calls' = calls \ {c} /\ UNCHANGED <<page, clean>>
    BY DEF Numbers!Arrives, Numbers!Ends
  <2>2. CASE page # "analytics"
    <3>1. /\ ui' = [g \in ReportFields |-> ui'[g]] /\ ui'.filter = ui.filter
          /\ ui'.cached = ui.cached /\ ui'.shown = c.item
      BY <1>0, <2>2, Zenon DEF Numbers!Arrives, Numbers!Fills, ReportFields
    <3> QED
      BY <1>0, <2>1, <2>2, <3>1 DEF ReportsShow, Numbers!ReportFitsFilter, AreCalls
  <2>3. CASE page = "analytics"
    <3>1. /\ ui' = [g \in ReportFields |-> ui'[g]] /\ ui'.filter = ui.filter
          /\ ui'.shown = IF c.item = ui.filter THEN c.item ELSE ui.shown
          /\ c.item # ui.filter => (~ui'.loading => ~ui.loading)
      BY <1>0, <2>3, Zenon DEF Numbers!Arrives, Numbers!Fills, ReportFields
    <3> QED
      BY <1>0, <2>1, <2>3, <3>1 DEF ReportsShow, Numbers!ReportFitsFilter, AreCalls
  <2> QED
    BY <2>2, <2>3
<1>6. ASSUME NEW c \in calls, Numbers!Fails(c)
      PROVE  ReportsShow'
  <2> USE <1>6
  <2>1. calls' = calls \ {c} /\ page' = page
    BY DEF Numbers!Fails, Numbers!Ends
  <2>2. CASE page # "analytics"
    <3>1. /\ ui' = [g \in ReportFields |-> ui'[g]] /\ ui'.filter = ui.filter
          /\ ui'.cached = ui.cached /\ ui'.shown = None /\ clean' = clean
      BY <1>0, <2>2, Zenon DEF Numbers!Fails, ReportFields
    <3> QED
      BY <1>0, <2>1, <2>2, <3>1 DEF ReportsShow, Numbers!ReportFitsFilter, AreCalls
  <2>3. CASE page = "analytics"
    BY <1>0, <2>3, <2>1 DEF Numbers!Fails, ReportFields, ReportsShow,
       Numbers!ReportFitsFilter, AreCalls
  <2> QED
    BY <2>2, <2>3
<1> QED
  BY <1>2, <1>3, <1>4, <1>5, <1>6 DEF Numbers!Next

-----------------------------------------------------------------------------
(* The preview of a file                                                   *)

LEMMA ImportShowsStarts == Csv!Init => ImportShows
  BY DEF Csv!Init, Csv!Fresh, ImportFields, ImportShows, Csv!PreviewFitsFile, AreCalls

LEMMA ImportShowsSteps == ImportShows /\ Csv!Next => ImportShows'
<1> SUFFICES ASSUME ImportShows, Csv!Next PROVE ImportShows'
  OBVIOUS
<1>0. ui = [f \in ImportFields |-> ui[f]] /\ AreCalls(calls) /\ ui.inst \in Nat
  BY DEF ImportShows
<1>1. ASSUME NEW item, NEW op, Csv!Start(ui.inst, item, op, None, None)
      PROVE  \E n : /\ calls' = calls \cup {n} /\ IsCall(n)
                    /\ n.inst = ui.inst /\ n.item = item /\ n.op = op
  BY <1>1, OneOut DEF Csv!Start, Csv!Call, Call
<1>2. CASE Csv!OpenDialog
  BY <1>2, <1>0 DEF Csv!OpenDialog, Csv!Fresh, ImportFields, ImportShows, Csv!PreviewFitsFile,
     Previews
<1>3. CASE Csv!CloseDialog \/ Csv!ChangeFile
  BY <1>0, <1>3 DEF Csv!CloseDialog, Csv!ChangeFile, ImportFields, ImportShows,
     Csv!PreviewFitsFile, Previews
<1>4. ASSUME NEW i \in Item, Csv!SelectFile(i)
      PROVE  ImportShows'
  <2>1. /\ ui' = [f \in ImportFields |-> ui'[f]] /\ ui'.inst = ui.inst
        /\ ui'.file = i /\ ui'.uploading = ui.uploading /\ ui'.preview = None
        /\ ui'.open = ui.open
    BY <1>0, <1>4, Zenon DEF Csv!SelectFile, ImportFields
  <2>2. calls' = calls /\ (clean' => ~ui.uploading)
    BY <1>4, Zenon DEF Csv!SelectFile
  <2> QED
    BY <1>0, <2>1, <2>2 DEF ImportShows, Csv!PreviewFitsFile, Previews
<1>5. CASE Csv!Preview
  <2>1. /\ ui' = [ui EXCEPT !.uploading = TRUE] /\ ui.preview = None /\ ~ui.uploading /\ ui.open
        /\ Csv!Start(ui.inst, ui.file, "preview", None, None) /\ clean' = clean
    BY <1>5 DEF Csv!Preview
  <2>2. /\ ui' = [f \in ImportFields |-> ui'[f]] /\ ui'.inst = ui.inst
        /\ ui'.file = ui.file /\ ui'.uploading /\ ui'.preview = None
    BY <1>0, <2>1, Zenon DEF ImportFields
  <2>3. PICK n : /\ calls' = calls \cup {n} /\ IsCall(n)
                 /\ n.inst = ui.inst /\ n.item = ui.file /\ n.op = "preview"
    BY <1>1, <2>1
  <2>4. \A c \in calls : ~Previews(c)
    BY <2>1 DEF ImportShows
  <2>5. \A c \in calls' : c.inst \in Nat /\ c.inst <= ui'.inst
    BY <1>0, <2>2, <2>3 DEF ImportShows
  <2> QED
    BY <1>0, <2>1, <2>2, <2>3, <2>4, <2>5 DEF ImportShows, Csv!PreviewFitsFile, Previews, AreCalls
<1>6. CASE Csv!Commit
  <2>1. /\ ui' = [ui EXCEPT !.committing = TRUE]
        /\ Csv!Start(ui.inst, ui.preview, "commit", None, None) /\ clean' = clean
    BY <1>6 DEF Csv!Commit
  <2>2. /\ ui' = [f \in ImportFields |-> ui'[f]] /\ ui'.inst = ui.inst /\ ui'.open = ui.open
        /\ ui'.file = ui.file /\ ui'.uploading = ui.uploading /\ ui'.preview = ui.preview
    BY <1>0, <2>1, Zenon DEF ImportFields
  <2>3. PICK n : /\ calls' = calls \cup {n} /\ IsCall(n) /\ n.inst = ui.inst /\ n.op = "commit"
    BY <1>1, <2>1
  <2>4. \A c \in calls' : c.inst \in Nat /\ c.inst <= ui'.inst
    BY <1>0, <2>2, <2>3 DEF ImportShows
  <2> QED
    BY <1>0, <2>1, <2>2, <2>3, <2>4 DEF ImportShows, Csv!PreviewFitsFile, Previews, AreCalls
<1>7. ASSUME NEW c \in calls, Csv!Serve(c) \/ Csv!Refuse(c)
      PROVE  ImportShows'
  <2>1. PICK x, y : calls' = (calls \ {c}) \cup {Answering(c, x, y)}
    BY <1>7, Zenon DEF Csv!Serve, Csv!Refuse, Csv!Answered, Csv!Refused, Csv!Fault, Csv!Replace, Answering
  <2>2. PICK d : /\ calls' = (calls \ {c}) \cup {d} /\ IsCall(d)
                 /\ SameCall(c, d) /\ d.value = c.value /\ d.prev = c.prev /\ d.step = c.step
                 /\ d.at = x /\ d.answer = y
    BY <1>0, <2>1, OneAnswered
  <2>3. ui' = ui /\ clean' = clean
    BY <1>7 DEF Csv!Serve, Csv!Refuse
  <2> QED
    BY <2>2, <2>3 DEF ImportShows, Csv!PreviewFitsFile, Previews, SameCall, AreCalls
<1>8. ASSUME NEW c \in calls,
             \/ Csv!Previewed(c) \/ Csv!PreviewFails(c) \/ Csv!Committed(c) \/ Csv!CommitFails(c)
      PROVE  ImportShows'
  <2>1. calls' = calls \ {c} /\ clean' = clean
    BY <1>8 DEF Csv!Previewed, Csv!PreviewFails, Csv!Committed, Csv!CommitFails, Csv!Ends
  <2>2. /\ ui' = [f \in ImportFields |-> ui'[f]] /\ ui'.inst = ui.inst /\ ui'.file = ui.file
        /\ \/ ~ui'.open
           \/ /\ ui'.open = ui.open
              /\ \/ ui'.uploading = ui.uploading /\ ui'.preview = ui.preview
                 \/ Previews(c) /\ ui'.preview \in {ui.preview, c.item}
    BY <1>0, <1>8, Zenon DEF Csv!Previewed, Csv!PreviewFails, Csv!Committed, Csv!CommitFails,
       Csv!Mounted, ImportFields, Previews
  <2> QED
    BY <1>0, <2>1, <2>2 DEF ImportShows, Csv!PreviewFitsFile, Previews, AreCalls
<1> QED
  BY <1>2, <1>3, <1>4, <1>5, <1>6, <1>7, <1>8 DEF Csv!Next

-----------------------------------------------------------------------------
(* The drive time to a place                                               *)

LEMMA RecordsShowStarts == Lookups!Init => RecordsShow
  BY DEF Lookups!Init, RecordFields, Lookups!Fetch, Lookups!Call, AreCalls, IsCall, CallFields,
     AllFit, Fits, RecordsShow, Fitting

LEMMA RecordsRefetch ==
  ASSUME NEW S, AreCalls(S), calls' = Lookups!Refetching(S)
  PROVE  /\ AreCalls(calls')
         /\ \A e \in calls' : e \in S \/ (e.op = "list" /\ (e.value = "overtaken" \/ e.at = "out"))
<1>1. Lookups!Fetch(None) = Fetch(None)
  BY DEF Lookups!Fetch, Lookups!Call, Fetch, Call
<1>2. \A e \in calls' : \/ e = Fetch(None)
                        \/ e \in S
                        \/ \E c \in S : c.op = "list" /\ e = Late(c)
  BY <1>1, Zenon DEF Lookups!Refetching, Lookups!Overtaken, Late
<1>3. Fetch(None).op = "list" /\ Fetch(None).at = "out"
  BY DEF Fetch, Call
<1>4. \A c \in S : Late(c).op = c.op /\ Late(c).value = "overtaken"
  BY DEF Late, AreCalls, IsCall, CallFields
<1> QED
  BY <1>2, <1>3, <1>4, Refetched

LEMMA RecordsShowSteps ==
  RecordsShow /\ Lookups!Next /\ page' = page => RecordsShow'
<1> SUFFICES ASSUME RecordsShow, Lookups!Next, page' = page PROVE RecordsShow'
  OBVIOUS
<1>0. /\ ui = [f \in RecordFields |-> ui[f]] /\ AreCalls(calls)
      /\ server = [i \in Item |-> server[i]]
  BY DEF RecordsShow
<1>1. ASSUME NEW item, NEW op, NEW value, Lookups!Start(0, item, op, value, None)
      PROVE  \E n : /\ calls' = calls \cup {n} /\ IsCall(n)
                    /\ n.op = op /\ n.value = value /\ n.at = "out"
  BY <1>1, OneOut DEF Lookups!Start, Lookups!Call, Call
\* The form is opened, closed or filled in, or a question is asked.
<1>2. ASSUME calls' = calls, server' = server, ui' = [f \in RecordFields |-> ui'[f]],
             ui'.shown = ui.shown, ui'.lookup = ui.lookup,
             \/ UNCHANGED <<ui.open, ui.main, ui.drive, ui.touched, ui.warned, clean>>
             \/ ~ui'.open /\ clean' = clean
             \/ /\ Lookups!Located /\ clean' => clean /\ ~ui.lookup
                /\ Lookups!Located /\ clean' /\ ui'.open =>
                      Fits(ui') /\ (ui'.touched => ui'.drive = "typed")
      PROVE  RecordsShow'
  <2> USE <1>2
  <2> SUFFICES ASSUME (Lookups!Located /\ clean)' PROVE Fitting'
    BY <1>0 DEF RecordsShow
  <2>1. Fitting
    BY Zenon DEF RecordsShow, Lookups!Located
  <2> USE <2>1
  <2>2. CASE UNCHANGED <<ui.open, ui.main, ui.drive, ui.touched, ui.warned, clean>>
    BY <2>2 DEF Fitting, Fits, AllFit
  <2>3. CASE ~ui'.open
    BY <2>3 DEF Fitting, Fits, AllFit
  <2>4. CASE ~ui.lookup /\ (ui'.open => Fits(ui') /\ (ui'.touched => ui'.drive = "typed"))
    BY <2>4 DEF Fitting, AllFit
  <2> QED
    BY <2>2, <2>3, <2>4, Zenon DEF Lookups!Located
<1>3. CASE Lookups!CloseForm \/ Lookups!CancelDelete \/ \E i \in Item : Lookups!OpenDelete(i)
  <2>1. calls' = calls /\ server' = server /\ clean' = clean
    BY <1>3 DEF Lookups!CloseForm, Lookups!CancelDelete, Lookups!OpenDelete
  <2>2. /\ ui' = [f \in RecordFields |-> ui'[f]] /\ ui'.shown = ui.shown /\ ui'.lookup = ui.lookup
        /\ ~ui'.open \/ UNCHANGED <<ui.open, ui.main, ui.drive, ui.touched, ui.warned>>
    BY <1>0, <1>3, Zenon DEF Lookups!CloseForm, Lookups!CancelDelete, Lookups!OpenDelete,
       Lookups!Closed, RecordFields
  <2> QED
    BY <1>2, <2>1, <2>2
<1>4. CASE Lookups!OpenNew \/ \E i \in Item : Lookups!OpenEdit(i)
  <2>1. /\ calls' = calls /\ server' = server /\ (clean' => clean /\ ~ui.lookup)
    BY <1>4, Zenon DEF Lookups!OpenNew, Lookups!OpenEdit, Lookups!Opens
  <2>2. PICK i, main, drive : /\ Lookups!Opens(i, main, drive)
                              /\ \/ main = None /\ drive = None
                                 \/ /\ i \in Item /\ ui.shown # None /\ ui.shown[i] # None
                                    /\ main = ui.shown[i].main /\ drive = ui.shown[i].drive
    BY <1>4 DEF Lookups!OpenNew, Lookups!OpenEdit, Lookups!Listed
  <2>3. /\ ui' = [f \in RecordFields |-> ui'[f]] /\ ui'.shown = ui.shown /\ ui'.lookup = ui.lookup
        /\ ui'.main = main /\ ui'.drive = drive /\ ~ui'.touched
    BY <1>0, <2>2, Zenon DEF Lookups!Opens, RecordFields
  <2>4. Lookups!Located /\ clean' => Fits(ui')
    BY <2>1, <2>2, <2>3 DEF RecordsShow, Fitting, AllFit, Fits
  <2> QED
    BY <1>2, <2>1, <2>3, <2>4
<1>5. ASSUME NEW v \in Value, Lookups!TypeMain(v)
      PROVE  RecordsShow'
  <2>1. /\ calls' = calls /\ server' = server /\ (clean' => clean /\ ~Lookups!Located)
    BY <1>5, Zenon DEF Lookups!TypeMain
  <2>2. ui' = [f \in RecordFields |-> ui'[f]] /\ ui'.shown = ui.shown /\ ui'.lookup = ui.lookup
    BY <1>0, <1>5 DEF Lookups!TypeMain, RecordFields
  <2> QED
    BY <1>2, <2>1, <2>2
<1>6. ASSUME NEW d \in {"typed", None}, Lookups!TypeDrive(d)
      PROVE  RecordsShow'
  <2>1. /\ calls' = calls /\ server' = server /\ (clean' => clean /\ ~ui.lookup)
    BY <1>6, Zenon DEF Lookups!TypeDrive
  <2>2. /\ ui' = [f \in RecordFields |-> ui'[f]] /\ ui'.shown = ui.shown /\ ui'.lookup = ui.lookup
        /\ ui'.drive = d /\ (ui'.touched => d # None)
    BY <1>0, <1>6, Zenon DEF Lookups!TypeDrive, RecordFields
  <2>3. Fits(ui') /\ (ui'.touched => ui'.drive = "typed")
    BY <2>2 DEF Fits
  <2> QED
    BY <1>2, <2>1, <2>2, <2>3
<1>7. ASSUME NEW v \in Value, Lookups!SelectPlace(v)
      PROVE  RecordsShow'
  <2>1. server' = server /\ (clean' => clean /\ ~ui.lookup)
    BY <1>7, Zenon DEF Lookups!SelectPlace
  <2> USE <2>1
  <2>2. CASE ui.touched
    BY <1>7, <2>2, <1>0, <1>2 DEF Lookups!SelectPlace, RecordFields, RecordsShow, Fitting,
       Fits
  <2>3. CASE ~ui.touched
    <3>1. /\ ui' = [ui EXCEPT !.main = v, !.lookup = TRUE, !.warned = FALSE] /\ ui.open
          /\ Lookups!Start(0, None, "drive", v, None)
      BY <1>7, <2>3 DEF Lookups!SelectPlace
    <3>2. /\ ui' = [f \in RecordFields |-> ui'[f]] /\ ui'.shown = ui.shown /\ ui'.lookup
          /\ ui'.main = v /\ ~ui'.touched
      BY <1>0, <2>3, <3>1, Zenon DEF RecordFields
    <3>3. PICK n : /\ calls' = calls \cup {n} /\ IsCall(n)
                   /\ n.op = "drive" /\ n.value = v /\ n.at = "out"
      BY <1>1, <3>1
    <3>4. Lookups!Located /\ clean' => Fitting /\ ~ui.lookup
      BY DEF RecordsShow
    <3>5. Lookups!Located /\ clean' => Fitting'
      BY <3>2, <3>3, <3>4 DEF Fitting, AllFit
    <3> QED
      BY <1>0, <3>2, <3>3, <3>5 DEF RecordsShow, AreCalls, Lookups!Located
  <2> QED
    BY <2>2, <2>3
<1>8. CASE Lookups!Submit
  <2>1. /\ ui' = [ui EXCEPT !.saving = TRUE] /\ ui.open /\ ~ui.lookup
        /\ \E item : Lookups!Start(0, item, "save", [main |-> ui.main, drive |-> ui.drive], None)
        /\ server' = server
    BY <1>8 DEF Lookups!Submit
  <2> USE <2>1
  <2>2. clean' => clean /\ ~ui.warned
    BY <1>8, Zenon DEF Lookups!Submit
  <2>3. /\ ui' = [f \in RecordFields |-> ui'[f]] /\ ui'.shown = ui.shown /\ ui'.lookup = ui.lookup
        /\ UNCHANGED <<ui.open, ui.main, ui.drive, ui.touched, ui.warned>>
    BY <1>0, Zenon DEF RecordFields
  <2>4. PICK n : /\ calls' = calls \cup {n} /\ IsCall(n)
                 /\ n.op = "save" /\ n.value = [main |-> ui.main, drive |-> ui.drive] /\ n.at = "out"
    BY <1>1
  <2> USE <2>4
  <2>5. Lookups!Located /\ clean' => Fitting /\ Fits(n.value)
    BY <2>2 DEF RecordsShow, Fitting, Fits
  <2>6. Lookups!Located /\ clean' => Fitting'
    BY <2>3, <2>5 DEF Fitting, AllFit, Fits
  <2> QED
    BY <1>0, <2>3, <2>6 DEF RecordsShow, AreCalls, Lookups!Located
\* Calls come or go that have nothing to do with the form.
<1>9. ASSUME AreCalls(calls'), server' = server, clean' = clean,
             ui' = [f \in RecordFields |-> ui'[f]],
             \A e \in calls' : \/ e \in calls
                               \/ e.op = "delete"
                               \/ e.op = "list" /\ (e.value = "overtaken" \/ e.at = "out"),
             \/ ui'.shown = ui.shown
             \/ \E c \in calls : /\ c.op = "list" /\ c.value = "latest" /\ c.at = "ok"
                                 /\ ui'.shown = c.answer,
             ui'.lookup = ui.lookup,
             ~ui'.open \/ UNCHANGED <<ui.open, ui.main, ui.drive, ui.touched, ui.warned>>
      PROVE  RecordsShow'
  <2> USE <1>9
  <2> SUFFICES ASSUME (Lookups!Located /\ clean)' PROVE Fitting'
    BY <1>0 DEF RecordsShow
  <2>1. Fitting
    BY DEF RecordsShow, Lookups!Located
  <2> USE <2>1
  <2>2. ui'.shown # None => AllFit(ui'.shown)
    BY DEF Fitting
  <2>3. /\ \A e, g \in calls' : e.op = "drive" /\ g.op = "drive" => e = g
        /\ \A e \in calls' : e.op = "save" => Fits(e.value)
        /\ \A e \in calls' : e.op = "list" /\ e.value = "latest" /\ e.at = "ok" => AllFit(e.answer)
    BY DEF Fitting
  <2>4. \A e \in calls' : e.op = "drive" =>
       /\ ui'.lookup /\ e.at \in {"out", "ok", "no"}
       /\ e.at = "ok" => e.answer = e.value
       /\ ui'.open => e.value = ui'.main /\ ~ui'.touched
    BY DEF Fitting
  <2>5. /\ ui'.open /\ ui'.touched => ui'.drive = "typed"
        /\ ui'.open => Fits(ui') \/ ui'.lookup \/ ui'.warned
    BY DEF Fitting, Fits
  <2> QED
    BY <2>2, <2>3, <2>4, <2>5 DEF Fitting, AllFit
<1>10. CASE Lookups!Retry
  BY <1>10, <1>0, <1>9, RecordsRefetch DEF Lookups!Retry
<1>11. CASE Lookups!Delete
  BY <1>11, <1>0, <1>1, <1>9 DEF Lookups!Delete, RecordFields, AreCalls
<1>12. ASSUME NEW c \in calls,
              \/ Lookups!Arrives(c) \/ Lookups!ListFails(c) \/ Lookups!Deleted(c)
              \/ Lookups!DeleteFails(c) \/ Lookups!Saved(c) \/ Lookups!SaveFails(c)
       PROVE  RecordsShow'
  <2> USE <1>12
  <2>1. /\ calls' = calls \ {c} \/ calls' = Lookups!Refetching(calls \ {c})
        /\ UNCHANGED <<server, clean>>
    BY DEF Lookups!Arrives, Lookups!ListArrives, Lookups!ListFails, Lookups!Deleted,
       Lookups!DeleteFails, Lookups!Saved, Lookups!SaveFails, Lookups!Ends, Lookups!EndsAndFetches
  <2>2. AreCalls(calls \ {c})
    BY <1>0 DEF AreCalls
  <2>3. /\ AreCalls(calls')
        /\ \A e \in calls' : \/ e \in calls
                             \/ e.op = "list" /\ (e.value = "overtaken" \/ e.at = "out")
    BY <2>1, <2>2, RecordsRefetch
  <2>4. /\ ui' = [f \in RecordFields |-> ui'[f]] /\ ui'.lookup = ui.lookup
        /\ ~ui'.open \/ UNCHANGED <<ui.open, ui.main, ui.drive, ui.touched, ui.warned>>
    BY <1>0, Zenon DEF Lookups!Arrives, Lookups!ListArrives, Lookups!ListFails, Lookups!Deleted,
       Lookups!DeleteFails, Lookups!Saved, Lookups!SaveFails, Lookups!Closed,
       Lookups!Asked, Lookups!Fills, RecordFields
  <2>5. \/ ui'.shown = ui.shown
        \/ c.op = "list" /\ c.value = "latest" /\ c.at = "ok" /\ ui'.shown = c.answer
    BY <1>0, Zenon DEF Lookups!Arrives, Lookups!ListArrives, Lookups!ListFails, Lookups!Deleted,
       Lookups!DeleteFails, Lookups!Saved, Lookups!SaveFails, Lookups!Closed,
       Lookups!Asked, Lookups!Fills, Lookups!Latest, RecordFields
  <2> QED
    BY <1>9, <2>1, <2>3, <2>4, <2>5
<1>13. ASSUME NEW c \in calls, Lookups!DriveAnswered(c)
       PROVE  RecordsShow'
  <2>1. c.op = "drive" /\ calls' = calls \ {c} /\ UNCHANGED <<server, clean>>
    BY <1>13 DEF Lookups!DriveAnswered, Lookups!Ends
  <2> USE <2>1
  <2>2. /\ ui' = [f \in RecordFields |-> ui'[f]] /\ ui'.shown = ui.shown
        /\ UNCHANGED <<ui.open, ui.main, ui.touched>>
        /\ ui'.drive = IF c.at = "ok" /\ ui.open THEN c.answer ELSE ui.drive
        /\ c.at # "out" /\ (c.at = "no" /\ ui.open => ui'.warned)
    BY <1>0, <1>13, Zenon DEF Lookups!DriveAnswered, RecordFields
  <2> USE <2>2
  <2>3. Lookups!Located /\ clean' => Fitting
    BY DEF RecordsShow
  <2> USE <2>3
  <2>4. Lookups!Located /\ clean' => \A e \in calls' : e.op # "drive"
    BY DEF Fitting
  <2>5. Lookups!Located /\ clean' /\ ui'.open => ~ui'.touched /\ (Fits(ui') \/ ui'.warned)
    BY DEF Fitting, Fits
  <2>6. Lookups!Located /\ clean' => Fitting'
    BY <2>4, <2>5 DEF Fitting, AllFit
  <2> QED
    BY <1>0, <2>6 DEF RecordsShow, AreCalls, Lookups!Located
<1>14. ASSUME NEW c \in calls, Lookups!Serve(c) \/ Lookups!Refuse(c)
       PROVE  RecordsShow'
  <2>1. PICK x, y :
          /\ calls' = (calls \ {c}) \cup {Answering(c, x, y)}
          /\ ui' = ui /\ clean' = clean
          /\ \/ x = "no" /\ server' = server
             \/ c.op = "list" /\ (c.value = "latest" => y = server) /\ server' = server
             \/ c.op = "drive" /\ x = "ok" /\ y = c.value /\ server' = server
             \/ /\ c.op \in {"save", "delete"}
                /\ \E i \in Item :
                     server' = [server EXCEPT ![i] = IF c.op = "save" THEN c.value ELSE None]
    <3>1. CASE Lookups!Serve(c)
      BY <3>1, Zenon DEF Lookups!Serve, Lookups!Listing, Lookups!Latest, Lookups!Written,
         Lookups!Answered, Lookups!Replace, Answering
    <3>2. CASE Lookups!Refuse(c)
      BY <3>2, Zenon DEF Lookups!Refuse, Lookups!Refused, Lookups!Fault, Lookups!Replace, Answering
    <3> QED
      BY <1>14, <3>1, <3>2
  <2> USE <2>1
  <2>2. calls' = (calls \ {c}) \cup {Answering(c, x, y)}
    OBVIOUS
  <2>3. PICK d : /\ calls' = (calls \ {c}) \cup {d} /\ IsCall(d)
                 /\ SameCall(c, d) /\ d.value = c.value /\ d.prev = c.prev /\ d.step = c.step
                 /\ d.at = x /\ d.answer = y
    BY <1>0, <2>2, OneAnswered
  <2> USE <2>3
  <2>4. d.op = c.op
    BY DEF SameCall
  <2>5. /\ server' = [i \in Item |-> server'[i]]
        /\ Lookups!Located /\ clean => AllFit(server')
    BY <1>0 DEF RecordsShow, Fitting, AllFit
  <2>6. ASSUME Lookups!Located, clean
        PROVE  Fitting'
    BY <2>6, <2>4, <2>5 DEF RecordsShow, Fitting, Fits
  <2> QED
    BY <1>0, <2>5, <2>6 DEF RecordsShow, AreCalls, Lookups!Located
<1> QED
  BY <1>3, <1>4, <1>5, <1>6, <1>7, <1>8, <1>10, <1>11, <1>12, <1>13, <1>14
     DEF Lookups!Next, Lookups!User

-----------------------------------------------------------------------------
(* The conflicts of a schedule form                                        *)

LEMMA FormShowsStarts == Form!Init => FormShows
<1> SUFFICES ASSUME Form!Init PROVE FormShows
  OBVIOUS
<1>1. ui = [f \in FormFields |-> ui[f]] /\ ui.inst = None /\ ~ui.due
  BY Zenon DEF Form!Init, Form!Shut, Form!Form, FormFields
<1>2. calls = {} /\ made = 0
  BY DEF Form!Init
<1> QED
  BY <1>1, <1>2 DEF FormShows, AreCalls

LEMMA FormShowsSteps == FormShows /\ Form!Next => FormShows'
<1> SUFFICES ASSUME FormShows, Form!Next PROVE FormShows'
  OBVIOUS
<1>0. ui = [f \in FormFields |-> ui[f]] /\ AreCalls(calls) /\ made \in Nat
  BY DEF FormShows
<1> USE <1>0
<1>2. ASSUME NEW inst, NEW item, NEW op, NEW value, NEW prev,
             Form!Start(inst, item, op, value, prev)
      PROVE  /\ made' \in Nat
             /\ \E n : /\ calls' = calls \cup {n} /\ IsCall(n)
                       /\ n.inst = inst /\ n.op = op
  <2>1. calls' = calls \cup {Call(made, inst, item, op, value, prev)} /\ made' = made + 1
    BY <1>2 DEF Form!Start, Form!Counts, Form!Call, Call
  <2> QED
    BY <2>1, OneOut
<1>3. ASSUME NEW c \in calls, c.op \in {"check", "leg"} PROVE ui.inst # None
  BY <1>3 DEF FormShows
\* A form that closes takes its checks along.
<1>4. ASSUME ui' = Form!Shut, calls' \subseteq Form!Outlives, made' = made
      PROVE  FormShows'
  <2> USE <1>4
  <2>1. ui' = [f \in FormFields |-> ui'[f]] /\ ui'.inst = None /\ ~ui'.due
    BY Zenon DEF Form!Shut, Form!Form, FormFields
  <2>2. AreCalls(calls') /\ \A c \in calls' : c.op \notin {"check", "leg"}
    BY DEF Form!Outlives, AreCalls
  <2> QED
    BY <2>1, <2>2 DEF FormShows
<1>5. ASSUME NEW s \in Value \cup {None}, NEW e \in Single \cup {None}, Form!Open(e, s)
      PROVE  FormShows'
  <2>1. ui' = Form!Form(made, e, s) /\ made' = made + 1 /\ calls' = calls /\ ui.inst = None
    BY <1>5 DEF Form!Open, Form!Counts
  <2> USE <2>1
  <2>2. ui' = [f \in FormFields |-> ui'[f]] /\ ui'.inst = made /\ ui'.due /\ made # None
    BY NoneIsNothing, Zenon DEF Form!Form, FormFields
  <2>3. \A c \in calls' : c.op \notin {"check", "leg"}
    BY <1>3
  <2> QED
    BY <2>2, <2>3 DEF FormShows
<1>6. CASE Form!Close \/ \E b \in BOOLEAN : Form!AnswerDiscard(b)
  BY <1>6, <1>4 DEF Form!Close, Form!AnswerDiscard, FormFields, FormShows
<1>7. ASSUME NEW s \in Value \cup {None}, Form!Change(s)
      PROVE  FormShows'
  <2>1. calls' = calls /\ made' = made /\ ui' = [ui EXCEPT !.slot = s, !.due = TRUE, !.override = FALSE]
    BY <1>7 DEF Form!Change
  <2>2. ui' = [f \in FormFields |-> ui'[f]] /\ ui'.inst = ui.inst /\ ui'.due
    BY <2>1, Zenon DEF FormFields
  <2>3. ui.inst # None
    BY <1>7 DEF Form!Change, Form!Editable
  <2> QED
    BY <2>1, <2>2, <2>3, Zenon DEF FormShows
<1>8. CASE (\E scope \in {"this", "future"} : Form!PickScope(scope)) \/ Form!CancelSeries
  BY <1>8 DEF Form!PickScope, Form!CancelSeries, FormFields, FormShows
<1>9. ASSUME NEW inst, NEW s
      PROVE  \E n : n = Form!Check(inst, s) /\ IsCall(n) /\ n.op = "check" /\ n.inst = inst /\ n.value = s
  <2>1. PICK n : n = Form!Check(inst, s)
    OBVIOUS
  <2>2. IsCall(n) /\ n.op = "check" /\ n.inst = inst /\ n.value = s
    BY <2>1, Zenon DEF Form!Check, Form!Fetch, Form!Call, IsCall, CallFields
  <2> QED
    BY <2>1, <2>2
\* No check is out, or else two overlap.
<1>10. ASSUME ui'.inst = ui.inst, ui'.overlap = (ui.overlap \/ Form!Checking), ~ui'.overlap
       PROVE  \A c \in calls : c.op # "check"
  BY <1>10, Zenon DEF FormShows, Form!Checking, Form!Waiting
<1>11. CASE Form!Debounced \/ Form!RetryPreview
  <2>0. /\ made' = made /\ Form!FetchPreview(ui.slot) /\ ui.inst # None
    BY <1>11 DEF Form!Debounced, Form!RetryPreview, Form!Editable, FormShows
  <2> USE <2>0
  <2>1. /\ ui' = [f \in FormFields |-> ui'[f]] /\ ui'.inst = ui.inst /\ ui'.slot = ui.slot
        /\ ui'.overlap = (ui.overlap \/ Form!Checking)
    BY Zenon DEF Form!FetchPreview, FormFields
  <2>2. CASE ui.slot = None
    <3>1. calls' = calls /\ ui'.shown = None
      BY <2>2, Zenon DEF Form!FetchPreview, FormFields
    <3> QED
      BY <1>10, <2>1, <2>2, <3>1 DEF FormShows
  <2>3. CASE ui.slot # None
    BY <2>3, <1>9, <1>10, <2>1 DEF Form!FetchPreview, FormShows, AreCalls
  <2> QED
    BY <2>2, <2>3
<1>12. ASSUME NEW c \in calls, Form!Previewed(c)
       PROVE  FormShows'
  <2>1. c.op = "check" /\ calls' = calls \ {c} /\ made' = made
    BY <1>12 DEF Form!Previewed, Form!Ends
  <2>2. /\ ui' = [f \in FormFields |-> ui'[f]] /\ ui'.inst = ui.inst /\ ui'.slot = ui.slot
        /\ ui'.due = ui.due /\ ui'.overlap = ui.overlap
        /\ ui'.failed \/ ui'.shown = c.value
    BY <1>12, Zenon DEF Form!Previewed, FormFields
  <2> QED
    BY <2>1, <2>2 DEF FormShows, AreCalls
<1>13. ASSUME NEW c \in calls, Form!LegSet(c)
       PROVE  FormShows'
  <2>1. c.op = "leg" /\ made' = made /\ ui.inst # None /\ c.inst = ui.inst
    BY <1>13 DEF Form!LegSet, FormShows
  <2>2. CASE calls' = calls \ {c} /\ ui' = ui
    BY <2>1, <2>2 DEF FormShows, AreCalls
  <2>3. CASE /\ ui' = [ui EXCEPT !.overlap = @ \/ Form!Checking \/ ui.slot # c.value]
             /\ calls' = (calls \ {c}) \cup {Form!Check(c.inst, c.value)}
    <3>1. /\ ui' = [f \in FormFields |-> ui'[f]] /\ ui'.inst = ui.inst /\ ui'.slot = ui.slot
          /\ ui'.overlap = (ui.overlap \/ Form!Checking \/ ui.slot # c.value)
      BY <2>3 DEF FormFields
    <3>2. ~ui'.overlap => c.value = ui.slot /\ \A d \in calls : d.op # "check"
      BY <3>1, Zenon DEF FormShows, Form!Checking, Form!Waiting
    <3>3. PICK n : /\ n = Form!Check(c.inst, c.value) /\ IsCall(n)
                   /\ n.op = "check" /\ n.inst = c.inst /\ n.value = c.value
      BY <1>9
    <3>4. calls' = (calls \ {c}) \cup {n}
      BY <2>3, <3>3
    <3> QED
      BY <2>1, <3>1, <3>2, <3>3, <3>4 DEF FormShows, AreCalls
  <2> QED
    BY <1>13, <2>2, <2>3 DEF Form!LegSet, Form!Ends, Form!Replace
\* What goes out is no check.
<1>14. ASSUME NEW op, \E item, value, prev : Form!Start(ui.inst, item, op, value, prev), op # "check",
              op = "leg" => ui.inst # None,
              ui' = [f \in FormFields |-> ui'[f]], ui'.inst = ui.inst, ui'.slot = ui.slot,
              ui'.due = ui.due, ui'.shown = ui.shown, ui'.failed = ui.failed,
              ui'.overlap = ui.overlap
       PROVE  FormShows'
  BY <1>2, <1>14 DEF FormShows, AreCalls
<1>15. CASE Form!OverrideLeg
  <2>1. ui' = ui /\ ui.inst # None /\ Form!Start(ui.inst, None, "leg", ui.slot, None)
    BY <1>15 DEF Form!OverrideLeg, Form!Editable
  <2> QED
    BY <1>14, <2>1, Zenon
<1>16. CASE Form!Submit
  BY <1>16, <1>14 DEF Form!Submit, FormFields
<1>17. CASE Form!Delete \/ Form!DeleteSeries
  BY <1>17, <1>14 DEF Form!Delete, Form!DeleteSeries, FormFields, FormShows
<1>18. ASSUME NEW c \in calls, Form!Saved(c)
       PROVE  FormShows'
  BY <1>4, <1>18 DEF Form!Saved
<1>19. ASSUME NEW c \in calls, Form!SaveFails(c) \/ Form!DeleteFails(c)
       PROVE  FormShows'
  <2>1. calls' = calls \ {c} /\ made' = made /\ c.op # "check"
    BY <1>19 DEF Form!SaveFails, Form!DeleteFails, Form!Ends
  <2>2. /\ ui' = [f \in FormFields |-> ui'[f]] /\ ui'.inst = ui.inst /\ ui'.slot = ui.slot
        /\ ui'.due = ui.due /\ ui'.shown = ui.shown /\ ui'.failed = ui.failed
        /\ ui'.overlap = ui.overlap
    BY <1>19, Zenon DEF Form!SaveFails, Form!DeleteFails, FormFields
  <2> QED
    BY <2>1, <2>2 DEF FormShows, AreCalls
<1> QED
  BY <1>5, <1>6, <1>7, <1>8, <1>11, <1>12, <1>13, <1>15, <1>16, <1>17, <1>18, <1>19
     DEF Form!Next

-----------------------------------------------------------------------------
(* The warnings of a funnel                                                *)

LEMMA LoadIsOut ==
  ASSUME NEW n, NEW c, c = Funnels!Load(n, Funnels!Parts)
  PROVE  IsCall(c) /\ c.op = "list" /\ c.at = "out"
BY DEF Funnels!Load, Funnels!Call, IsCall, CallFields

LEMMA OutcomesShowStarts == Funnels!Init => OutcomesShow
  BY LoadIsOut DEF Funnels!Init, OutcomesFields, OutcomesShow, Warns, AreCalls, IsChange

LEMMA OutcomesShowShows == OutcomesShow => Funnels!ForcedBackAsShown
<1> SUFFICES ASSUME OutcomesShow, clean PROVE Funnels!ForcedBackAsShown
  BY DEF Funnels!ForcedBackAsShown
<1>1. Warns
  BY DEF OutcomesShow
<1>2. ASSUME ui.warning # None
      PROVE  server[ui.warning.item] = ui.warning.from \/ Funnels!Changing(ui.warning.item) # {}
  BY <1>1, <1>2 DEF Warns, Funnels!Changing, IsChange
<1>3. \A c \in calls : c.op = "force" /\ c.at \in {"out", "read"} => server[c.item] = c.prev
  BY <1>1 DEF Warns, Stands
<1> QED
  BY <1>2, <1>3 DEF Funnels!ForcedBackAsShown

LEMMA OutcomesShowSteps == OutcomesShow /\ Funnels!Next => OutcomesShow'
<1> SUFFICES ASSUME OutcomesShow, Funnels!Next PROVE OutcomesShow'
  OBVIOUS
<1>0. /\ ui = [f \in OutcomesFields |-> ui[f]] /\ AreCalls(calls)
      /\ server = [i \in Item |-> server[i]]
  BY DEF OutcomesShow
\* What is not about the change of a status.
<1>1. ASSUME ui' = [f \in OutcomesFields |-> ui'[f]], AreCalls(calls'), server' = server,
             clean' => clean, ui'.warning \in {ui.warning, None},
             \A c \in calls' :
               c \in calls \/ (~IsChange(c) /\ c.at \notin {"read", "warn"}),
             \A c \in calls : c \in calls' \/ ~IsChange(c)
      PROVE  OutcomesShow'
  BY <1>1, <1>0 DEF OutcomesShow, Warns, Stands, IsChange
<1>2. ASSUME NEW op, NEW item, NEW value, NEW prev, Funnels!Start(0, item, op, value, prev)
      PROVE  \E n : /\ calls' = calls \cup {n} /\ IsCall(n)
                    /\ n.item = item /\ n.op = op /\ n.value = value /\ n.prev = prev
                    /\ n.at = "out"
  <2>1. calls' = calls \cup {Call(made, 0, item, op, value, prev)}
    BY <1>2 DEF Funnels!Start, Funnels!Call, Call
  <2> QED
    BY <2>1, OneOut
<1>3. CASE \/ Funnels!ToggleQuick \/ Funnels!OpenBulk \/ Funnels!Preview
           \/ Funnels!BackToText \/ Funnels!CloseBulk \/ Funnels!CancelWarning
  BY <1>3, <1>0, <1>1 DEF Funnels!ToggleQuick, Funnels!OpenBulk, Funnels!Preview,
     Funnels!BackToText, Funnels!CloseBulk, Funnels!Edits, Funnels!CancelWarning, OutcomesFields
<1>4. CASE Funnels!QuickAdd \/ Funnels!BulkAdd
  BY <1>4, <1>0, <1>2, <1>1 DEF Funnels!QuickAdd, Funnels!BulkAdd, OutcomesFields, AreCalls,
     IsChange
\* A change goes out when no other is under way for the attendee.
<1>5. ASSUME NEW i \in Item, NEW s \in Funnels!Statuses, Funnels!Change(i, s)
      PROVE  OutcomesShow'
  <2>1. /\ ui' = ui /\ server' = server /\ Funnels!Start(0, i, "put", s, None)
        /\ ui.warning = None
        /\ clean' => clean /\ Funnels!Changing(i) = {}
    BY <1>5, Zenon DEF Funnels!Change, Funnels!Behind
  <2> USE <2>1
  <2>2. PICK n : calls' = calls \cup {n} /\ IsCall(n) /\ n.item = i /\ n.op = "put" /\ n.at = "out"
    BY <1>2
  <2>3. clean' => clean /\ \A c \in calls : IsChange(c) => c.item # i
    BY DEF Funnels!Changing, IsChange
  <2>4. clean' => Warns'
    BY <2>2, <2>3 DEF OutcomesShow, Warns, Stands
  <2> QED
    BY <1>0, <2>2, <2>4 DEF OutcomesShow, IsChange, AreCalls
<1>6. CASE Funnels!Confirm
  <2>1. /\ ui' = ui /\ server' = server /\ ui.warning # None
        /\ Funnels!Start(0, ui.warning.item, "force", ui.warning.to, ui.warning.from)
        /\ clean' => clean /\ Funnels!Changing(ui.warning.item) = {}
    BY <1>6, Zenon DEF Funnels!Confirm
  <2> USE <2>1
  <2>2. PICK n : /\ calls' = calls \cup {n} /\ IsCall(n) /\ n.item = ui.warning.item
                 /\ n.op = "force" /\ n.prev = ui.warning.from /\ n.at = "out"
    BY <1>2
  <2>3. clean' => clean /\ \A c \in calls : IsChange(c) => c.item # ui.warning.item
    BY DEF Funnels!Changing, IsChange
  <2>4. clean' => Stands(ui.warning.item, ui.warning.from)
    BY <2>3 DEF OutcomesShow, Warns, Stands
  <2>5. clean' => Warns'
    BY <2>2, <2>3, <2>4 DEF OutcomesShow, Warns, Stands, IsChange
  <2> QED
    BY <1>0, <2>2, <2>5 DEF OutcomesShow, IsChange, AreCalls
\* A call that ends: a change leaves the warnings to which it belongs.
<1>7. ASSUME NEW c, \/ calls' = calls \ {c}
                    \/ \E n : Funnels!EndsAndLoads(c, n, Funnels!Parts)
      PROVE  /\ AreCalls(calls')
             /\ \A e \in calls' :
                  (e \in calls /\ e # c) \/ (~IsChange(e) /\ e.at \notin {"read", "warn"})
             /\ \A e \in calls : e = c \/ e \in calls'
  BY <1>7, LoadIsOut, <1>0 DEF Funnels!EndsAndLoads, AreCalls, IsChange
<1>8. ASSUME NEW c \in calls,
             \/ Funnels!Arrives(c) \/ Funnels!LoadFails(c) \/ Funnels!Added(c) \/ Funnels!AddFails(c)
      PROVE  OutcomesShow'
  <2> USE <1>8
  <2>1. /\ \/ calls' = calls \ {c}
           \/ \E n : Funnels!EndsAndLoads(c, n, Funnels!Parts)
        /\ ~IsChange(c) /\ server' = server
    BY DEF Funnels!Added, Funnels!AddFails, Funnels!Arrives, Funnels!Loaded,
       Funnels!LoadFails, Funnels!Ends, IsChange
  <2>2. ui' = [f \in OutcomesFields |-> ui'[f]] /\ ui'.warning = ui.warning
    <3>1. CASE Funnels!Arrives(c) \/ Funnels!LoadFails(c)
      BY <1>0, <3>1, Zenon DEF Funnels!Arrives, Funnels!Loaded, Funnels!LoadFails, OutcomesFields
    <3>2. CASE Funnels!Added(c) \/ Funnels!AddFails(c)
      BY <1>0, <3>2, Zenon DEF Funnels!Added, Funnels!AddFails, OutcomesFields
    <3> QED
      BY <3>1, <3>2
  <2>3. clean' => clean
    BY Zenon DEF Funnels!Added, Funnels!AddFails, Funnels!Arrives, Funnels!Loaded,
       Funnels!LoadFails
  <2> QED
    BY <1>1, <1>7, <2>1, <2>2, <2>3, Zenon
<1>9. ASSUME NEW c \in calls, Funnels!Warned(c)
      PROVE  OutcomesShow'
  BY <1>9, <1>0 DEF Funnels!Warned, Funnels!Ends, OutcomesShow, OutcomesFields, Warns, Stands,
     IsChange, AreCalls
<1>10. ASSUME NEW c \in calls, Funnels!Changed(c) \/ Funnels!ChangeFails(c)
       PROVE  OutcomesShow'
  <2>1. /\ \/ calls' = calls \ {c}
           \/ \E n : Funnels!EndsAndLoads(c, n, Funnels!Parts)
        /\ IsChange(c) /\ server' = server /\ clean' = clean
    BY <1>10 DEF Funnels!Changed, Funnels!ChangeFails, Funnels!Ends, IsChange
  <2> USE <2>1
  <2>2. /\ ui' = [f \in OutcomesFields |-> ui'[f]]
        /\ IF c.op = "force" THEN ui'.warning = None ELSE ui'.warning = ui.warning
    BY <1>0, <1>10, Zenon DEF Funnels!Changed, Funnels!ChangeFails, OutcomesFields
  <2>3. /\ AreCalls(calls')
        /\ \A e \in calls' :
             (e \in calls /\ e # c) \/ (~IsChange(e) /\ e.at \notin {"read", "warn"})
        /\ \A e \in calls : e = c \/ e \in calls'
    BY <1>7
  <2>4. clean' => Warns'
    BY <2>2, <2>3 DEF OutcomesShow, Warns, Stands, IsChange
  <2> QED
    BY <1>0, <2>2, <2>3, <2>4 DEF OutcomesShow, IsChange
\* A call that goes on.
<1>11. ASSUME NEW c \in calls, NEW d, calls' = (calls \ {c}) \cup {d}, IsCall(d), SameCall(c, d),
              d.prev = c.prev, ui' = ui, clean' = clean, server' = [i \in Item |-> server'[i]],
              d.at = "read" => IsChange(c), d.at = "warn" => c.op = "put",
              d.at = "warn" => Stands(c.item, d.answer),
              d.at \in {"out", "read"} => c.at = "out",
              \A i \in Item :
                \/ server'[i] = server[i]
                \/ IsChange(c) /\ i = c.item /\ d.at = "ok"
                \/ server[i] \notin Funnels!Statuses
       PROVE  OutcomesShow'
  <2> USE <1>11
  <2>1. AreCalls(calls')
    BY <1>0 DEF AreCalls
  <2>2. ASSUME clean'
        PROVE  Warns'
    <3>1. Warns /\ SameCall(c, d)
      BY <2>2 DEF OutcomesShow
    <3> USE <3>1
    <3>2. \A e, g \in calls' : IsChange(e) /\ IsChange(g) /\ e.item = g.item => e = g
      BY DEF Warns, SameCall, IsChange
    <3>3. ASSUME NEW e \in calls', e.at = "warn"
          PROVE  Stands(e.item, e.answer)'
      BY <3>3 DEF OutcomesShow, Warns, SameCall, IsChange, Stands
    <3>4. ASSUME NEW e \in calls', e.op = "force", e.at \in {"out", "read"}
          PROVE  Stands(e.item, e.prev)'
      BY <3>4 DEF OutcomesShow, Warns, SameCall, IsChange, Stands
    <3>5. ASSUME ui.warning # None
          PROVE  /\ \/ server'[ui.warning.item] = ui.warning.from
                    \/ \E e \in calls' : IsChange(e) /\ e.item = ui.warning.item
                 /\ \A e \in calls' : IsChange(e) /\ e.item = ui.warning.item => e.op = "force"
      BY <3>5 DEF OutcomesShow, Warns, SameCall, IsChange
    <3> QED
      BY <3>2, <3>3, <3>4, <3>5 DEF Warns
  <2> QED
    BY <2>1, <2>2 DEF OutcomesShow, SameCall, IsChange
<1>12. ASSUME NEW c \in calls, NEW x, NEW y,
              \/ Funnels!Replace(c, Answering(c, x, y))
              \/ Funnels!Replace(c, Filling(c, x, y))
              \/ Funnels!Replace(c, Reading(c, x)) /\ y = c.answer
       PROVE  \E d : /\ calls' = (calls \ {c}) \cup {d} /\ IsCall(d) /\ SameCall(c, d)
                     /\ d.prev = c.prev /\ d.at = x /\ d.answer = y
  <2>1. PICK d : /\ Funnels!Replace(c, d)
                 /\ \/ d = Answering(c, x, y)
                    \/ d = Filling(c, x, y)
                    \/ d = Reading(c, x) /\ y = c.answer
    BY <1>12
  <2>2. IsCall(d) /\ SameCall(c, d) /\ d.prev = c.prev /\ d.at = x /\ d.answer = y
    BY <1>0, <2>1, Zenon DEF AreCalls, IsCall, CallFields, SameCall, Answering, Filling, Reading
  <2> QED
    BY <2>1, <2>2 DEF Funnels!Replace
<1>13. ASSUME NEW c \in calls, Funnels!Serve(c)
       PROVE  OutcomesShow'
  <2>0. ui' = ui /\ clean' = clean /\ c.at = "out"
    BY <1>13 DEF Funnels!Serve
  <2>1. CASE Funnels!ServeLoad(c)
    <3>1. PICK x, y : /\ Funnels!Replace(c, Filling(c, x, y))
                      /\ x \in {"ok", "out"}
      BY <2>1, Zenon DEF Funnels!ServeLoad, Funnels!ReadPart, Filling
    <3>2. server' = server /\ x \in {"ok", "out"}
      BY <2>1, <3>1 DEF Funnels!ServeLoad
    <3>3. PICK d : /\ calls' = (calls \ {c}) \cup {d} /\ IsCall(d) /\ SameCall(c, d)
                   /\ d.prev = c.prev /\ d.at = x
      BY <1>12, <3>1
    <3> QED
      BY <1>0, <1>11, <2>0, <3>2, <3>3
  <2>2. CASE Funnels!ReadStatus(c)
    <3>1. server' = server /\ IsChange(c)
      BY <2>2 DEF Funnels!ReadStatus, IsChange
    <3>2. CASE /\ c.op = "put" /\ Funnels!Backward(server[c.item], c.value)
               /\ Funnels!Replace(c, Answering(c, "warn", server[c.item]))
      BY <3>2, <1>12, <1>0, <1>11, <2>0, <3>1 DEF Funnels!Backward, Funnels!Statuses, Stands
    <3>3. CASE Funnels!Replace(c, Reading(c, "read"))
      <4>1. PICK d : /\ calls' = (calls \ {c}) \cup {d} /\ IsCall(d) /\ SameCall(c, d)
                     /\ d.prev = c.prev /\ d.at = "read"
        BY <1>12, <3>3
      <4> QED
        BY <1>0, <1>11, <2>0, <3>1, <4>1
    <3> QED
      BY <2>2, <3>2, <3>3 DEF Funnels!ReadStatus, Answering, Reading
  <2>3. CASE Funnels!Insert(c)
    <3>1. PICK new \in SUBSET {i \in Item : server[i] = None} :
            server' = [i \in Item |-> IF i \in new THEN "attended" ELSE server[i]]
      BY <2>3 DEF Funnels!Insert
    <3>2. /\ server' = [i \in Item |-> server'[i]]
          /\ \A i \in Item : server'[i] = server[i] \/ server[i] \notin Funnels!Statuses
      BY <3>1, NoneIsNoStatus
    <3>3. Funnels!Replace(c, Answering(c, "ok", None))
      BY <2>3 DEF Funnels!Insert, Funnels!Answered, Answering
    <3>4. PICK d : /\ calls' = (calls \ {c}) \cup {d} /\ IsCall(d) /\ SameCall(c, d)
                   /\ d.prev = c.prev /\ d.at = "ok"
      BY <1>12, <3>3
    <3> QED
      BY <1>11, <2>0, <3>2, <3>4
  <2> QED
    BY <1>13, <2>1, <2>2, <2>3 DEF Funnels!Serve
<1>14. ASSUME NEW c \in calls, Funnels!WriteStatus(c) \/ Funnels!Refuse(c)
       PROVE  OutcomesShow'
  <2>0. ui' = ui /\ clean' = clean
    BY <1>14 DEF Funnels!WriteStatus, Funnels!Refuse
  <2>1. CASE Funnels!WriteStatus(c)
    <3>1. /\ server' = [server EXCEPT ![c.item] = c.value] /\ c.at = "read"
          /\ Funnels!Replace(c, Answering(c, "ok", None))
      BY <2>1 DEF Funnels!WriteStatus, Funnels!Answered, Answering
    <3> USE <3>1
    <3>2. IsChange(c)
      BY DEF OutcomesShow
    <3>3. /\ server' = [i \in Item |-> server'[i]]
          /\ \A i \in Item : server'[i] = server[i] \/ i = c.item
      BY <1>0
    <3>4. PICK d : /\ calls' = (calls \ {c}) \cup {d} /\ IsCall(d) /\ SameCall(c, d)
                   /\ d.prev = c.prev /\ d.at = "ok"
      BY <1>12
    <3> QED
      BY <1>11, <2>0, <3>2, <3>3, <3>4
  <2>2. CASE Funnels!Refuse(c)
    <3>1. server' = server /\ Funnels!Replace(c, Answering(c, "no", None))
      BY <2>2 DEF Funnels!Refuse, Funnels!Refused, Funnels!Fault, Answering
    <3>2. PICK d : /\ calls' = (calls \ {c}) \cup {d} /\ IsCall(d) /\ SameCall(c, d)
                   /\ d.prev = c.prev /\ d.at = "no"
      BY <1>12, <3>1
    <3> QED
      BY <1>0, <1>11, <2>0, <3>1, <3>2
  <2> QED
    BY <1>14, <2>1, <2>2
<1>15. CASE Funnels!User
  BY <1>3, <1>4, <1>5, <1>6, <1>15 DEF Funnels!User
<1> QED
  BY <1>8, <1>9, <1>10, <1>13, <1>14, <1>15 DEF Funnels!Next

-----------------------------------------------------------------------------
(* The text of a conversation                                              *)

LEMMA ThreadsShowStarts == Threads!Init => ThreadsShow
<1> SUFFICES ASSUME Threads!Init PROVE ThreadsShow
  OBVIOUS
<1>1. ui = [f \in ThreadsFields |-> ui[f]] /\ ui.draft = None /\ ui.delivery = None
  <2>1. PICK p, x, y : ui = [active |-> p, cache |-> x, failed |-> y, inst |-> 0,
                             draft |-> None, sending |-> FALSE, delivery |-> None]
    BY Zenon DEF Threads!Init
  <2> QED
    BY <2>1 DEF ThreadsFields
<1>2. \A c \in calls : IsCall(c) /\ c.op = "list"
  BY IsAsk DEF Threads!Init
<1> QED
  BY <1>1, <1>2 DEF ThreadsShow, AreCalls

\* What is not rendered any more loses its texts.
LEMMA TextsRender ==
  ASSUME NEW u, u = [f \in ThreadsFields |-> u[f]], Threads!Renders(u)
  PROVE  /\ ui' = [f \in ThreadsFields |-> ui'[f]] /\ ui'.active = u.active
         /\ IF Threads!Rendered(u) THEN ui' = u
                                 ELSE ui'.draft = None /\ ui'.delivery = None
         /\ ui'.draft \in {u.draft, None} /\ ui'.delivery \in {u.delivery, None}
<1>1. \/ Threads!Rendered(u) /\ ui' = u
      \/ /\ ~Threads!Rendered(u)
         /\ ui' = [u EXCEPT !.draft = None, !.sending = FALSE, !.delivery = None, !.inst = made]
  BY DEF Threads!Renders
<1> QED
  BY <1>1, Zenon DEF ThreadsFields

\* A fetch that overtakes others leaves the messages that are being sent.
LEMMA SendsRefetch ==
  ASSUME NEW S, AreCalls(S), NEW p, NEW f, IsCall(f), f.op # "send",
         calls' = Threads!Refetching(p, S, f)
  PROVE  AreCalls(calls') /\ \A c \in calls' : c \in S \/ c.op # "send"
<1>1. \A e \in calls' : e = f \/ e \in S \/ \E c \in S : e = Late(c) /\ c.op = "refresh"
  BY Zenon DEF Threads!Refetching, Threads!Fetches, Late
<1>2. ASSUME NEW c \in S
      PROVE  IsCall(Late(c)) /\ Late(c).op = c.op
  BY Zenon DEF AreCalls, IsCall, CallFields, Late
<1> QED
  BY <1>1, <1>2 DEF AreCalls

LEMMA ThreadsShowSteps == ThreadsShow /\ Threads!Next => ThreadsShow'
<1> SUFFICES ASSUME ThreadsShow, Threads!Next PROVE ThreadsShow'
  OBVIOUS
<1>0. ui = [f \in ThreadsFields |-> ui[f]] /\ AreCalls(calls)
  BY DEF ThreadsShow
\* The same conversation, with its texts or without.
<1>1. ASSUME ui' = [f \in ThreadsFields |-> ui'[f]], AreCalls(calls'), clean' = clean,
             ui'.active = ui.active,
             ui'.draft \in {ui.draft, None}, ui'.delivery \in {ui.delivery, None},
             \A c \in calls' : c \in calls \/ c.op # "send"
      PROVE  ThreadsShow'
  BY <1>1 DEF ThreadsShow
<1>2. ASSUME NEW p \in Item, Threads!Choose(p)
      PROVE  ThreadsShow'
  BY <1>2, <1>0, IsAsk, TextsRender DEF Threads!Choose, ThreadsFields, AreCalls, ThreadsShow
<1>3. CASE Threads!Retry
  BY <1>3, <1>0, IsAsk, SendsRefetch, <1>1 DEF Threads!Retry
<1>4. CASE Threads!Write
  BY <1>0, <1>4 DEF Threads!Write, ThreadsFields, ThreadsShow
<1>5. CASE Threads!Send
  <2>1. /\ ui' = [f \in ThreadsFields |-> ui'[f]] /\ ui'.active = ui.active
        /\ ui'.draft = ui.draft /\ ui'.delivery = ui.delivery
    BY <1>0, <1>5, Zenon DEF Threads!Send, ThreadsFields
  <2>2. /\ calls' = calls \cup {Call(made, ui.inst, ui.active, "send", ui.draft, None)}
        /\ ui.draft # None /\ clean' = clean
    BY <1>5 DEF Threads!Send, Threads!Start, Threads!Call, Call
  <2>3. PICK n : /\ calls' = calls \cup {n} /\ IsCall(n)
                 /\ n.item = ui.active /\ n.op = "send" /\ n.value = ui.draft
    BY <2>2, OneOut
  <2> QED
    BY <1>0, <2>1, <2>2, <2>3 DEF ThreadsShow, AreCalls
<1>6. ASSUME NEW c \in calls, Threads!Sent(c)
      PROVE  ThreadsShow'
  <2>1. PICK f : f = Call(c.id, c.inst, ui.active, "refresh", "latest", None)
    OBVIOUS
  <2>2. IsCall(f) /\ f.op = "refresh"
    BY <2>1, NewCall
  <2>3. calls' = Threads!Refetching(ui.active, calls \ {c}, f)
    BY <1>6, <2>1 DEF Threads!Sent, Threads!Call, Call
  <2>4. AreCalls(calls') /\ \A d \in calls' : d \in calls \ {c} \/ d.op # "send"
    BY <1>0, <2>2, <2>3, SendsRefetch, Zenon DEF AreCalls
  <2>5. /\ ui' = [f1 \in ThreadsFields |-> ui'[f1]] /\ ui'.active = ui.active
        /\ ui'.draft \in {ui.draft, None} /\ ui'.delivery \in {ui.delivery, c.item}
    BY <1>0, <1>6, Zenon DEF Threads!Sent, ThreadsFields
  <2>6. clean' = clean /\ c.op = "send"
    BY <1>6 DEF Threads!Sent
  <2> QED
    BY <2>4, <2>5, <2>6 DEF ThreadsShow
<1>7. ASSUME NEW c \in calls, Threads!SendFails(c)
      PROVE  ThreadsShow'
  <2>1. calls' = calls \ {c} /\ clean' = clean
    BY <1>7 DEF Threads!SendFails, Threads!Ends
  <2>2. /\ ui' = [f \in ThreadsFields |-> ui'[f]] /\ ui'.active = ui.active
        /\ ui'.draft = ui.draft /\ ui'.delivery \in {ui.delivery, None}
    BY <1>0, <1>7, Zenon DEF Threads!SendFails, ThreadsFields
  <2>3. AreCalls(calls') /\ \A d \in calls' : d \in calls
    BY <1>0, <2>1 DEF AreCalls
  <2> QED
    BY <1>1, <2>1, <2>2, <2>3
<1>8. ASSUME NEW c \in calls, Threads!Arrives(c) \/ Threads!FetchFails(c)
      PROVE  ThreadsShow'
  <2>1. calls' = calls \ {c} /\ clean' = clean
    BY <1>8 DEF Threads!Arrives, Threads!FetchFails, Threads!Ends
  <2>2. PICK v : /\ Threads!Renders(Threads!Over(c, v))
                 /\ \/ v = ui
                    \/ v = [ui EXCEPT !.cache[c.item] = c.answer, !.failed[c.item] = FALSE]
                    \/ v = [ui EXCEPT !.failed[c.item] = TRUE]
    BY <1>8 DEF Threads!Arrives, Threads!FetchFails
  <2>3. PICK u : u = Threads!Over(c, v)
    OBVIOUS
  <2>4. /\ v = [f \in ThreadsFields |-> v[f]] /\ v.active = ui.active
        /\ v.draft = ui.draft /\ v.delivery = ui.delivery
    BY <1>0, <2>2, Zenon DEF ThreadsFields
  <2>5. /\ u = [f \in ThreadsFields |-> u[f]] /\ u.active = ui.active
        /\ u.draft = ui.draft /\ u.delivery = ui.delivery
    BY <2>3, <2>4, Zenon DEF Threads!Over, ThreadsFields
  <2>6. Threads!Renders(u)
    BY <2>2, <2>3
  <2>7. /\ ui' = [f \in ThreadsFields |-> ui'[f]] /\ ui'.active = ui.active
        /\ ui'.draft \in {ui.draft, None} /\ ui'.delivery \in {ui.delivery, None}
    BY <2>5, <2>6, TextsRender
  <2>8. AreCalls(calls') /\ \A d \in calls' : d \in calls
    BY <1>0, <2>1 DEF AreCalls
  <2> QED
    BY <1>1, <2>1, <2>7, <2>8
<1>9. ASSUME NEW c \in calls, Threads!Serve(c) \/ Threads!Refuse(c)
      PROVE  ThreadsShow'
  <2>1. PICK x, y : calls' = (calls \ {c}) \cup {Answering(c, x, y)}
    BY <1>9, Zenon DEF Threads!Serve, Threads!Refuse, Threads!Answered, Threads!Refused,
       Threads!Fault, Threads!Replace, Answering
  <2>2. PICK d : /\ calls' = (calls \ {c}) \cup {d} /\ IsCall(d)
                 /\ SameCall(c, d) /\ d.value = c.value
    BY <1>0, <2>1, OneAnswered
  <2>3. ui' = ui /\ clean' = clean
    BY <1>9 DEF Threads!Serve, Threads!Refuse
  <2> QED
    BY <2>2, <2>3 DEF ThreadsShow, SameCall, AreCalls
<1> QED
  BY <1>2, <1>3, <1>4, <1>5, <1>6, <1>7, <1>8, <1>9 DEF Threads!Next, Threads!User

-----------------------------------------------------------------------------
(* All pages                                                               *)

LEMMA ShowsStarts == Init => ShowsInv
  BY StartsOn, TaskShowsOwn, UsersShowStarts, HooksShowStarts, ReportsShowStarts,
     FormShowsStarts, ImportShowsStarts, RecordsShowStarts, OutcomesShowStarts,
     ThreadsShowStarts DEF ShowsInv

LEMMA ShowsStays == ShowsInv /\ UNCHANGED vars => ShowsInv'
<1> SUFFICES ASSUME ShowsInv, UNCHANGED vars PROVE ShowsInv'
  OBVIOUS
<1>0. UNCHANGED <<page, ui, calls, server, made, clean>>
  BY DEF vars
<1> USE <1>0
<1> USE DEF AreCalls, IsCall
<1>1. (TaskShows => TaskShows') /\ (UsersShow => UsersShow')
  BY DEF TaskShows, ShowsFor, UsersShow
<1>2. HooksShow => HooksShow'
  BY DEF HooksShow, HookCall, Secrets
<1>3. ReportsShow => ReportsShow'
  BY DEF ReportsShow, Numbers!ReportFitsFilter
<1>4. (FormShows => FormShows') /\ (ImportShows => ImportShows')
  BY DEF FormShows, ImportShows, Previews, Csv!PreviewFitsFile
<1>5. RecordsShow => RecordsShow'
  BY DEF RecordsShow, Fitting, AllFit, Lookups!Located
<1>6. OutcomesShow => OutcomesShow'
  BY DEF OutcomesShow, Warns, Stands
<1>7. ThreadsShow => ThreadsShow'
  BY DEF ThreadsShow
<1> QED
  BY <1>1, <1>2, <1>3, <1>4, <1>5, <1>6, <1>7 DEF ShowsInv

LEMMA ShowsSteps == ShowsInv /\ [Next]_vars => ShowsInv'
<1> SUFFICES ASSUME ShowsInv, [Next]_vars PROVE ShowsInv'
  OBVIOUS
<1>1. CASE UNCHANGED vars
  BY <1>1, ShowsStays
<1>2. CASE page' = page /\ ~UNCHANGED vars
  <2> USE <1>2
  <2>1. page \in TaskPages => TaskShows'
    BY StaysOn, TaskShowsOwn DEF ShowsInv
  <2>2. page = "users" => UsersShow'
    BY StaysOn, UsersShowSteps DEF ShowsInv
  <2>3. page = "webhooks" => HooksShow'
    BY StaysOn, HooksShowSteps DEF ShowsInv
  <2>4. page \in Figures => ReportsShow'
    BY StaysOn, ReportsShowSteps DEF ShowsInv
  <2>5. page = "form" => FormShows'
    BY StaysOn, FormShowsSteps DEF ShowsInv
  <2>6. page = "import" => ImportShows'
    BY StaysOn, ImportShowsSteps DEF ShowsInv
  <2>7. page \in Managers => RecordsShow'
    BY StaysOn, RecordsShowSteps DEF ShowsInv
  <2>8. page = "outcomes" => OutcomesShow'
    BY StaysOn, OutcomesShowSteps DEF ShowsInv
  <2>9. page = "messages" => ThreadsShow'
    BY StaysOn, ThreadsShowSteps DEF ShowsInv
  <2> QED
    BY <2>1, <2>2, <2>3, <2>4, <2>5, <2>6, <2>7, <2>8, <2>9 DEF ShowsInv
<1> QED
  BY <1>1, <1>2, StaysOn

\* Whatever comes late, twice or never: what a page shows belongs to the task,
\* the account, the subscription, the filter, the form, the file, the place, the
\* attendee or the conversation for which it is shown, except where the page's
\* clean says that the code does not see to it.
THEOREM ShownIsOwn == Spec => []ShowsOwn
<1>1. ShowsInv => ShowsOwn
  <2> SUFFICES ASSUME ShowsInv PROVE ShowsOwn
    OBVIOUS
  <2>1. page \in TaskPages => TaskPage!ShowsOwnTask
    BY TaskShowsOwn DEF ShowsInv
  <2>2. page = "users" => Accounts!ShowsOwnSessions
    BY DEF ShowsInv, UsersShow, Accounts!ShowsOwnSessions
  <2>3. page = "webhooks" => Hooks!RevealsCurrentSecret
    BY DEF ShowsInv, HooksShow, Secrets, Hooks!RevealsCurrentSecret
  <2>4. page \in Figures => Numbers!ReportFitsFilter
    BY DEF ShowsInv, ReportsShow
  <2>5. page = "form" => Form!PreviewFitsForm
    BY DEF ShowsInv, FormShows, Form!PreviewFitsForm, Form!Waiting
  <2>6. page = "import" => Csv!PreviewFitsFile
    BY DEF ShowsInv, ImportShows
  <2>7. page \in Managers => Lookups!DriveFitsPlace
    BY DEF ShowsInv, RecordsShow, Fitting, Fits, Lookups!DriveFitsPlace
  <2>8. page = "outcomes" => Funnels!ForcedBackAsShown
    BY OutcomesShowShows DEF ShowsInv
  <2>9. page = "messages" => Threads!WritesWhereShown
    BY DEF ShowsInv, ThreadsShow, Threads!WritesWhereShown
  <2> QED
    BY <2>1, <2>2, <2>3, <2>4, <2>5, <2>6, <2>7, <2>8, <2>9 DEF ShowsOwn
<1> QED
  BY <1>1, ShowsStarts, ShowsSteps, PTL DEF Spec

-----------------------------------------------------------------------------
(* Lists that catch up                                                     *)

\* A call that does not change the list goes out.
LEMMA CatchesUpCalled ==
  ASSUME NEW S, NEW ops, NEW doc, NEW shown, NEW failed,
         CatchesUp(S, ops, doc, shown, failed), NEW n, n.at = "out"
  PROVE  CatchesUp(S \cup {n}, ops, doc, shown, failed)
  BY DEF CatchesUp, Due

\* A call is answered: a fetch with the list, a change with the change.
LEMMA CatchesUpAnswered ==
  ASSUME NEW S, NEW ops, NEW doc, NEW shown, NEW failed,
         CatchesUp(S, ops, doc, shown, failed), "list" \notin ops,
         NEW c \in S, c.at # "ok", NEW d, d.op = c.op, d.value = c.value, NEW doc2,
         \/ d.at # "ok" /\ doc2 = doc
         \/ d.at = "ok" /\ Counting(c) /\ d.answer = doc /\ doc2 = doc
         \/ ~Counting(c) /\ doc2 = doc
         \/ d.at = "ok" /\ c.op \in ops
  PROVE  CatchesUp((S \ {c}) \cup {d}, ops, doc2, shown, failed)
<1> DEFINE T == (S \ {c}) \cup {d}
<1>1. Due(S, ops) => Due(T, ops)
  BY DEF Due
<1>2. (\E e \in S : Counting(e)) => \E e \in T : Counting(e)
  BY DEF Counting
<1>3. CASE d.at = "ok" /\ c.op \in ops
  BY <1>3 DEF Due, CatchesUp
<1>4. CASE doc2 = doc /\ (Counting(d) /\ d.at = "ok" => d.answer = doc)
  BY <1>1, <1>2, <1>4 DEF CatchesUp
<1> QED
  BY <1>3, <1>4 DEF Counting

\* A handler that is through, or a fetch that shows what it brought.
LEMMA CatchesUpEnded ==
  ASSUME NEW S, NEW ops, NEW doc, NEW shown, NEW failed,
         CatchesUp(S, ops, doc, shown, failed), "list" \notin ops,
         NEW c \in S, NEW shown2, NEW failed2,
         \/ Counting(c) /\ c.at = "ok" /\ shown2 = c.answer
         \/ Counting(c) /\ failed2
         \/ ~Counting(c) /\ ~(c.op \in ops /\ c.at = "ok")
            /\ shown2 = shown /\ failed2 = failed
  PROVE  CatchesUp(S \ {c}, ops, doc, shown2, failed2)
  BY DEF Due, Counting, CatchesUp

\* The list is fetched again: whatever happened before, it catches up.
LEMMA CatchesUpFetched ==
  ASSUME NEW T, NEW ops, NEW doc, NEW shown, NEW failed,
         \E e \in T : Counting(e), \A e \in T : Counting(e) => e.at # "ok"
  PROVE  CatchesUp(T, ops, doc, shown, failed)
  BY DEF CatchesUp

\* Fetching a list with SWR.
LEMMA RefetchCounts ==
  ASSUME NEW S, AreCalls(S), NEW T, T = Lookups!Refetching(S)
  PROVE  (\E e \in T : Counting(e)) /\ \A e \in T : Counting(e) => e.at # "ok"
<1>1. PICK n : n = Fetch(None)
  OBVIOUS
<1> USE <1>1
<1>2. n.op = "list" /\ n.value = "latest" /\ n.at = "out"
  BY DEF Fetch, Call
<1>3. n \in T
  BY DEF Lookups!Refetching, Lookups!Fetch, Lookups!Call, Fetch, Call
<1>4. ASSUME NEW c \in S, c.op = "list"
      PROVE  Late(c).value = "overtaken"
  BY <1>4 DEF Late, AreCalls, IsCall, CallFields
<1>5. \A e \in T : e = n \/ (e \in S /\ e.op # "list") \/ \E c \in S : c.op = "list" /\ e = Late(c)
  BY Zenon DEF Lookups!Refetching, Lookups!Overtaken, Lookups!Fetch, Lookups!Call, Fetch, Call, Late
<1> QED
  BY <1>2, <1>3, <1>4, <1>5 DEF Counting

-----------------------------------------------------------------------------
(* The managers catch up                                                   *)

LEMMA RecordsSettleStarts == Lookups!Init => RecordsSettle
  BY DEF Fetch, Call, Counting, Lookups!Init, Lookups!Fetch, Lookups!Call, RecordsSettle,
     CatchesUp

LEMMA RecordsSettleSteps == RecordsWaits /\ RecordsSettle /\ Lookups!Next => RecordsSettle'
<1> SUFFICES ASSUME RecordsWaits, RecordsSettle, Lookups!Next PROVE RecordsSettle'
  OBVIOUS
<1>0. ui = [f \in RecordFields |-> ui[f]] /\ AreCalls(calls)
  BY DEF RecordsWaits
<1> DEFINE Ops == {"save", "delete"}
<1>1. CatchesUp(calls, Ops, server, ui.shown, ui.failed)
  BY DEF RecordsSettle
<1>2. ASSUME CatchesUp(calls', Ops, server', ui'.shown, ui'.failed)
      PROVE  RecordsSettle'
  BY <1>2 DEF RecordsSettle, CatchesUp, Due, Counting
<1>4. ASSUME NEW S \in SUBSET calls, calls' = Lookups!Refetching(S)
      PROVE  RecordsSettle'
  BY <1>0, <1>2, <1>4, RefetchCounts, CatchesUpFetched DEF AreCalls
<1>5. CASE Lookups!Retry
  BY <1>4, <1>5 DEF Lookups!Retry
<1>6. CASE \/ Lookups!OpenNew \/ Lookups!CloseForm \/ Lookups!CancelDelete
           \/ \E i \in Item : Lookups!OpenEdit(i) \/ Lookups!OpenDelete(i)
           \/ \E v \in Value : Lookups!TypeMain(v)
           \/ \E d \in {"typed", None} : Lookups!TypeDrive(d)
  <2>1. calls' = calls /\ server' = server
    BY <1>6, Zenon DEF Lookups!OpenNew, Lookups!CloseForm, Lookups!CancelDelete, Lookups!OpenEdit,
       Lookups!OpenDelete, Lookups!TypeMain, Lookups!TypeDrive, Lookups!Opens
  <2>2. ui'.shown = ui.shown /\ ui'.failed = ui.failed
    BY <1>0, <1>6, Zenon DEF Lookups!OpenNew, Lookups!CloseForm, Lookups!CancelDelete, Lookups!OpenEdit,
       Lookups!OpenDelete, Lookups!TypeMain, Lookups!TypeDrive, Lookups!Opens, Lookups!Closed,
       RecordFields
  <2> QED
    BY <1>1, <1>2, <2>1, <2>2
<1>7. ASSUME \/ Lookups!Submit \/ Lookups!Delete \/ \E v \in Value : Lookups!SelectPlace(v)
      PROVE  RecordsSettle'
  <2>1. /\ ui'.shown = ui.shown /\ ui'.failed = ui.failed /\ server' = server
        /\ calls' = calls \/ \E inst, item, op, value : Lookups!Start(inst, item, op, value, None)
    BY <1>0, <1>7, Zenon DEF Lookups!Submit, Lookups!Delete, Lookups!SelectPlace, RecordFields
  <2> USE <2>1
  <2>2. CASE calls' = calls
    BY <1>1, <1>2, <2>2
  <2>3. ASSUME NEW inst, NEW item, NEW op, NEW value, Lookups!Start(inst, item, op, value, None)
        PROVE  RecordsSettle'
    <3>1. calls' = calls \cup {Call(made, inst, item, op, value, None)}
      BY <2>3 DEF Lookups!Start, Lookups!Call, Call
    <3>2. PICK n : calls' = calls \cup {n} /\ n.at = "out"
      BY <3>1, OneOut
    <3>3. CatchesUp(calls, Ops, server, ui'.shown, ui'.failed)
      BY <1>1
    <3> QED
      BY <1>2, <3>2, <3>3, CatchesUpCalled
  <2> QED
    BY <2>2, <2>3
<1>8. ASSUME NEW c \in calls, Lookups!Serve(c) \/ Lookups!Refuse(c)
      PROVE  RecordsSettle'
  <2>1. c.at = "out" /\ ui' = ui
    BY <1>8 DEF Lookups!Serve, Lookups!Refuse
  <2>2. PICK x, y : /\ calls' = (calls \ {c}) \cup {Answering(c, x, y)}
                    /\ \/ x # "ok" /\ server' = server
                       \/ x = "ok" /\ Counting(c) /\ y = server /\ server' = server
                       \/ ~Counting(c) /\ server' = server
                       \/ x = "ok" /\ c.op \in Ops
    <3>1. CASE Lookups!Serve(c)
      <4>1. CASE c.op = "list"
        <5>1. Lookups!Listing(c, server)
          BY <3>1, <4>1 DEF Lookups!Serve
        <5> QED
          BY <4>1, <5>1, Zenon DEF Lookups!Listing, Lookups!Latest, Lookups!Answered, Lookups!Replace,
             Answering, Counting
      <4>2. CASE c.op # "list"
        BY <3>1, <4>2, Zenon DEF Lookups!Serve, Lookups!Listing, Lookups!Answered, Lookups!Replace,
           Answering, Counting
      <4> QED
        BY <4>1, <4>2
    <3>2. CASE Lookups!Refuse(c)
      <4>1. calls' = (calls \ {c}) \cup {Answering(c, "no", None)} /\ server' = server
        BY <3>2 DEF Lookups!Refuse, Lookups!Refused, Lookups!Fault, Lookups!Replace, Answering
      <4> QED
        BY <4>1
    <3> QED
      BY <1>8, <3>1, <3>2
  <2>3. calls' = (calls \ {c}) \cup {Answering(c, x, y)}
    BY <2>2
  <2>4. PICK d : /\ calls' = (calls \ {c}) \cup {d} /\ IsCall(d)
                 /\ SameCall(c, d) /\ d.value = c.value /\ d.prev = c.prev /\ d.step = c.step
                 /\ d.at = x /\ d.answer = y
    BY <1>0, <2>3, OneAnswered
  <2> USE <2>4
  <2>5. \/ d.at # "ok" /\ server' = server
        \/ d.at = "ok" /\ Counting(c) /\ d.answer = server /\ server' = server
        \/ ~Counting(c) /\ server' = server
        \/ d.at = "ok" /\ c.op \in Ops
    BY <2>2
  <2>6. CatchesUp((calls \ {c}) \cup {d}, Ops, server', ui.shown, ui.failed)
    BY <1>1, <2>1, <2>5, CatchesUpAnswered DEF SameCall
  <2> QED
    BY <1>2, <2>1, <2>6
<1>9. ASSUME NEW c \in calls,
             \/ Lookups!Arrives(c) \/ Lookups!ListFails(c) \/ Lookups!DriveAnswered(c)
             \/ Lookups!SaveFails(c) \/ Lookups!DeleteFails(c)
      PROVE  RecordsSettle'
  <2>1. calls' = calls \ {c} /\ server' = server
    BY <1>9 DEF Lookups!Arrives, Lookups!ListArrives, Lookups!ListFails, Lookups!DriveAnswered,
       Lookups!SaveFails, Lookups!DeleteFails, Lookups!Ends
  <2>2. \/ Counting(c) /\ c.at = "ok" /\ ui'.shown = c.answer
        \/ Counting(c) /\ ui'.failed
        \/ ~Counting(c) /\ ~(c.op \in Ops /\ c.at = "ok")
           /\ ui'.shown = ui.shown /\ ui'.failed = ui.failed
    BY <1>0, <1>9, Zenon DEF Lookups!Arrives, Lookups!ListArrives, Lookups!ListFails, Lookups!DriveAnswered,
       Lookups!SaveFails, Lookups!DeleteFails, Lookups!Asked, Lookups!Fills, Lookups!Latest,
       Counting, RecordFields
  <2>3. CatchesUp(calls \ {c}, Ops, server, ui'.shown, ui'.failed)
    BY <1>1, <2>2, CatchesUpEnded
  <2> QED
    BY <1>2, <2>1, <2>3
<1>10. ASSUME NEW c \in calls, Lookups!Saved(c) \/ Lookups!Deleted(c)
       PROVE  RecordsSettle'
  BY <1>4, <1>10 DEF Lookups!Saved, Lookups!Deleted, Lookups!EndsAndFetches
<1> QED
  BY <1>5, <1>6, <1>7, <1>8, <1>9, <1>10 DEF Lookups!Next, Lookups!User

-----------------------------------------------------------------------------
(* The schedule board catches up                                           *)

LEMMA BoardKeepsStarts == Board!Init => BoardKeeps
<1> SUFFICES ASSUME Board!Init PROVE BoardKeeps
  OBVIOUS
<1>1. PICK v \in Board!View :
        /\ ui = [view |-> v, inst |-> 0,
                 cache |-> [k \in Board!Keys |-> Board!Cold],
                 fresh |-> [k \in Board!Keys |-> k = Board!Key(v)],
                 failed |-> [k \in Board!Keys |-> FALSE], banner |-> FALSE,
                 selecting |-> FALSE, chosen |-> {}, busy |-> None, confirm |-> None,
                 conflict |-> None, reason |-> None]
        /\ calls = {Fetch(Board!Key(v))}
  BY Zenon DEF Board!Init, Board!Fetch, Board!Call, Fetch, Call
<1>2. PICK n : n = Fetch(Board!Key(v))
  OBVIOUS
<1>3. NewestOf(n, Board!Key(v)) /\ n.at = "out" /\ n.op = "list"
  BY <1>2 DEF Fetch, Call, NewestOf
<1>4. calls = {n} /\ \A c \in calls : c.op \in BoardOps
  BY <1>1, <1>2, <1>3 DEF BoardOps
<1>5. /\ ui.view = v
      /\ ui.cache = [k \in Board!Keys |-> Board!Cold]
      /\ ui.fresh = [k \in Board!Keys |-> k = Board!Key(v)]
      /\ ui.failed = [k \in Board!Keys |-> FALSE]
  BY <1>1
<1>6. Board!Key(v) \in Board!Keys
  BY DEF Board!Key, Board!Keys
<1>7. BoardForms(ui)
  BY <1>5, <1>6, Zenon DEF BoardForms
<1>8. ASSUME NEW k \in Board!Keys
      PROVE  KeyCatchesUp(k, server, calls, ui)
  <2>1. ui.fresh[k] => k = Board!Key(v)
    BY <1>5, Zenon
  <2> QED
    BY <1>3, <1>4, <2>1 DEF KeyCatchesUp
<1> QED
  BY <1>4, <1>7, <1>8 DEF BoardKeeps

LEMMA BoardKeepsSteps == BoardWaits /\ BoardKeeps /\ Board!Next => BoardKeeps'
<1> SUFFICES ASSUME BoardWaits, BoardKeeps, Board!Next PROVE BoardKeeps'
  OBVIOUS
<1>0. /\ ui = [f \in BoardFields |-> ui[f]] /\ AreCalls(calls)
      /\ BoardForms(ui) /\ \A c \in calls : c.op \in BoardOps
  BY DEF BoardWaits, BoardKeeps
<1>1. "list" \notin Board!Bulk /\ "status" \notin Board!Bulk /\ "relocate" \notin Board!Bulk
  BY DEF Board!Bulk
<1> DEFINE AsBefore == /\ ui'.view = ui.view /\ ui'.cache = ui.cache /\ ui'.fresh = ui.fresh
                   /\ ui'.failed = ui.failed /\ ui'.banner = ui.banner
\* What is shown stays, and so do the fetches and the changes.
<1>2. ASSUME AsBefore, server' = server, \A c \in calls' : c.op \in BoardOps,
             Changed(calls) => Changed(calls'),
             \A e : e.op = "list" => (e \in calls' <=> e \in calls)
      PROVE  BoardKeeps'
  BY <1>0, <1>2 DEF BoardForms, KeyCatchesUp, NewestOf, BoardKeeps
\* Fetching some lists again.
<1>3. ASSUME NEW S \in SUBSET calls, NEW keys, NEW k \in keys,
             calls' = Board!Overtaken(S, keys) \cup {Board!Fetch(k)}
      PROVE  /\ \A c \in calls' : c.op \in BoardOps
             /\ \A c \in calls', q \in keys : NewestOf(c, q) => q = k /\ c.at = "out"
             /\ \E c \in calls' : NewestOf(c, k)
             /\ \A q : q \notin keys => \A e : NewestOf(e, q) => (e \in calls' <=> e \in S)
             /\ Changed(S) => Changed(calls')
  <2>1. PICK n : n = Fetch(k)
    OBVIOUS
  <2>2. NewestOf(n, k) /\ n.at = "out" /\ n.op = "list" /\ n.item = k
    BY <2>1 DEF Fetch, Call, NewestOf
  <2>3. Board!Fetch(k) = n
    BY <2>1 DEF Board!Fetch, Board!Call, Fetch, Call
  <2>4. /\ n \in calls'
        /\ \A e \in calls' : \/ e = n
                             \/ e \in S /\ ~(e.op = "list" /\ e.item \in keys)
                             \/ \E c \in S : c.op = "list" /\ c.item \in keys /\ e = Late(c)
        /\ \A e \in S : ~(e.op = "list" /\ e.item \in keys) => e \in calls'
    BY <1>3, <2>3, Zenon DEF Board!Overtaken, Late
  <2>5. ASSUME NEW c \in S
        PROVE  Late(c).value = "overtaken" /\ Late(c).op = c.op
    BY <1>0 DEF AreCalls, IsCall, CallFields, Late
  <2>6. \A c \in calls' : c.op \in BoardOps
    BY <1>0, <1>3, <2>2, <2>4, <2>5 DEF BoardOps
  <2>7. \A c \in calls', q \in keys : NewestOf(c, q) => q = k /\ c.at = "out"
    BY <2>2, <2>4, <2>5 DEF NewestOf
  <2>8. \A q : q \notin keys => \A e : NewestOf(e, q) => (e \in calls' <=> e \in S)
    BY <1>3, <2>2, <2>4, <2>5 DEF NewestOf
  <2>9. Changed(S) => Changed(calls')
    BY <1>1, <2>4 DEF Changed, Changing
  <2> QED
    BY <2>2, <2>4, <2>6, <2>7, <2>8, <2>9
<1>4. ASSUME NEW v \in Board!View
      PROVE  Board!Key(v) \in Board!Keys
  BY DEF Board!Key, Board!Keys
\* The list that is shown is fetched again, and the other one is stale.
<1>5. ASSUME NEW u, u = [f \in BoardFields |-> u[f]], u.view = ui.view, u.cache = ui.cache,
             u.failed = ui.failed, u.banner = ui.banner, ui' = Board!Stale(u),
             NEW S \in SUBSET calls, calls' = Board!Refetching(S)
      PROVE  BoardKeeps'
  <2>1. PICK key : key = Board!Key(ui.view)
    OBVIOUS
  <2>2. key \in Board!Keys
    BY <1>0, <1>4, <2>1 DEF BoardForms
  <2>3. calls' = Board!Overtaken(S, Board!Keys) \cup {Board!Fetch(key)}
    BY <1>5, <2>1 DEF Board!Refetching, Board!Current
  <2>4. /\ \A c \in calls' : c.op \in BoardOps
        /\ \A c \in calls', q \in Board!Keys : NewestOf(c, q) => q = key /\ c.at = "out"
        /\ \E c \in calls' : NewestOf(c, key)
    BY <1>3, <2>2, <2>3, Zenon
  <2>5. /\ ui'.view = ui.view /\ ui'.cache = ui.cache /\ ui'.failed = ui.failed
        /\ ui'.banner = ui.banner
        /\ ui'.fresh = [k \in Board!Keys |-> k = key]
    BY <1>5, <2>1 DEF Board!Stale, BoardFields
  <2>6. BoardForms(ui')
    BY <1>0, <2>1, <2>2, <2>5, Zenon DEF BoardForms
  <2>7. ASSUME NEW k \in Board!Keys
        PROVE  KeyCatchesUp(k, server', calls', ui')
    <3>1. ui'.fresh[k] => k = key
      BY <2>5, Zenon
    <3> QED
      BY <2>4, <3>1 DEF KeyCatchesUp
  <2> QED
    BY <2>4, <2>6, <2>7 DEF BoardKeeps
<1>6. ASSUME NEW u, u = [f \in BoardFields |-> u[f]], NEW set
      PROVE  LET v == Board!Choose(u, set)
             IN  /\ v = [f \in BoardFields |-> v[f]]
                 /\ v.view = u.view /\ v.cache = u.cache /\ v.fresh = u.fresh
                 /\ v.failed = u.failed /\ v.banner = u.banner
  BY <1>6, Zenon DEF Board!Choose, BoardFields
<1>7. CASE Board!Retry
  BY <1>0, <1>5, <1>7 DEF Board!Retry
<1>8. ASSUME \/ Board!Turn \/ Board!ToggleSelectionMode
             \/ \E s \in Item : Board!ToggleItem(s)
             \/ \E status \in Status : Board!SelectColumn(status)
      PROVE  BoardKeeps'
  <2>1. PICK u, set : /\ u = Board!Choose(ui, set)
                      /\ ui' = u \/ ui' = [u EXCEPT !.selecting = ~@]
    BY <1>8, Zenon DEF Board!Turn, Board!ToggleSelectionMode, Board!ToggleItem, Board!SelectColumn
  <2>2. /\ u = [f \in BoardFields |-> u[f]]
        /\ u.view = ui.view /\ u.cache = ui.cache /\ u.fresh = ui.fresh
        /\ u.failed = ui.failed /\ u.banner = ui.banner
    BY <1>0, <1>6, <2>1
  <2>3. AsBefore
    BY <2>2, <2>1 DEF BoardFields
  <2>4. calls' = calls /\ server' = server
    BY <1>8, Zenon DEF Board!Turn, Board!ToggleSelectionMode, Board!ToggleItem, Board!SelectColumn
  <2> QED
    BY <1>0, <1>2, <2>3, <2>4
<1>9. CASE Board!TypeReason \/ Board!CloseConflict \/ Board!AskBulk \/ Board!CancelBulk
  BY <1>9, <1>0, <1>2 DEF Board!TypeReason, Board!CloseConflict, Board!AskBulk, Board!CancelBulk,
     BoardFields
<1>10. CASE Board!ConfirmBulk \/ \E status \in Status : Board!BulkStatus(status)
  <2>1. ui' = [ui EXCEPT !.busy = made] /\ server' = server
    BY <1>10, Zenon DEF Board!ConfirmBulk, Board!BulkStatus, Board!Begin
  <2>2. PICK op, item, value : /\ op \in Board!Bulk
                               /\ Board!Start(ui.inst, item, op, value, None)
    <3>1. "bulk status" \in Board!Bulk /\ "bulk delete" \in Board!Bulk
      BY DEF Board!Bulk
    <3>2. \/ Board!Start(ui.inst, ui.confirm, "bulk delete", None, None)
          \/ \E status : Board!Start(ui.inst, ui.chosen, "bulk status", status, None)
      BY <1>10, Zenon DEF Board!ConfirmBulk, Board!BulkStatus
    <3> QED
      BY <3>1, <3>2, Zenon
  <2>3. calls' = calls \cup {Call(made, ui.inst, item, op, value, None)}
    BY <2>2 DEF Board!Start, Board!Call, Call
  <2>4. PICK n : calls' = calls \cup {n} /\ n.op = op
    BY <2>3, OneOut
  <2>5. AsBefore
    BY <1>0, <2>1 DEF BoardFields
  <2>6. op \in BoardOps /\ op # "list"
    BY <1>1, <2>2 DEF BoardOps
  <2>7. Changed(calls) => Changed(calls')
    BY <2>4 DEF Changed
  <2> QED
    BY <1>0, <1>2, <2>1, <2>4, <2>5, <2>6, <2>7
<1>11. CASE Board!Widen
  <2>1. PICK u : u = Board!Choose(ui, {})
    OBVIOUS
  <2>2. /\ u = [f \in BoardFields |-> u[f]]
        /\ u.view = ui.view /\ u.cache = ui.cache /\ u.fresh = ui.fresh
        /\ u.failed = ui.failed /\ u.banner = ui.banner
    BY <1>0, <1>6, <2>1
  <2>3. PICK cache : cache = [u.cache EXCEPT !["window"] = Board!Cold]
    BY Zenon
  <2>4. PICK fresh : fresh = [u.fresh EXCEPT !["window"] = TRUE]
    BY Zenon
  <2>5. PICK failed : failed = [u.failed EXCEPT !["window"] = FALSE]
    BY Zenon
  <2>6. ui' = [u EXCEPT !.cache = cache, !.fresh = fresh, !.failed = failed]
    BY <1>11, <2>1, <2>3, <2>4, <2>5 DEF Board!Widen
  <2>7. /\ ui'.view = ui.view /\ ui'.banner = ui.banner
        /\ ui'.cache = cache /\ ui'.fresh = fresh /\ ui'.failed = failed
    BY <2>2, <2>6 DEF BoardFields
  <2>8. /\ cache = [k \in Board!Keys |-> cache[k]] /\ fresh = [k \in Board!Keys |-> fresh[k]]
        /\ failed = [k \in Board!Keys |-> failed[k]]
    BY <1>0, <2>2, <2>3, <2>4, <2>5, Zenon DEF BoardForms
  <2>9. /\ fresh["window"] /\ ~failed["window"]
        /\ \A k \in Board!Keys : k # "window" => /\ cache[k] = ui.cache[k]
                                                 /\ fresh[k] = ui.fresh[k]
                                                 /\ failed[k] = ui.failed[k]
    BY <1>0, <2>2, <2>3, <2>4, <2>5 DEF BoardForms, Board!Keys
  <2>10. BoardForms(ui')
    BY <1>0, <1>4, <2>9, <2>7, <2>8 DEF BoardForms
  <2>11. calls' = Board!Overtaken(calls, {"window"}) \cup {Board!Fetch("window")} /\ server' = server
    BY <1>11 DEF Board!Widen
  <2>12. /\ \A c \in calls' : c.op \in BoardOps
         /\ \A c \in calls', q \in {"window"} : NewestOf(c, q) => q = "window" /\ c.at = "out"
         /\ \E c \in calls' : NewestOf(c, "window")
         /\ \A q : q \notin {"window"} => \A e : NewestOf(e, q) => (e \in calls' <=> e \in calls)
         /\ Changed(calls) => Changed(calls')
    BY <1>3, <2>11, Zenon
  <2>13. ASSUME NEW k \in Board!Keys, KeyCatchesUp(k, server, calls, ui)
         PROVE  KeyCatchesUp(k, server, calls', ui')
    BY <2>12, <2>7, <2>9, <2>13 DEF KeyCatchesUp
  <2> QED
    BY <2>10, <2>11, <2>12, <2>13, Zenon DEF BoardKeeps
<1>12. ASSUME NEW v \in Board!View, Board!Navigate(v)
       PROVE  BoardKeeps'
  <2>1. PICK key : key = Board!Key(v)
    OBVIOUS
  <2>2. PICK fresh : fresh = [ui.fresh EXCEPT ![key] = TRUE]
    BY Zenon
  <2>3. ui' = [ui EXCEPT !.view = v, !.inst = made + 1, !.selecting = FALSE, !.chosen = {},
                         !.busy = None, !.confirm = None, !.conflict = None, !.reason = None,
                         !.fresh = fresh]
    BY <1>12, <2>1, <2>2 DEF Board!Navigate
  <2>4. /\ ui'.view = v /\ ui'.banner = ui.banner
        /\ ui'.cache = ui.cache /\ ui'.fresh = fresh /\ ui'.failed = ui.failed
    BY <1>0, <2>3 DEF BoardFields
  <2>5. key \in Board!Keys
    BY <1>4, <2>1
  <2>6. /\ fresh = [k \in Board!Keys |-> fresh[k]] /\ fresh[key]
        /\ \A k \in Board!Keys : k # key => fresh[k] = ui.fresh[k]
    BY <1>0, <2>2, <2>5, Zenon DEF BoardForms
  <2>7. BoardForms(ui')
    BY <1>0, <2>1, <2>4, <2>6 DEF BoardForms
  <2>8. server' = server
    BY <1>12 DEF Board!Navigate
  <2>9. CASE ui.fresh[key] /\ calls' = calls
    BY <2>4, <2>6, <2>9, <1>0, <2>7, <2>8 DEF KeyCatchesUp, BoardKeeps
  <2>10. CASE calls' = Board!Overtaken(calls, {key}) \cup {Board!Fetch(key)}
    <3>1. /\ \A c \in calls' : c.op \in BoardOps
          /\ \A c \in calls', q \in {key} : NewestOf(c, q) => q = key /\ c.at = "out"
          /\ \E c \in calls' : NewestOf(c, key)
          /\ \A q : q \notin {key} => \A e : NewestOf(e, q) => (e \in calls' <=> e \in calls)
          /\ Changed(calls) => Changed(calls')
      BY <1>3, <2>10, Zenon
    <3>2. ASSUME NEW k \in Board!Keys, KeyCatchesUp(k, server, calls, ui)
          PROVE  KeyCatchesUp(k, server, calls', ui')
      BY <3>1, <2>4, <2>6, <3>2 DEF KeyCatchesUp
    <3> QED
      BY <2>7, <2>8, <3>1, <3>2 DEF BoardKeeps
  <2> QED
    BY <1>12, <2>1, <2>9, <2>10 DEF Board!Navigate
<1>13. ASSUME NEW s, NEW doc, NEW op \in {"status", "relocate"}, NEW value, NEW prev,
              Board!Swapped(s, doc), Board!StartSwapped(s, op, value, prev)
       PROVE  BoardKeeps'
  <2>1. /\ ui'.view = ui.view /\ ui'.fresh = ui.fresh
        /\ ui'.failed = ui.failed /\ ui'.banner = ui.banner
    BY <1>0, <1>13 DEF Board!Swapped, BoardFields
  <2>2. ui'.cache = [k \in Board!Keys |-> ui'.cache[k]]
    BY <1>0, <1>13 DEF Board!Swapped, BoardFields
  <2>5. BoardForms(ui')
    BY <1>0, <2>1, <2>2 DEF BoardForms
  <2>6. PICK n : n = Board!Call(made, ui.inst, s, op, value, prev)
    OBVIOUS
  <2>7. n.op = op
    BY <2>6 DEF Board!Call
  <2>8. calls' = Board!Overtaken(calls, Board!Keys) \cup {n}
    BY <1>13, <2>6 DEF Board!StartSwapped
  <2>9. ASSUME NEW e \in Board!Overtaken(calls, Board!Keys)
        PROVE  e.op \in BoardOps
    <3>1. PICK g \in calls : \/ e = g
                             \/ e = [g EXCEPT !.value = "overtaken", !.answer = None]
      BY Zenon DEF Board!Overtaken
    <3>2. e.op = g.op
      BY <1>0, <3>1, Zenon DEF AreCalls, IsCall, CallFields
    <3> QED
      BY <1>0, <3>2
  <2>10. \A c \in calls' : c.op \in BoardOps
    BY <2>7, <2>8, <2>9 DEF BoardOps
  <2>11. Changed(calls')
    BY <2>7, <2>8 DEF Changed, Changing
  <2> QED
    BY <2>5, <2>10, <2>11 DEF BoardKeeps, KeyCatchesUp
<1>14. CASE \/ \E s \in Item : \/ \E status \in Status : Board!ChangeStatus(s, status)
                               \/ \E slot \in Value : Board!DropOnSlot(s, slot)
            \/ Board!ForceRelocate
  BY <1>13, <1>14, Zenon DEF Board!ChangeStatus, Board!DropOnSlot, Board!ForceRelocate, Board!Relocate
<1>15. ASSUME NEW c \in calls, Board!Serve(c) \/ Board!Refuse(c)
       PROVE  BoardKeeps'
  <2>1. PICK x, y : /\ calls' = (calls \ {c}) \cup {Answering(c, x, y)}
                    /\ ui' = ui /\ c.at = "out"
                    /\ \/ x = "no" /\ server' = server
                       \/ x = "ok" /\ c.op # "list"
                       \/ x = "ok" /\ c.op = "list" /\ server' = server
                          /\ (c.value = "latest" => y = server)
    <3>1. CASE Board!Serve(c)
      <4>1. ui' = ui /\ c.at = "out"
        BY <3>1 DEF Board!Serve
      <4>2. CASE c.op = "list"
        <5>1. /\ Board!Answered(c, IF c.value = "latest" THEN server ELSE None)
              /\ server' = server
          BY <3>1, <4>2 DEF Board!Serve
        <5> QED
          BY <4>1, <4>2, <5>1, Zenon DEF Board!Answered, Board!Replace, Answering
      <4>3. CASE c.op # "list"
        <5>1. Board!Answered(c, None)
          BY <3>1, <4>3 DEF Board!Serve
        <5> QED
          BY <4>1, <4>3, <5>1, Zenon DEF Board!Answered, Board!Replace, Answering
      <4> QED
        BY <4>2, <4>3
    <3>2. CASE Board!Refuse(c)
      <4>1. PICK y : calls' = (calls \ {c}) \cup {Answering(c, "no", y)}
        BY <3>2, Zenon DEF Board!Refuse, Board!Refused, Board!Fault, Board!Replace, Answering
      <4>2. ui' = ui /\ c.at = "out" /\ server' = server
        BY <3>2 DEF Board!Refuse
      <4> QED
        BY <4>1, <4>2
    <3> QED
      BY <1>15, <3>1, <3>2
  <2>2. calls' = (calls \ {c}) \cup {Answering(c, x, y)}
    BY <2>1
  <2>3. PICK d : /\ calls' = (calls \ {c}) \cup {d} /\ IsCall(d)
                 /\ SameCall(c, d) /\ d.value = c.value /\ d.prev = c.prev /\ d.step = c.step
                 /\ d.at = x /\ d.answer = y
    BY <1>0, <2>2, OneAnswered
  <2>4. d.op = c.op /\ d.item = c.item /\ \A e \in calls' : e.op \in BoardOps
    BY <1>0, <2>3 DEF SameCall
  <2>5. Changed(calls) => Changed(calls')
    BY <2>1, <2>3, <2>4 DEF Changed, Changing
  <2>6. CASE x = "ok" /\ c.op # "list"
    BY <1>0, <2>3, <2>4, <2>6, <2>1 DEF Changing, BoardOps, Changed, BoardKeeps, KeyCatchesUp
  <2>7. CASE server' = server /\ (NewestOf(d, d.item) /\ d.at = "ok" => d.answer = server)
    BY <2>3, <2>4, <2>5, <2>7, <1>0, <2>1 DEF NewestOf, KeyCatchesUp, BoardKeeps
  <2> QED
    BY <2>1, <2>3, <2>4, <2>6, <2>7 DEF NewestOf
<1>16. ASSUME NEW c \in calls, Board!ListArrives(c)
       PROVE  BoardKeeps'
  <2>1. c.op = "list" /\ calls' = calls \ {c} /\ server' = server /\ c.at = "ok"
    BY <1>16 DEF Board!ListArrives, Board!Ends
  <2>2. Changed(calls) => Changed(calls')
    BY <1>1, <2>1 DEF Changed, Changing
  <2>3. CASE c.value # "latest"
    BY <1>16, <2>3, <2>1, <2>2, <1>0 DEF Board!ListArrives, KeyCatchesUp, NewestOf, BoardKeeps
  <2>4. CASE c.value = "latest"
    <3>1. PICK cache : cache = [ui.cache EXCEPT ![c.item] = c.answer]
      BY Zenon
    <3>2. PICK failed : failed = [ui.failed EXCEPT ![c.item] = FALSE]
      BY Zenon
    <3>3. ui' = [ui EXCEPT !.cache = cache, !.failed = failed]
      BY <1>16, <2>4, <3>1, <3>2 DEF Board!ListArrives
    <3>4. /\ ui'.view = ui.view /\ ui'.banner = ui.banner /\ ui'.fresh = ui.fresh
          /\ ui'.cache = cache /\ ui'.failed = failed
      BY <1>0, <3>3 DEF BoardFields
    <3>5. /\ cache = [k \in Board!Keys |-> cache[k]] /\ failed = [k \in Board!Keys |-> failed[k]]
      BY <1>0, <3>1, <3>2, Zenon DEF BoardForms
    <3>6. \A k \in Board!Keys : /\ k = c.item => cache[k] = c.answer /\ ~failed[k]
                                /\ k # c.item => cache[k] = ui.cache[k] /\ failed[k] = ui.failed[k]
      BY <1>0, <3>1, <3>2, Zenon DEF BoardForms
    <3>7. BoardForms(ui')
      BY <1>0, <3>4, <3>5, <3>6 DEF BoardForms
    <3>8. ASSUME NEW k \in Board!Keys, KeyCatchesUp(k, server, calls, ui)
          PROVE  KeyCatchesUp(k, server, calls', ui')
      BY <2>1, <2>2, <2>4, <3>4, <3>6, <3>8 DEF KeyCatchesUp, NewestOf
    <3> QED
      BY <1>0, <2>1, <3>7, <3>8 DEF BoardKeeps
  <2> QED
    BY <2>3, <2>4
<1>17. ASSUME NEW c \in calls, Board!ListFails(c)
       PROVE  BoardKeeps'
  <2>1. c.op = "list" /\ calls' = calls \ {c} /\ server' = server /\ c.at = "no"
    BY <1>17 DEF Board!ListFails, Board!Ends
  <2>2. Changed(calls) => Changed(calls')
    BY <1>1, <2>1 DEF Changed, Changing
  <2>3. PICK b : b = (ui.failed[c.item] \/ c.value = "latest")
    OBVIOUS
  <2>4. PICK failed : failed = [ui.failed EXCEPT ![c.item] = b]
    BY Zenon
  <2>5. ui' = [ui EXCEPT !.banner = TRUE, !.failed = failed]
    BY <1>17, <2>3, <2>4 DEF Board!ListFails
  <2>6. /\ ui'.view = ui.view /\ ui'.banner = TRUE /\ ui'.fresh = ui.fresh
        /\ ui'.cache = ui.cache /\ ui'.failed = failed
    BY <1>0, <2>5 DEF BoardFields
  <2>7. failed = [k \in Board!Keys |-> failed[k]]
    BY <1>0, <2>4 DEF BoardForms
  <2>8. \A k \in Board!Keys : /\ k = c.item => failed[k] = b
                              /\ k # c.item => failed[k] = ui.failed[k]
    BY <1>0, <2>4 DEF BoardForms
  <2>9. BoardForms(ui')
    BY <1>0, <2>6, <2>7 DEF BoardForms
  <2>10. ASSUME NEW k \in Board!Keys, KeyCatchesUp(k, server, calls, ui)
         PROVE  KeyCatchesUp(k, server, calls', ui')
    <3>1. NewestOf(c, k) => failed[k]
      BY <2>3, <2>8, Zenon DEF NewestOf
    <3>2. ui.failed[k] => failed[k]
      BY <2>3, <2>8, Zenon
    <3> QED
      BY <2>1, <2>2, <2>6, <2>10, <3>1, <3>2 DEF KeyCatchesUp
  <2> QED
    BY <1>0, <2>1, <2>9, <2>10 DEF BoardKeeps
\* A handler is answered, and the lists are fetched again.
<1>18. ASSUME NEW c \in calls, NEW u, u = [f \in BoardFields |-> u[f]], u.view = ui.view,
              u.cache = ui.cache, u.failed = ui.failed, u.banner = ui.banner,
              Board!AnsweredAndFetches(c, u)
       PROVE  BoardKeeps'
  BY <1>18, <1>5 DEF Board!AnsweredAndFetches
<1>19. ASSUME NEW c \in calls, Board!StatusAnswered(c)
       PROVE  BoardKeeps'
  BY <1>0, <1>18, <1>19 DEF Board!StatusAnswered
<1>20. ASSUME NEW c \in calls, Board!Relocated(c) \/ Board!RelocateFails(c)
       PROVE  BoardKeeps'
  <2>1. PICK u : /\ Board!AnsweredAndFetches(c, u)
                 /\ \/ u = ui
                    \/ \E x, y : u = [ui EXCEPT !.conflict = x, !.reason = y]
                    \/ \E x : u = [ui EXCEPT !.conflict = x]
    BY <1>20, Zenon DEF Board!Relocated, Board!RelocateFails
  <2>2. /\ u = [f \in BoardFields |-> u[f]] /\ u.view = ui.view /\ u.cache = ui.cache
        /\ u.failed = ui.failed /\ u.banner = ui.banner
    BY <1>0, <2>1, Zenon DEF BoardFields
  <2> QED
    BY <1>18, <2>1, <2>2, Zenon
<1>21. ASSUME NEW c \in calls, Board!BulkDone(c)
       PROVE  BoardKeeps'
  BY <1>21, <1>0, <1>6, <1>18 DEF Board!BulkDone
<1>22. ASSUME NEW c \in calls, Board!BulkFails(c)
       PROVE  BoardKeeps'
  BY <1>22, <1>0, <1>1, <1>2 DEF Board!BulkFails, Board!Ends, Board!Idle, BoardFields, Changed,
     Changing
<1> QED
  BY <1>7, <1>8, <1>9, <1>10, <1>11, <1>12, <1>14, <1>15, <1>16, <1>17, <1>19, <1>20, <1>21,
     <1>22 DEF Board!Next, Board!User

-----------------------------------------------------------------------------
(* The inboxes catch up                                                    *)

LEMMA InboxKeepsStarts == Bell!Init => InboxKeeps
<1> SUFFICES ASSUME Bell!Init PROVE InboxKeeps
  OBVIOUS
<1>1. server = [row |-> [i \in Item |-> None], alerts |-> {}] /\ calls = {} /\ clean = FALSE
  BY Zenon DEF Bell!Init
<1>2. server = [f \in {"row", "alerts"} |-> server[f]] /\ server.row = [i \in Item |-> None]
  BY <1>1
<1> QED
  BY <1>1, <1>2 DEF InboxKeeps, InboxForms, Undisturbed

\* Changes that are the same fit the same rows.
LEMMA InboxStillFits ==
  ASSUME NEW S, NEW T, SameWrites(S, T)
  PROVE  /\ Lost(S) => Lost(T)
         /\ \A i : (Away(S, i) <=> Away(T, i)) /\ (Seen(S, i) <=> Seen(T, i))
<1>1. \A c, i : (Dismissing(c, i) \/ ReadingIt(c, i)) => c.op # "poll"
  BY Zenon DEF Dismissing, ReadingIt
<1>2. Lost(S) => Lost(T)
  BY DEF SameWrites, Lost
<1>3. \A i : Away(S, i) <=> Away(T, i)
  BY <1>1 DEF SameWrites, Away
<1>4. \A i : Seen(S, i) <=> Seen(T, i)
  BY <1>1 DEF SameWrites, Seen
<1> QED
  BY <1>2, <1>3, <1>4

\* A poll goes out beside other calls.
LEMMA InboxPolls ==
  ASSUME NEW S, NEW rows, InboxForms(S), Undisturbed(S, rows), NEW id, NEW quiet,
         quiet \in BOOLEAN, quiet => \A e \in S : e.op = "poll",
         calls' = S \cup {Bell!Poll(id, quiet)}
  PROVE  InboxForms(calls') /\ Undisturbed(calls', rows) /\ SameWrites(S, calls')
<1>1. PICK n : n = Bell!Poll(id, quiet)
  OBVIOUS
<1>2. /\ n.op = "poll" /\ n.value = quiet /\ n.answer.rows = None
      /\ n.answer = [f \in PollFields |-> n.answer[f]]
  BY <1>1, Zenon DEF Bell!Poll, Bell!Call, PollFields
<1> USE <1>2
<1>3. calls' = S \cup {n}
  BY <1>1
<1> USE <1>3
<1>4. InboxForms(calls')
  BY DEF InboxForms, InboxForm
<1>5. ASSUME NEW c \in calls', c.op = "poll", c.value # FALSE
      PROVE  (\A e \in calls' : e.op = "poll") /\ c.answer.rows \in {None, rows}
  BY <1>5, Zenon DEF Undisturbed
<1>6. SameWrites(S, calls')
  BY DEF SameWrites
<1> QED
  BY <1>4, <1>5, <1>6, Zenon DEF Undisturbed

\* Disturbing the polls leaves the changes.
LEMMA InboxDisturbs ==
  ASSUME AreCalls(calls), InboxForms(calls), NEW T, T = Bell!Disturb(calls)
  PROVE  /\ InboxForms(T) /\ SameWrites(calls, T)
         /\ \A c \in T : c.op = "poll" => c.value = FALSE
<1> DEFINE Disturbed(c) == IF c.op = "poll" THEN [c EXCEPT !.value = FALSE] ELSE c
<1>1. ASSUME NEW c \in calls
      PROVE  /\ Disturbed(c).op = c.op /\ InboxForm(Disturbed(c))
             /\ c.op = "poll" => Disturbed(c).value = FALSE
             /\ c.op # "poll" => Disturbed(c) = c
  <2>1. Disturbed(c).op = c.op /\ Disturbed(c).answer = c.answer
    BY DEF AreCalls, IsCall, CallFields
  <2>2. InboxForm(Disturbed(c))
    <3> HIDE DEF Disturbed
    <3> QED
      BY <2>1 DEF InboxForms, InboxForm
  <2>3. /\ c.op = "poll" => Disturbed(c).value = FALSE
        /\ c.op # "poll" => Disturbed(c) = c
    BY DEF AreCalls, IsCall, CallFields
  <2> QED
    BY <2>1, <2>2, <2>3
<1>2. T = {Disturbed(c) : c \in calls}
  BY DEF Bell!Disturb
<1> USE <1>2
<1> HIDE DEF Disturbed
<1>3. InboxForms(T)
  BY <1>1, Zenon DEF InboxForms
<1>4. ASSUME NEW e \in T, e.op # "poll"
      PROVE  e \in calls
  <2>1. PICK c \in calls : e = Disturbed(c)
    BY <1>4
  <2> QED
    BY <1>1, <1>4, <2>1, Zenon
<1>5. ASSUME NEW e \in calls, e.op # "poll"
      PROVE  e \in T
  <2>1. Disturbed(e) = e /\ Disturbed(e) \in T
    BY <1>1, <1>5, Zenon
  <2> QED
    BY <2>1
<1>6. \A c \in T : c.op = "poll" => c.value = FALSE
  BY <1>1, Zenon
<1> QED
  BY <1>3, <1>4, <1>5, <1>6 DEF SameWrites

\* A change goes out, one request for each of the items.
LEMMA InboxWrites ==
  ASSUME AreCalls(calls), InboxForms(calls), NEW op \in InboxOps, NEW items,
         calls' = Bell!Disturb(calls) \cup {Bell!Call(made, 0, i, op, None, None) : i \in items}
  PROVE  /\ InboxForms(calls') /\ (Lost(calls) => Lost(calls'))
         /\ \A c \in calls' : c.op = "poll" => c.value = FALSE
         /\ \A j : /\ Away(calls', j) <=> Away(calls, j) \/ Dismisses(op, items, j)
                   /\ Seen(calls', j) <=> Seen(calls, j) \/ ReadsThem(op, items, j)
<1>1. PICK T : T = Bell!Disturb(calls)
  OBVIOUS
<1>2. /\ InboxForms(T) /\ SameWrites(calls, T)
      /\ \A c \in T : c.op = "poll" => c.value = FALSE
  BY <1>1, InboxDisturbs, Zenon
<1>3. PICK N : N = {Bell!Call(made, 0, i, op, None, None) : i \in items}
  BY Zenon
<1>4. ASSUME NEW i
      PROVE  LET n == Bell!Call(made, 0, i, op, None, None)
             IN  n.op = op /\ n.item = i /\ n.at = "out"
  BY DEF Bell!Call
<1>5. /\ \A n \in N : n.op = op /\ n.at = "out" /\ n.item \in items
      /\ \A i \in items : \E n \in N : n.item = i /\ n.op = op /\ n.at = "out"
  BY <1>3, <1>4
<1>6. calls' = T \cup N /\ op # "poll"
  BY <1>1, <1>3, Zenon DEF InboxOps
<1>7. InboxForms(calls') /\ \A c \in calls' : c.op = "poll" => c.value = FALSE
  BY <1>2, <1>5, <1>6 DEF InboxForms, InboxForm
<1>8. /\ Lost(calls) => Lost(T)
      /\ \A i : (Away(calls, i) <=> Away(T, i)) /\ (Seen(calls, i) <=> Seen(T, i))
  BY <1>2, InboxStillFits
<1>9. Lost(calls) => Lost(calls')
  BY <1>6, <1>8 DEF Lost
<1>10. ASSUME NEW j
       PROVE  Away(calls', j) <=> Away(T, j) \/ Dismisses(op, items, j)
  <2>1. ASSUME NEW n \in N, Dismissing(n, j)
        PROVE  Dismisses(op, items, j)
    BY <1>5, <2>1, Zenon DEF Dismissing, Dismisses
  <2>2. ASSUME Dismisses(op, items, j)
        PROVE  \E n \in N : n.at = "out" /\ Dismissing(n, j)
    BY <1>5, <2>2, ZenonT(30) DEF Dismissing, Dismisses
  <2> QED
    BY <1>6, <2>1, <2>2 DEF Away
<1>11. ASSUME NEW j
       PROVE  Seen(calls', j) <=> Seen(T, j) \/ ReadsThem(op, items, j)
  <2>1. ASSUME NEW n \in N, ReadingIt(n, j)
        PROVE  ReadsThem(op, items, j)
    BY <1>5, <2>1, Zenon DEF ReadingIt, ReadsThem
  <2>2. ASSUME ReadsThem(op, items, j)
        PROVE  \E n \in N : n.at = "out" /\ ReadingIt(n, j)
    BY <1>5, <2>2, Zenon DEF ReadingIt, ReadsThem
  <2> QED
    BY <1>6, <2>1, <2>2 DEF Seen
<1> QED
  BY <1>7, <1>8, <1>9, <1>10, <1>11

LEMMA InboxKeepsSteps == InboxWaits /\ InboxKeeps /\ Bell!Next => InboxKeeps'
<1> SUFFICES ASSUME InboxWaits, InboxKeeps, Bell!Next PROVE InboxKeeps'
  OBVIOUS
<1>0. /\ ui = [f \in InboxFields |-> ui[f]] /\ AreCalls(calls)
      /\ server = [f \in {"row", "alerts"} |-> server[f]]
      /\ server.row = [i \in Item |-> server.row[i]]
      /\ InboxForms(calls) /\ Undisturbed(calls, Bell!Rows)
  BY DEF InboxWaits, InboxKeeps
<1> DEFINE Typed == /\ server' = [f \in {"row", "alerts"} |-> server'[f]]
                    /\ server'.row = [i \in Item |-> server'.row[i]]
\* Neither the rows nor the changes are touched.
<1>1. ASSUME Typed, server'.row = server.row, InboxForms(calls'), Undisturbed(calls', Bell!Rows),
             clean' => clean /\ SameWrites(calls, calls') /\ ui'.rows = ui.rows
      PROVE  InboxKeeps'
  BY <1>1, InboxStillFits DEF Bell!Rows, InboxKeeps, InboxFits, RowFits
<1>2. ASSUME NEW quiet, quiet = (Bell!Writes = {})
      PROVE  /\ quiet \in BOOLEAN
             /\ quiet => \A e \in calls : e.op = "poll"
  BY <1>2, Zenon DEF Bell!Writes, Bell!Polls
<1>3. CASE Bell!Bell
  <2>1. CASE ui' = [ui EXCEPT !.open = ~@] /\ calls' = calls
    BY <1>0, <2>1, <1>3, <1>1 DEF InboxFields, Bell!Bell, SameWrites
  <2>2. CASE /\ ui' = [ui EXCEPT !.open = TRUE, !.at = "loading"]
             /\ calls' = calls \cup {Bell!Poll(made, Bell!Writes = {})}
    BY <1>0, <2>2, <1>3, <1>2, InboxPolls, <1>1 DEF InboxFields, Bell!Bell
  <2> QED
    BY <1>3, <2>1, <2>2 DEF Bell!Bell
<1>4. CASE Bell!Tick \/ Bell!Retry
  <2>1. server' = server /\ clean' = clean /\ ui'.rows = ui.rows
    BY <1>0, <1>4, Zenon DEF Bell!Tick, Bell!Retry, InboxFields
  <2>2. PICK quiet : quiet = (Bell!Writes = {})
    OBVIOUS
  <2>3. PICK S : S = (IF Bell!Portal THEN calls ELSE Bell!Writes)
    OBVIOUS
  <2>4. calls' = S \cup {Bell!Poll(made, quiet)}
    BY <1>4, <2>2, <2>3 DEF Bell!Tick, Bell!Retry, Bell!Polling
  <2>5. InboxForms(S) /\ Undisturbed(S, Bell!Rows) /\ SameWrites(calls, S)
        /\ \A e \in S : e \in calls
    <3>1. CASE S = calls
      BY <1>0, <3>1 DEF SameWrites
    <3>2. CASE S = Bell!Writes
      <4>1. \A e : e \in S <=> e \in calls /\ e.op # "poll"
        BY <3>2 DEF Bell!Writes, Bell!Polls
      <4> QED
        BY <1>0, <4>1, Zenon DEF SameWrites, InboxForms, Undisturbed
    <3> QED
      BY <2>3, <3>1, <3>2
  <2>6. quiet \in BOOLEAN /\ (quiet => \A e \in S : e.op = "poll")
    BY <1>2, <2>2, <2>5
  <2>7. InboxForms(calls') /\ Undisturbed(calls', Bell!Rows) /\ SameWrites(S, calls')
    BY <2>4, <2>5, <2>6, InboxPolls
  <2>8. SameWrites(calls, calls')
    BY <2>5, <2>7 DEF SameWrites
  <2> QED
    BY <1>0, <1>1, <2>1, <2>7, <2>8
<1>5. CASE Bell!ClickElsewhere \/ \E i \in Item : Bell!HideAlert(i)
  BY <1>0, <1>5, <1>1 DEF Bell!ClickElsewhere, Bell!HideAlert, InboxFields, SameWrites
<1>6. CASE \E alerts \in SUBSET Item : Bell!Alert(alerts)
  BY <1>6, <1>0, <1>1 DEF Bell!Alert, SameWrites
\* What is disturbed promises nothing.
<1>7. ASSUME NEW T, \A c \in T : c.op = "poll" => c.value = FALSE, NEW rows
      PROVE  Undisturbed(T, rows)
  BY <1>7, Zenon DEF Undisturbed
<1>8. CASE \E i \in Item : Bell!Notify(i)
  <2>1. PICK i \in Item : server' = [server EXCEPT !.row[i] = "unread"]
    BY <1>8, Zenon DEF Bell!Notify
  <2>2. PICK r : r = [server.row EXCEPT ![i] = "unread"]
    BY Zenon
  <2>3. server' = [server EXCEPT !.row = r]
    BY <2>1, <2>2
  <2>4. r = [j \in Item |-> r[j]]
    BY <1>0, <2>2
  <2>5. Typed
    BY <1>0, <2>3, <2>4
  <2>6. InboxForms(calls') /\ \A c \in calls' : c.op = "poll" => c.value = FALSE
    BY <1>0, <1>8, InboxDisturbs, Zenon DEF Bell!Notify
  <2>7. ~clean'
    BY <1>8 DEF Bell!Notify
  <2>8. Undisturbed(calls', Bell!Rows')
    BY <2>6, Zenon DEF Undisturbed
  <2> QED
    BY <2>5, <2>6, <2>7, <2>8 DEF InboxKeeps
<1>8a. /\ "read" \in InboxOps /\ "read each" \in InboxOps /\ "read all" \in InboxOps
       /\ "dismiss" \in InboxOps /\ "dismiss all" \in InboxOps
  BY DEF InboxOps
\* A change that the panel shows and sends.
<1>9. ASSUME NEW u, NEW items, NEW op \in InboxOps, Bell!Write(u, items, op),
             \E x, y : \/ u = [ui EXCEPT !.rows = x]
                       \/ u = [ui EXCEPT !.rows = x, !.hidden = y],
             clean => /\ u.rows = [i \in Item |-> u.rows[i]]
                      /\ \A i \in Item : RowFits(calls, server.row[i], ui.rows[i], i)
                                         => RowFits(calls', server.row[i], u.rows[i], i)
      PROVE  InboxKeeps'
  <2>1. /\ ui' = u /\ server' = server /\ clean' = clean
        /\ calls' = Bell!Disturb(calls) \cup {Bell!Call(made, 0, i, op, None, None) : i \in items}
    BY <1>9 DEF Bell!Write
  <2>2. /\ InboxForms(calls') /\ (Lost(calls) => Lost(calls'))
        /\ \A c \in calls' : c.op = "poll" => c.value = FALSE
    BY <1>0, <1>9, <2>1, InboxWrites, Zenon
  <2>3. Undisturbed(calls', Bell!Rows')
    BY <2>2, Zenon DEF Undisturbed
  <2>4. ASSUME clean'
        PROVE  InboxFits'
    <3>1. InboxFits
      BY <2>1, <2>4 DEF InboxKeeps
    <3> QED
      BY <1>9, <2>1, <2>2, <2>4, <3>1, Zenon DEF InboxFits
  <2> QED
    BY <1>0, <2>1, <2>2, <2>3, <2>4 DEF InboxKeeps
<1>10. ASSUME clean
       PROVE  ui.rows = [i \in Item |-> ui.rows[i]]
  BY <1>10 DEF InboxKeeps, InboxFits
<1>11. ASSUME NEW i \in Item, Bell!Dismiss(i)
       PROVE  InboxKeeps'
  <2>1. PICK x : x = [ui.rows EXCEPT ![i] = None]
    BY Zenon
  <2>2. PICK u : u = [ui EXCEPT !.rows = x]
    BY Zenon
  <2>3. Bell!Write(u, {i}, "dismiss")
    BY <1>11, <2>1, <2>2 DEF Bell!Dismiss
  <2>4. u.rows = x
    BY <1>0, <2>2 DEF InboxFields
  <2>5. calls' = Bell!Disturb(calls) \cup {Bell!Call(made, 0, j, "dismiss", None, None) : j \in {i}}
    BY <2>3 DEF Bell!Write
  <2>6. \A j : /\ Away(calls', j) <=> Away(calls, j) \/ j = i
               /\ Seen(calls', j) <=> Seen(calls, j)
    <3>1. \A j : /\ Away(calls', j) <=> Away(calls, j) \/ Dismisses("dismiss", {i}, j)
                 /\ Seen(calls', j) <=> Seen(calls, j) \/ ReadsThem("dismiss", {i}, j)
      BY <1>0, <1>8a, <2>5, InboxWrites, Zenon
    <3> QED
      BY <3>1 DEF Dismisses, ReadsThem
  <2>7. ASSUME clean
        PROVE  /\ x = [j \in Item |-> x[j]] /\ x[i] = None
               /\ \A j \in Item : j # i => x[j] = ui.rows[j]
    BY <1>10, <2>1, <2>7
  <2>8. ASSUME clean, NEW j \in Item, RowFits(calls, server.row[j], ui.rows[j], j)
        PROVE  RowFits(calls', server.row[j], x[j], j)
    BY <2>6, <2>7, <2>8 DEF RowFits
  <2> QED
    BY <1>9, <2>2, <2>3, <2>4, <2>7, <2>8, Zenon DEF InboxOps
\* Reading some of the rows that are shown as unread.
<1>12. ASSUME NEW x, NEW which \in SUBSET Item, x = Bell!Read(ui.rows, which),
              \A j \in Item :
                /\ Away(calls', j) <=> Away(calls, j)
                /\ Seen(calls, j) => Seen(calls', j)
                /\ j \in which /\ ui.rows[j] = "unread" => Seen(calls', j)
                /\ Seen(calls', j) /\ ui.rows[j] = "unread" => Seen(calls, j) \/ j \in which,
              NEW j \in Item, RowFits(calls, server.row[j], ui.rows[j], j)
       PROVE  RowFits(calls', server.row[j], x[j], j)
  BY <1>12, NoneIsNoRow DEF Bell!Read, Bell!Kept, RowFits
<1>13. ASSUME NEW i \in Item, Bell!Click(i)
       PROVE  InboxKeeps'
  <2>1. CASE ui' = [ui EXCEPT !.open = FALSE] /\ calls' = calls /\ server' = server /\ clean' = clean
    BY <1>0, <2>1, <1>1 DEF InboxFields, SameWrites
  <2>2. CASE ui.rows[i] = "unread" /\ Bell!Write([ui EXCEPT !.rows = Bell!Read(@, {i})], {i}, "read")
    <3>1. PICK x : x = Bell!Read(ui.rows, {i})
      OBVIOUS
    <3>2. PICK u : u = [ui EXCEPT !.rows = x]
      BY Zenon
    <3>3. Bell!Write(u, {i}, "read")
      BY <2>2, <3>1, <3>2
    <3>4. u.rows = x
      BY <1>0, <3>2 DEF InboxFields
    <3>5. calls' = Bell!Disturb(calls) \cup {Bell!Call(made, 0, j, "read", None, None) : j \in {i}}
      BY <3>3 DEF Bell!Write
    <3>6. \A j : /\ Away(calls', j) <=> Away(calls, j)
                 /\ Seen(calls', j) <=> Seen(calls, j) \/ j = i
      <4>1. \A j : /\ Away(calls', j) <=> Away(calls, j) \/ Dismisses("read", {i}, j)
                   /\ Seen(calls', j) <=> Seen(calls, j) \/ ReadsThem("read", {i}, j)
        BY <1>0, <1>8a, <3>5, InboxWrites, Zenon
      <4> QED
        BY <4>1 DEF Dismisses, ReadsThem
    <3>7. x = [j \in Item |-> x[j]]
      BY <3>1 DEF Bell!Read
    <3>8. ASSUME NEW j \in Item, RowFits(calls, server.row[j], ui.rows[j], j)
          PROVE  RowFits(calls', server.row[j], x[j], j)
      BY <1>12, <3>1, <3>6, <3>8
    <3> QED
      BY <1>9, <3>2, <3>3, <3>4, <3>7, <3>8, Zenon DEF InboxOps
  <2> QED
    BY <1>13, <2>1, <2>2 DEF Bell!Click
<1>14. CASE Bell!ReadAll
  <2>1. PICK x : x = Bell!Read(ui.rows, Item)
    OBVIOUS
  <2>2. PICK u : u = [ui EXCEPT !.rows = x]
    BY Zenon
  <2>3. PICK items, op : /\ Bell!Write(u, items, op)
                         /\ \/ items = Bell!Unread /\ op = "read each"
                            \/ items = {None} /\ op = "read all"
    <3>1. Bell!Write(u, IF Bell!Portal THEN Bell!Unread ELSE {None},
                     IF Bell!Portal THEN "read each" ELSE "read all")
      BY <1>14, <2>1, <2>2, Zenon DEF Bell!ReadAll
    <3>2. CASE Bell!Portal
      BY <3>1, <3>2, Zenon
    <3>3. CASE ~Bell!Portal
      BY <3>1, <3>3, Zenon
    <3> QED
      BY <3>2, <3>3, Zenon
  <2>4. u.rows = x
    BY <1>0, <2>2 DEF InboxFields
  <2>5. calls' = Bell!Disturb(calls) \cup {Bell!Call(made, 0, j, op, None, None) : j \in items}
    BY <2>3, Zenon DEF Bell!Write
  <2>6. \A j : /\ Away(calls', j) <=> Away(calls, j)
               /\ Seen(calls', j) <=> Seen(calls, j) \/ op = "read all" \/ j \in Bell!Unread
    <3>1. \A j : /\ Away(calls', j) <=> Away(calls, j) \/ Dismisses(op, items, j)
                 /\ Seen(calls', j) <=> Seen(calls, j) \/ ReadsThem(op, items, j)
      BY <1>0, <1>8a, <2>3, <2>5, InboxWrites, Zenon
    <3> QED
      BY <2>3, <3>1, Zenon DEF Dismisses, ReadsThem
  <2>7. \A j \in Item : j \in Bell!Unread <=> ui.rows[j] = "unread"
    BY DEF Bell!Unread
  <2>8. x = [j \in Item |-> x[j]]
    BY <2>1 DEF Bell!Read
  <2>9. ASSUME NEW j \in Item, RowFits(calls, server.row[j], ui.rows[j], j)
        PROVE  RowFits(calls', server.row[j], x[j], j)
    BY <1>12, <2>1, <2>6, <2>7, <2>9, Zenon
  <2> QED
    BY <1>9, <2>2, <2>3, <2>4, <2>8, <2>9, Zenon DEF InboxOps
<1>15. CASE Bell!DismissAll
  <2>1. PICK x : x = [i \in Item |-> None]
    BY Zenon
  <2>2. PICK u : u = [ui EXCEPT !.rows = x, !.hidden = ui.alerts]
    OBVIOUS
  <2>3. Bell!Write(u, {None}, "dismiss all")
    BY <1>15, <2>1, <2>2, Zenon DEF Bell!DismissAll
  <2>4. u.rows = x
    BY <1>0, <2>2 DEF InboxFields
  <2>5. calls' = Bell!Disturb(calls) \cup
                   {Bell!Call(made, 0, j, "dismiss all", None, None) : j \in {None}}
    BY <2>3, Zenon DEF Bell!Write
  <2>6. \A j : Away(calls', j)
    <3>1. \A j : Away(calls', j) <=> Away(calls, j) \/ Dismisses("dismiss all", {None}, j)
      BY <1>0, <1>8a, <2>5, InboxWrites, Zenon
    <3> QED
      BY <3>1 DEF Dismisses
  <2>7. x = [j \in Item |-> x[j]] /\ \A j \in Item : x[j] = None
    BY <2>1
  <2>8. ASSUME NEW j \in Item
        PROVE  RowFits(calls', server.row[j], x[j], j)
    BY <2>6, <2>7 DEF RowFits
  <2> QED
    BY <1>9, <2>2, <2>3, <2>4, <2>7, <2>8, Zenon DEF InboxOps
<1>16. ASSUME NEW c \in calls, Bell!Polled(c)
       PROVE  InboxKeeps'
  <2>1. /\ calls' = calls \ {c} /\ server' = server /\ c.op = "poll"
    BY <1>16 DEF Bell!Polled, Bell!Ends
  <2>2. SameWrites(calls, calls') /\ InboxForms(calls')
    BY <1>0, <2>1 DEF SameWrites, InboxForms
  <2>3. Undisturbed(calls', Bell!Rows)
    BY <1>0, <2>1, Zenon DEF Undisturbed
  <2>4. CASE c.answer.rows = None
    BY <1>0, <1>16, <2>4, <1>1, <2>1, <2>2, <2>3 DEF Bell!Polled, Bell!Or, InboxFields
  <2>5. CASE c.answer.rows # None
    <3>1. ui'.rows = c.answer.rows /\ clean' = c.value
      BY <1>0, <1>16, <2>5 DEF Bell!Polled, Bell!Or, InboxFields
    <3>2. ASSUME clean'
          PROVE  InboxFits'
      <4>1. c.value # FALSE
        BY <3>1, <3>2
      <4>2. (\A e \in calls : e.op = "poll") /\ ui'.rows = Bell!Rows
        BY <1>0, <2>1, <2>5, <3>1, <4>1, Zenon DEF Undisturbed
      <4>3. \A i : ~Away(calls', i) /\ ~Seen(calls', i)
        BY <2>1, <4>2, Zenon DEF Away, Seen, Dismissing, ReadingIt
      <4>4. ui'.rows = [i \in Item |-> ui'.rows[i]]
        BY <4>2 DEF Bell!Rows
      <4>5. ASSUME NEW i \in Item
            PROVE  RowFits(calls', server'.row[i], ui'.rows[i], i)
        BY <4>2, <2>1, <4>3 DEF Bell!Rows, RowFits, Bell!Kept
      <4> QED
        BY <4>4, <4>5 DEF InboxFits
    <3>3. Undisturbed(calls', Bell!Rows')
      BY <2>1, <2>3 DEF Bell!Rows
    <3> QED
      BY <1>0, <2>1, <2>2, <3>2, <3>3 DEF InboxKeeps
  <2> QED
    BY <2>4, <2>5
<1>17. ASSUME NEW c \in calls, Bell!PollServed(c) \/ Bell!PollFails(c)
       PROVE  InboxKeeps'
  <2>1. PICK x : /\ calls' = (calls \ {c}) \cup {[c EXCEPT !.answer = x]}
                 /\ x = [f \in PollFields |-> x[f]]
                 /\ x.rows \in {c.answer.rows, Bell!Rows}
    <3>0. c.op = "poll" /\ c.answer = [f \in PollFields |-> c.answer[f]]
      BY <1>0, <1>17 DEF Bell!PollServed, Bell!PollFails, InboxForms, InboxForm
    <3>1. CASE Bell!PollFails(c)
      <4>1. PICK x : x = [c.answer EXCEPT !.pending = {}]
        BY Zenon
      <4>2. x = [f \in PollFields |-> x[f]] /\ x.rows = c.answer.rows
        BY <3>0, <4>1 DEF PollFields
      <4>3. calls' = (calls \ {c}) \cup {[c EXCEPT !.answer = x]}
        BY <3>1, <4>1 DEF Bell!PollFails, Bell!Replace
      <4> QED
        BY <4>2, <4>3
    <3>2. CASE Bell!PollServed(c)
      <4>1. PICK x : x = [c.answer EXCEPT !.rows = Bell!Rows, !.pending = @ \ {"rows"}]
        OBVIOUS
      <4>2. PICK y : y = [c.answer EXCEPT !.alerts = server.alerts, !.pending = @ \ {"alerts"}]
        OBVIOUS
      <4>3. x = [f \in PollFields |-> x[f]] /\ x.rows = Bell!Rows
        BY <3>0, <4>1, Zenon DEF PollFields
      <4>4. y = [f \in PollFields |-> y[f]] /\ y.rows = c.answer.rows
        BY <3>0, <4>2, Zenon DEF PollFields
      <4>5. \/ calls' = (calls \ {c}) \cup
                 {[c EXCEPT !.answer = [c.answer EXCEPT !.rows = Bell!Rows, !.pending = @ \ {"rows"}]]}
            \/ calls' = (calls \ {c}) \cup
                 {[c EXCEPT !.answer = [c.answer EXCEPT !.alerts = server.alerts,
                                                        !.pending = @ \ {"alerts"}]]}
        BY <3>2, Zenon DEF Bell!PollServed, Bell!Replace
      <4>6. \/ calls' = (calls \ {c}) \cup {[c EXCEPT !.answer = x]}
            \/ calls' = (calls \ {c}) \cup {[c EXCEPT !.answer = y]}
        BY <4>1, <4>2, <4>5
      <4> QED
        BY <4>3, <4>4, <4>6
    <3> QED
      BY <1>17, <3>1, <3>2
  <2>2. PICK d : d = [c EXCEPT !.answer = x]
    BY Zenon
  <2>3. d.op = c.op /\ d.value = c.value /\ d.answer = x
    BY <1>0, <2>2 DEF AreCalls, IsCall, CallFields
  <2>4. /\ ui' = ui /\ server' = server /\ clean' = clean /\ c.op = "poll"
        /\ calls' = (calls \ {c}) \cup {d}
    BY <1>17, <2>1, <2>2 DEF Bell!PollServed, Bell!PollFails
  <2>5. InboxForms(calls')
    BY <1>0, <2>1, <2>3, <2>4 DEF InboxForms, InboxForm
  <2>6. SameWrites(calls, calls')
    BY <2>3, <2>4 DEF SameWrites
  <2>7. ASSUME NEW e \in calls', e.op = "poll", e.value # FALSE
        PROVE  (\A g \in calls' : g.op = "poll") /\ e.answer.rows \in {None, Bell!Rows}
    BY <1>0, <2>1, <2>3, <2>4, <2>7, Zenon DEF Undisturbed
  <2>8. Undisturbed(calls', Bell!Rows)
    BY <2>7, Zenon DEF Undisturbed
  <2> QED
    BY <1>0, <1>1, <2>4, <2>5, <2>6, <2>8
<1>18. ASSUME NEW c \in calls, Bell!Written(c)
       PROVE  InboxKeeps'
  <2>1. /\ calls' = calls \ {c} /\ server' = server /\ clean' = clean
        /\ c.op # "poll" /\ c.at = "ok"
    BY <1>18 DEF Bell!Written, Bell!Ends
  <2>2. ui'.rows = ui.rows
    BY <1>0, <1>18 DEF Bell!Written, InboxFields
  <2>3. InboxForms(calls') /\ Undisturbed(calls', Bell!Rows')
    BY <1>0, <2>1, Zenon DEF InboxForms, Undisturbed, Bell!Rows
  <2>4. Lost(calls) => Lost(calls')
    BY <2>1 DEF Lost
  <2>5. \A i : (Away(calls, i) <=> Away(calls', i)) /\ (Seen(calls, i) <=> Seen(calls', i))
    BY <2>1 DEF Away, Seen
  <2>6. InboxFits => InboxFits'
    BY <2>1, <2>2, <2>4, <2>5 DEF InboxFits, RowFits
  <2> QED
    BY <1>0, <2>1, <2>3, <2>6 DEF InboxKeeps
<1>19. ASSUME NEW c \in calls, Bell!WriteFails(c)
       PROVE  InboxKeeps'
  <2>1. PICK S : S = calls \ {c}
    BY Zenon
  <2>2. c.op # "poll" /\ calls' = Bell!Reload(S) /\ server' = server /\ ~clean'
    BY <1>19, <2>1 DEF Bell!WriteFails
  <2>3. \A e \in S : e.op = "poll" => e.value = FALSE
    BY <1>0, <2>1, <2>2, Zenon DEF Undisturbed
  <2>4. InboxForms(S) /\ Undisturbed(S, Bell!Rows)
    BY <1>0, <2>1, <2>3, Zenon DEF InboxForms, Undisturbed
  <2>5. InboxForms(calls') /\ Undisturbed(calls', Bell!Rows)
    <3>1. CASE calls' = S
      BY <2>4, <3>1
    <3>2. CASE calls' = S \cup {Bell!Poll(MaxCalls[page], S \subseteq Bell!Polls)}
      <4>1. PICK quiet : quiet = (S \subseteq Bell!Polls)
        OBVIOUS
      <4>2. quiet \in BOOLEAN /\ (quiet => \A e \in S : e.op = "poll")
        BY <4>1, Zenon DEF Bell!Polls
      <4>3. calls' = S \cup {Bell!Poll(MaxCalls[page], quiet)}
        BY <3>2, <4>1
      <4> QED
        BY <2>4, <4>2, <4>3, InboxPolls
    <3> QED
      BY <2>2, <3>1, <3>2 DEF Bell!Reload
  <2>6. Undisturbed(calls', Bell!Rows')
    BY <2>2, <2>5 DEF Bell!Rows
  <2> QED
    BY <1>0, <2>2, <2>5, <2>6 DEF InboxKeeps
<1>20. ASSUME NEW c \in calls, NEW x, NEW y, c.op # "poll", c.at = "out", x # "out",
              calls' = (calls \ {c}) \cup {Answering(c, x, y)}
       PROVE  /\ InboxForms(calls') /\ \A rows : Undisturbed(calls', rows)
              /\ (Lost(calls) => Lost(calls')) /\ (x = "no" => Lost(calls'))
              /\ \A i : /\ Away(calls', i) => Away(calls, i)
                        /\ Away(calls, i) => Away(calls', i) \/ Dismissing(c, i)
                        /\ Seen(calls', i) => Seen(calls, i)
                        /\ Seen(calls, i) => Seen(calls', i) \/ ReadingIt(c, i)
  <2>1. calls' = (calls \ {c}) \cup {Answering(c, x, y)}
    BY <1>20
  <2>2. PICK d : /\ calls' = (calls \ {c}) \cup {d} /\ IsCall(d)
                 /\ SameCall(c, d) /\ d.value = c.value /\ d.prev = c.prev /\ d.step = c.step
                 /\ d.at = x /\ d.answer = y
    BY <1>0, <2>1, OneAnswered
  <2>3. d.op = c.op
    BY <2>2 DEF SameCall
  <2>4. \A e \in calls : e.op = "poll" => e.value = FALSE
    BY <1>0, <1>20, Zenon DEF Undisturbed
  <2>5. ASSUME NEW rows
        PROVE  Undisturbed(calls', rows)
    BY <1>20, <2>2, <2>3, <2>4, Zenon DEF Undisturbed
  <2>6. InboxForms(calls')
    BY <1>0, <1>20, <2>2, <2>3, Zenon DEF InboxForms, InboxForm
  <2>7. (Lost(calls) => Lost(calls')) /\ (x = "no" => Lost(calls'))
    BY <1>20, <2>2, <2>3 DEF Lost
  <2>8. ASSUME NEW i
        PROVE  /\ Away(calls', i) => Away(calls, i)
               /\ Away(calls, i) => Away(calls', i) \/ Dismissing(c, i)
    BY <1>20, <2>2 DEF Away
  <2>9. ASSUME NEW i
        PROVE  /\ Seen(calls', i) => Seen(calls, i)
               /\ Seen(calls, i) => Seen(calls', i) \/ ReadingIt(c, i)
    BY <1>20, <2>2 DEF Seen
  <2> QED
    BY <2>5, <2>6, <2>7, <2>8, <2>9
<1>21. ASSUME NEW c \in calls, Bell!Refuse(c)
       PROVE  InboxKeeps'
  <2>1. /\ calls' = (calls \ {c}) \cup {Answering(c, "no", None)}
        /\ c.op # "poll" /\ c.at = "out" /\ server' = server /\ ui' = ui /\ clean' = clean
    BY <1>21 DEF Bell!Refuse, Bell!Refused, Bell!Fault, Bell!Replace, Answering
  <2>2. InboxForms(calls') /\ Undisturbed(calls', Bell!Rows') /\ Lost(calls')
    BY <1>20, <2>1
  <2>3. InboxFits => InboxFits'
    BY <2>1, <2>2 DEF InboxFits
  <2> QED
    BY <1>0, <2>1, <2>2, <2>3 DEF InboxKeeps
<1>22. ASSUME NEW c \in calls, Bell!Serve(c)
       PROVE  InboxKeeps'
  <2>1. /\ calls' = (calls \ {c}) \cup {Answering(c, "ok", None)}
        /\ c.op # "poll" /\ c.at = "out" /\ ui' = ui /\ clean' = clean
    BY <1>22, Zenon DEF Bell!Serve, Bell!Answered, Bell!Replace, Answering
  <2>2. /\ InboxForms(calls') /\ Undisturbed(calls', Bell!Rows') /\ (Lost(calls) => Lost(calls'))
        /\ \A i : /\ Away(calls', i) => Away(calls, i)
                  /\ Away(calls, i) => Away(calls', i) \/ Dismissing(c, i)
                  /\ Seen(calls', i) => Seen(calls, i)
                  /\ Seen(calls, i) => Seen(calls', i) \/ ReadingIt(c, i)
    BY <1>20, <2>1
  <2>3. PICK r : /\ server' = [server EXCEPT !.row = r]
                 /\ r = CASE c.op \in {"read", "read each"} -> Bell!Read(server.row, {c.item})
                          [] c.op = "read all" -> Bell!Read(server.row, Item)
                          [] c.op = "dismiss" -> [server.row EXCEPT ![c.item] = "dismissed"]
                          [] c.op = "dismiss all" ->
                               [i \in Item |-> IF server.row[i] \in Bell!Kept THEN "dismissed"
                                                                             ELSE server.row[i]]
    BY <1>22, Zenon DEF Bell!Serve
  <2>4. server' = [f \in {"row", "alerts"} |-> server'[f]] /\ server'.row = r
    <3>1. server' = [server EXCEPT !.row = r]
      BY <2>3, Zenon
    <3> QED
      BY <1>0, <3>1
  <2>5. c.op \in InboxOps
    BY <1>0, <2>1, Zenon DEF InboxForms, InboxForm
  <2>6. /\ r = [i \in Item |-> r[i]]
        /\ \A i \in Item :
             \/ r[i] = server.row[i] /\ ~Dismissing(c, i)
                /\ (ReadingIt(c, i) => server.row[i] # "unread")
             \/ r[i] = "read" /\ server.row[i] = "unread" /\ ReadingIt(c, i) /\ ~Dismissing(c, i)
             \/ r[i] \notin Bell!Kept /\ Dismissing(c, i)
    <3>1. CASE c.op \in {"read", "read each"}
      <4>1. r = Bell!Read(server.row, {c.item})
        BY <2>3, <3>1, Zenon
      <4> QED
        BY <3>1, <4>1, Zenon DEF Bell!Read, Dismissing, ReadingIt
    <3>2. CASE c.op = "read all"
      <4>1. r = Bell!Read(server.row, Item)
        BY <2>3, <3>2, Zenon
      <4> QED
        BY <3>2, <4>1, Zenon DEF Bell!Read, Dismissing, ReadingIt
    <3>3. CASE c.op = "dismiss"
      BY <2>3, <3>3, <1>0 DEF Bell!Kept, Dismissing, ReadingIt
    <3>4. CASE c.op = "dismiss all"
      <4>1. r = [i \in Item |-> IF server.row[i] \in Bell!Kept THEN "dismissed" ELSE server.row[i]]
        BY <2>3, <3>4, Zenon
      <4> QED
        BY <3>4, <4>1, Zenon DEF Bell!Kept, Dismissing, ReadingIt
    <3> QED
      BY <2>5, <3>1, <3>2, <3>3, <3>4, Zenon DEF InboxOps
  <2>7. ASSUME NEW i \in Item, RowFits(calls, server.row[i], ui.rows[i], i)
        PROVE  RowFits(calls', r[i], ui.rows[i], i)
    BY <2>1, <2>2, <2>6, <2>7 DEF Away, Seen, Bell!Kept, RowFits
  <2>8. InboxFits => InboxFits'
    BY <2>1, <2>2, <2>4, <2>7, Zenon DEF InboxFits
  <2> QED
    BY <1>0, <2>1, <2>2, <2>4, <2>6, <2>8 DEF InboxKeeps
<1> QED
  BY <1>3, <1>4, <1>5, <1>6, <1>8, <1>11, <1>13, <1>14, <1>15, <1>16, <1>17, <1>18, <1>19,
     <1>21, <1>22 DEF Bell!Next

-----------------------------------------------------------------------------
(* The layout of a day: orders, and folds over a set of positions          *)

\* Of any finite sets one contains none of the others.
LEMMA SmallestSet ==
  ASSUME NEW F, F # {}, \A S \in F : IsFiniteSet(S)
  PROVE  \E S \in F : \A T \in F : T \subseteq S => T = S
<1> DEFINE U == UNION F
<1>1. F \subseteq FiniteSubsetsOf(U)
  BY DEF FiniteSubsetsOf
<1>2. PICK S \in F : \A T \in F : ~ (<<T, S>> \in StrictSubsetOrdering(U))
  BY <1>1, FS_StrictSubsetOrderingWellFounded, WFMin, Zenon
<1>3. \A T \in F : T \subseteq S => T = S
  BY <1>2, Zenon DEF StrictSubsetOrdering
<1> QED
  BY <1>3

\* Any numbers have a least one.
LEMMA LeastNumber ==
  ASSUME NEW S, S \subseteq Nat, S # {}
  PROVE  \E n \in S : \A m \in S : n <= m
<1> DEFINE F == {0..n : n \in S}
<1>1. \A T \in F : IsFiniteSet(T)
  BY FS_Interval
<1>2. \E T \in F : \A Q \in F : Q \subseteq T => Q = T
  <2>1. F # {}
    BY Zenon
  <2> HIDE DEF F
  <2> QED
    BY <1>1, <2>1, SmallestSet
<1>3. PICK n \in S : \A Q \in F : Q \subseteq 0..n => Q = 0..n
  BY <1>2, Zenon
<1>4. ASSUME NEW m \in S, m < n PROVE FALSE
  <2>1. 0..m \in F /\ 0..m \subseteq 0..n /\ n \in 0..n /\ n \notin 0..m
    BY <1>4
  <2> QED
    BY <1>3, <2>1, Zenon
<1>5. \A m \in S : n <= m
  BY <1>4
<1> QED
  BY <1>5

LEMMA LatestExists ==
  ASSUME NEW S, IsFiniteSet(S), S # {}, NEW R, Linear(S, R)
  PROVE  \E x \in S : Latest(S, R, x)
<1> DEFINE F == {T \in SUBSET S : T # {} /\ ~\E x \in T : Latest(T, R, x)}
<1>1. SUFFICES ASSUME F # {} PROVE FALSE
  OBVIOUS
<1>2. \A T \in F : IsFiniteSet(T)
  BY FS_Subset
<1> HIDE DEF F
<1>3. PICK T \in F : \A Q \in F : Q \subseteq T => Q = T
  BY <1>1, <1>2, SmallestSet
<1> USE DEF F
<1>4. PICK x \in T : TRUE
  OBVIOUS
<1>5. T \ {x} # {}
  BY <1>3 DEF Latest
<1>6. T \ {x} \notin F
  BY <1>3
<1>7. PICK y \in T \ {x} : Latest(T \ {x}, R, y)
  BY <1>5, <1>6
<1>8. CASE <<x, y>> \in R
  <2>1. Latest(T, R, y)
    BY <1>7, <1>8 DEF Latest
  <2> QED
    BY <2>1
<1>9. CASE <<y, x>> \in R
  <2>1. Latest(T, R, x)
    BY <1>7, <1>9, Zenon DEF Latest, Linear
  <2> QED
    BY <2>1
<1> QED
  BY <1>8, <1>9 DEF Linear

LEMMA OrderExists ==
  ASSUME NEW S, IsFiniteSet(S), NEW R, Linear(S, R)
  PROVE  \E seq : Ascends(seq, S, R)
<1> DEFINE F == {T \in SUBSET S : ~\E seq : Ascends(seq, T, R)}
<1>1. SUFFICES ASSUME F # {} PROVE FALSE
  OBVIOUS
<1>2. \A T \in SUBSET S : IsFiniteSet(T)
  BY FS_Subset
<1>3. \A T \in F : IsFiniteSet(T)
  BY <1>2
<1> HIDE DEF F
<1>4. PICK T \in F : \A Q \in F : Q \subseteq T => Q = T
  BY <1>1, <1>3, SmallestSet
<1> USE DEF F
<1>5. T # {}
  <2>1. SUFFICES ASSUME T = {} PROVE FALSE
    OBVIOUS
  <2>2. Cardinality(T) = 0
    BY <2>1, FS_EmptySet
  <2>3. Ascends([n \in 1..0 |-> n], T, R)
    BY <2>2 DEF Ascends
  <2> QED
    BY <2>3
<1>6. PICK x \in T : Latest(T, R, x)
  BY <1>2, <1>5, LatestExists DEF Linear
<1>7. PICK old : Ascends(old, T \ {x}, R)
  BY <1>4
<1>8. /\ Cardinality(T) \in Nat \ {0}
      /\ Cardinality(T \ {x}) = Cardinality(T) - 1
  BY <1>2, <1>5, FS_RemoveElement, FS_CardinalityType, FS_EmptySet, Zenon
<1> USE <1>8
<1> DEFINE N == Cardinality(T)
           new == [n \in 1..N |-> IF n = N THEN x ELSE old[n]]
<1>9. old \in [1..(N-1) -> T \ {x}] /\ \A m, n \in 1..(N-1) : m < n => <<old[m], old[n]>> \in R
  BY <1>7, Zenon DEF Ascends
<1> HIDE DEF N
<1>10. new \in [1..N -> T]
  BY <1>9 DEF N
<1>11. ASSUME NEW m \in 1..N, NEW n \in 1..N, m < n PROVE <<new[m], new[n]>> \in R
  <2>1. m \in 1..(N-1) /\ new[m] = old[m]
    BY <1>11 DEF N
  <2>2. CASE n = N
    BY <1>6, <1>9, <2>1, <2>2 DEF Latest
  <2>3. CASE n # N
    BY <1>9, <1>11, <2>1, <2>3 DEF N
  <2> QED
    BY <2>2, <2>3
<1>12. Ascends(new, T, R)
  BY <1>10, <1>11 DEF Ascends, N
<1> QED
  BY <1>12

LEMMA CountsAlike == \A S : Calendar!Cardinality(S) = Cardinality(S)
  BY DEF Calendar!Cardinality, Cardinality

\* What is put in order is all there, each once.
LEMMA OrderedWell ==
  ASSUME NEW S, IsFiniteSet(S), NEW R, Linear(S, R)
  PROVE  /\ Cardinality(S) \in Nat
         /\ Ascends(Calendar!Ordered(S, R), S, R)
         /\ \A x \in S : \E n \in 1..Cardinality(S) : Calendar!Ordered(S, R)[n] = x
<1> DEFINE seq == Calendar!Ordered(S, R)
           N == Cardinality(S)
<1>1. N \in Nat /\ IsFiniteSet(1..N) /\ Cardinality(1..N) = N
  BY FS_CardinalityType, FS_Interval
<1>2. Ascends(seq, S, R)
  <2>1. PICK old : Ascends(old, S, R)
    BY OrderExists
  <2>2. \E s \in [1..N -> S] : \A m, n \in DOMAIN s : m < n => <<s[m], s[n]>> \in R
    BY <2>1, Zenon DEF Ascends
  <2>3. /\ seq \in [1..N -> S]
        /\ \A m, n \in DOMAIN seq : m < n => <<seq[m], seq[n]>> \in R
    BY <2>2, CountsAlike, Zenon DEF Calendar!Ordered
  <2> QED
    BY <2>3 DEF Ascends
<1> USE <1>2
<1> HIDE DEF seq
<1>3. ASSUME NEW m \in 1..N, NEW n \in 1..N, m < n PROVE seq[m] # seq[n]
  BY <1>1, <1>3, Zenon DEF Ascends, Linear
<1>4. seq \in Injection(1..N, S)
  <2>1. \A m, n \in 1..N : seq[m] = seq[n] => m = n
    BY <1>1, <1>3
  <2> QED
    BY <2>1 DEF Ascends, Injection, IsInjective
<1>5. seq \in Surjection(1..N, S)
  BY <1>1, <1>4, FS_Injection
<1>6. \A x \in S : \E n \in 1..N : seq[n] = x
  BY <1>5 DEF Surjection
<1> QED
  BY <1>1, <1>6 DEF seq

LEMMA MaxIsGreatest ==
  ASSUME NEW S, S \subseteq Nat, S # {}, IsFiniteSet(S)
  PROVE  Calendar!Max(S) \in S /\ \A x \in S : x <= Calendar!Max(S)
<1> DEFINE R == {p \in S \X S : p[1] < p[2]}
<1>1. Linear(S, R)
  BY DEF Linear
<1> HIDE DEF R
<1>2. PICK x \in S : Latest(S, R, x)
  BY <1>1, LatestExists, Zenon
<1>3. ASSUME NEW y \in S PROVE x >= y
  <2>1. y = x \/ <<y, x>> \in R
    BY <1>2 DEF Latest
  <2> QED
    BY <2>1 DEF R
<1>4. \E z \in S : \A y \in S : z >= y
  BY <1>3
<1>5. Calendar!Max(S) \in S /\ \A y \in S : Calendar!Max(S) >= y
  BY <1>4, Zenon DEF Calendar!Max
<1> QED
  BY <1>5

LEMMA MinIsLeast ==
  ASSUME NEW S, S \subseteq Nat, S # {}
  PROVE  Calendar!Min(S) \in S /\ \A x \in S : Calendar!Min(S) <= x
<1>1. \E z \in S : \A y \in S : z <= y
  BY LeastNumber, Zenon
<1>2. Calendar!Min(S) \in S /\ \A y \in S : Calendar!Min(S) <= y
  BY <1>1, Zenon DEF Calendar!Min
<1> QED
  BY <1>2

\* The recursion of the fold is well founded.
LEMMA FoldExists ==
  ASSUME NEW n \in Nat, NEW seq
  PROVE  \E g : g = [T \in SUBSET (1..n) |-> Made(g, T, seq)]
<1> DEFINE F == {k \in Nat : ~\E g : g = [T \in UpTo(n, k) |-> Made(g, T, seq)]}
<1>0. ASSUME NEW T \in SUBSET (1..n)
      PROVE  IsFiniteSet(T) /\ Cardinality(T) \in Nat /\ Cardinality(T) <= n
  <2>1. IsFiniteSet(1..n) /\ Cardinality(1..n) = n
    BY FS_Interval
  <2> QED
    BY <2>1, FS_Subset, FS_CardinalityType, Zenon
<1>1. F = {}
  <2>1. SUFFICES ASSUME F # {} PROVE FALSE
    OBVIOUS
  <2>2. PICK k \in F : \A m \in F : k <= m
    BY <2>1, LeastNumber, Zenon
  <2>3. CASE k = 0
    <3>1. \A T \in UpTo(n, 0) : T = {}
      BY <1>0, FS_EmptySet DEF UpTo
    <3> DEFINE g == [T \in UpTo(n, 0) |-> <<>>]
    <3>2. g = [T \in UpTo(n, 0) |-> Made(g, T, seq)]
      BY <3>1 DEF Made
    <3> QED
      BY <2>3, <3>2
  <2>4. CASE k # 0
    <3>1. k - 1 \in Nat /\ k - 1 \notin F
      BY <2>2, <2>4
    <3>2. PICK old : old = [T \in UpTo(n, k - 1) |-> Made(old, T, seq)]
      BY <3>1
    <3> DEFINE g == [T \in UpTo(n, k) |-> Made(old, T, seq)]
    <3>3. ASSUME NEW T \in UpTo(n, k) PROVE Made(old, T, seq) = Made(g, T, seq)
      <4>1. CASE T = {}
        BY <4>1 DEF Made
      <4>2. CASE T # {}
        <5> DEFINE r == T \ {Calendar!Max(T)}
        <5>0. T \in SUBSET (1..n) /\ Cardinality(T) <= k /\ T \subseteq Nat
          BY DEF UpTo
        <5> USE <5>0
        <5>1. Calendar!Max(T) \in T
          BY <1>0, <4>2, MaxIsGreatest, Zenon
        <5>2. Cardinality(r) = Cardinality(T) - 1 /\ r \in SUBSET (1..n)
          BY <1>0, <5>1, FS_RemoveElement, Zenon
        <5>3. Cardinality(r) <= k - 1 /\ Cardinality(r) <= k
          BY <1>0, <2>2, <5>2
        <5>4. r \in UpTo(n, k - 1) /\ r \in UpTo(n, k)
          BY <5>2, <5>3 DEF UpTo
        <5> HIDE DEF r
        <5>5. g[r] = Made(old, r, seq) /\ old[r] = Made(old, r, seq)
          BY <3>2, <5>4
        <5> QED
          BY <4>2, <5>5 DEF Made, r
      <4> QED
        BY <4>1, <4>2
    <3>4. g = [T \in UpTo(n, k) |-> Made(g, T, seq)]
      BY <3>3
    <3> QED
      BY <3>4, Zenon
  <2> QED
    BY <2>3, <2>4
<1>2. UpTo(n, n) = SUBSET (1..n)
  BY <1>0 DEF UpTo
<1> QED
  BY <1>1, <1>2, Zenon

\* A fold from the left goes through its sequence.
LEMMA FoldsAlong ==
  ASSUME NEW n \in Nat, NEW seq, DOMAIN seq = 1..n
  PROVE  \E after : /\ after[0] = <<>>
                    /\ \A m \in 1..n : after[m] = Calendar!Assign(after[m - 1], seq[m])
                    /\ after[n] = Calendar!FoldLeft(Calendar!Assign, <<>>, seq)
<1> DEFINE iter == CHOOSE g : g = [T \in SUBSET (1..n) |-> Made(g, T, seq)]
           after == [m \in 0..n |-> iter[1..m]]
<1>1. iter = [T \in SUBSET (1..n) |-> Made(iter, T, seq)]
  BY FoldExists
<1>2. iter[1..n] = Calendar!FoldLeft(Calendar!Assign, <<>>, seq)
  BY DEF Calendar!FoldLeft, Calendar!MapThenFoldSet, Made
<1> HIDE DEF iter
<1>3. after[0] = <<>>
  <2>1. 1..0 = {} /\ {} \in SUBSET (1..n)
    OBVIOUS
  <2> QED
    BY <1>1, <2>1 DEF Made
<1>4. ASSUME NEW m \in 1..n PROVE after[m] = Calendar!Assign(after[m - 1], seq[m])
  <2>1. Calendar!Max(1..m) = m
    <3>1. 1..m \subseteq Nat /\ m \in 1..m /\ IsFiniteSet(1..m)
      BY FS_Interval
    <3>2. Calendar!Max(1..m) \in 1..m /\ m <= Calendar!Max(1..m)
      BY <3>1, MaxIsGreatest
    <3> QED
      BY <3>2
  <2>2. 1..m \in SUBSET (1..n) /\ 1..m # {} /\ (1..m) \ {m} = 1..(m - 1)
    <3>1. m \in 1..m /\ m \notin 1..(m - 1)
      OBVIOUS
    <3>2. \A x \in 1..m : x # m <=> x \in 1..(m - 1)
      OBVIOUS
    <3>3. 1..(m - 1) \subseteq 1..m /\ 1..m \subseteq 1..n
      OBVIOUS
    <3>4. (1..m) \ {m} = 1..(m - 1)
      BY <3>1, <3>2, <3>3, Zenon
    <3> QED
      BY <3>1, <3>3, <3>4, Zenon
  <2>3. iter[1..m] = Calendar!Assign(iter[1..(m - 1)], seq[m])
    BY <1>1, <2>1, <2>2, Zenon DEF Made
  <2> QED
    BY <2>3
<1>5. after[n] = Calendar!FoldLeft(Calendar!Assign, <<>>, seq)
  BY <1>2
<1> HIDE DEF after
<1> QED
  BY <1>3, <1>4, <1>5, Zenon

-----------------------------------------------------------------------------
(* The layout of a day: columns                                            *)

LEMMA DayTimes ==
  ASSUME NEW n, DayTyped(n)
  PROVE  /\ Calendar!Day = 1..n
         /\ IsFiniteSet(1..n) /\ Cardinality(1..n) = n
         /\ \A i \in 1..n : /\ Calendar!Begins(i) \in Nat /\ Calendar!Finishes(i) \in Nat
                            /\ Calendar!Begins(i) < Calendar!Finishes(i)
<1>1. IsFiniteSet(1..n) /\ Cardinality(1..n) = n
  BY FS_Interval DEF DayTyped
<1> QED
  BY <1>1, Zenon DEF DayTyped, Calendar!Day, Calendar!Begins, Calendar!Finishes, Calendar!Drawn

\* The schedules are gone through in the order in which they begin.
LEMMA SortedWell ==
  ASSUME NEW n, DayTyped(n)
  PROVE  /\ Calendar!Sorted \in [1..n -> 1..n]
         /\ \A k, m \in 1..n : k < m => /\ Calendar!Sorted[k] # Calendar!Sorted[m]
                                        /\ Calendar!Begins(Calendar!Sorted[k]) <= Calendar!Begins(Calendar!Sorted[m])
         /\ \A i \in 1..n : \E k \in 1..n : Calendar!Sorted[k] = i
<1> DEFINE D == 1..n
           R == {p \in D \X D : Calendar!Packs(p[1], p[2])}
<1>1. /\ Calendar!Day = D /\ IsFiniteSet(D) /\ Cardinality(D) = n
      /\ \A i \in D : Calendar!Begins(i) \in Nat /\ Calendar!Finishes(i) \in Nat /\ i \in Nat
  BY DayTimes, DayIsTyped
<1> USE <1>1
<1>2. Linear(D, R)
  <2>1. \A x, y \in D : <<x, y>> \in R <=> Calendar!Packs(x, y)
    OBVIOUS
  <2>2. \A x \in D : ~Calendar!Packs(x, x)
    BY DEF Calendar!Packs
  <2>3. \A x, y \in D : x = y \/ Calendar!Packs(x, y) \/ Calendar!Packs(y, x)
    BY DEF Calendar!Packs
  <2>4. \A x, y, z \in D : Calendar!Packs(x, y) /\ Calendar!Packs(y, z) => Calendar!Packs(x, z)
    BY DEF Calendar!Packs
  <2> HIDE DEF R, D
  <2> QED
    BY <2>1, <2>2, <2>3, <2>4 DEF Linear
<1>3. Calendar!Sorted = Calendar!Ordered(D, R)
  BY DEF Calendar!Sorted
<1>4. /\ Ascends(Calendar!Sorted, D, R)
      /\ \A x \in D : \E k \in 1..n : Calendar!Sorted[k] = x
  <2> HIDE DEF D, R
  <2> QED
    BY <1>2, <1>3, OrderedWell
<1>5. /\ Calendar!Sorted \in [1..n -> D]
      /\ \A k, m \in 1..n : k < m => <<Calendar!Sorted[k], Calendar!Sorted[m]>> \in R
  BY <1>4, Zenon DEF Ascends
<1> USE <1>5
<1>6. ASSUME NEW k \in 1..n, NEW m \in 1..n, k < m
      PROVE  /\ Calendar!Sorted[k] # Calendar!Sorted[m]
             /\ Calendar!Begins(Calendar!Sorted[k]) <= Calendar!Begins(Calendar!Sorted[m])
  <2>1. PICK i \in D, j \in D : i = Calendar!Sorted[k] /\ j = Calendar!Sorted[m]
    OBVIOUS
  <2>2. Calendar!Packs(i, j)
    BY <1>6, <2>1, Zenon
  <2> QED
    BY <2>1, <2>2 DEF Calendar!Packs
<1> QED
  BY <1>4, <1>6

LEMMA AssignedWell ==
  ASSUME NEW n, DayTyped(n), NEW C \in Seq(Seq(1..n)), NEW i \in 1..n,
         \A k \in 1..Len(C) : C[k] # <<>>
  PROVE  \E k : AssignedTo(n, C, i, Calendar!Assign(C, i), k)
<1> DEFINE D == Calendar!Assign(C, i)
           F == Calendar!Fits(C, i)
<1>1. /\ F \subseteq 1..Len(C)
      /\ \A k \in 1..Len(C) : k \in F <=> Calendar!Finishes(C[k][Len(C[k])]) <= Calendar!Begins(i)
  BY DEF Calendar!Fits, Calendar!Last
<1>2. ASSUME NEW k \in 1..Len(C)
      PROVE  /\ C[k] \in Seq(1..n)
             /\ C[k][Len(C[k])] \in 1..n
             /\ Append(C[k], i) \in Seq(1..n)
  <2>1. C[k] \in Seq(1..n) /\ C[k] # <<>>
    BY ElementOfSeq
  <2> USE <2>1
  <2>2. Len(C[k]) \in Nat /\ Len(C[k]) # 0
    BY EmptySeq, LenProperties
  <2>3. Len(C[k]) \in 1..Len(C[k])
    BY <2>2
  <2>4. C[k][Len(C[k])] \in 1..n
    BY <2>3, ElementOfSeq, Zenon
  <2>5. Append(C[k], i) \in Seq(1..n)
    BY AppendProperties
  <2> QED
    BY <2>4, <2>5
<1>3. \A j \in 1..n : Calendar!Begins(j) \in Nat /\ Calendar!Finishes(j) \in Nat
  BY DayTimes, DayIsTyped
<1>4. CASE F = {}
  <2>1. D = Append(C, <<i>>)
    BY <1>4 DEF Calendar!Assign
  <2>2. <<i>> \in Seq(1..n) /\ <<i>> = Append(<<>>, i)
    OBVIOUS
  <2>3. D \in Seq(Seq(1..n)) /\ Len(D) = Len(C) + 1 /\ D[Len(C) + 1] = Append(<<>>, i)
    BY <2>1, <2>2
  <2>4. \A l \in 1..Len(C) : D[l] = C[l]
    BY <2>1, <2>2
  <2>5. \A l \in 1..Len(C) : Calendar!Begins(i) < Calendar!Finishes(C[l][Len(C[l])])
    BY <1>1, <1>2, <1>3, <1>4
  <2> HIDE DEF D, F
  <2>6. AssignedTo(n, C, i, D, Len(C) + 1)
    <3>1. Len(C) \in Nat
      OBVIOUS
    <3> QED
      BY <2>3, <2>4, <2>5, <3>1 DEF AssignedTo
  <2> QED
    BY <2>6 DEF D
<1>5. CASE F # {}
  <2>1. PICK k : k = Calendar!Min(F)
    OBVIOUS
  <2>2. k \in F /\ \A l \in F : k <= l
    BY <1>1, <1>5, <2>1, MinIsLeast
  <2>3. D = [C EXCEPT ![k] = Append(C[k], i)]
    BY <1>5, <2>1 DEF Calendar!Assign
  <2>4. D \in Seq(Seq(1..n)) /\ Len(D) = Len(C) /\ D[k] = Append(C[k], i)
    BY <1>1, <1>2, <2>2, <2>3
  <2>5. \A l \in 1..Len(C) : l # k => D[l] = C[l]
    BY <2>3
  <2>6. \A l \in 1..Len(C) : l < k => Calendar!Begins(i) < Calendar!Finishes(C[l][Len(C[l])])
    BY <1>1, <1>2, <1>3, <2>2
  <2>7. k \in 1..Len(C) /\ Calendar!Finishes(C[k][Len(C[k])]) <= Calendar!Begins(i)
    BY <1>1, <2>2
  <2> HIDE DEF D, F
  <2>8. AssignedTo(n, C, i, D, k)
    BY <2>4, <2>5, <2>6, <2>7 DEF AssignedTo
  <2> QED
    BY <2>8 DEF D
<1> QED
  BY <1>4, <1>5

LEMMA ColumnTyped ==
  ASSUME NEW n, NEW C \in Seq(Seq(1..n)), NEW k \in 1..Len(C), C[k] # <<>>
  PROVE  Within(C, k) \subseteq 1..n /\ Final(C, k) \in Within(C, k) /\ C[k] \in Seq(1..n)
<1>1. C[k] \in Seq(1..n)
  BY ElementOfSeq
<1> USE <1>1
<1>2. Len(C[k]) \in 1..Len(C[k])
  <2>1. Len(C[k]) \in Nat /\ Len(C[k]) # 0
    BY EmptySeq, LenProperties
  <2> QED
    BY <2>1
<1>3. \A p \in 1..Len(C[k]) : C[k][p] \in 1..n
  BY ElementOfSeq, Zenon
<1> QED
  BY <1>2, <1>3 DEF Within, Final

\* What the schedule makes of the columns.
LEMMA ColumnsGrow ==
  ASSUME NEW n, NEW C \in Seq(Seq(1..n)), NEW i \in 1..n, NEW D, NEW k, AssignedTo(n, C, i, D, k),
         \A l \in 1..Len(C) : C[l] # <<>>
  PROVE  /\ Len(C) \in Nat
         /\ k \in 1..Len(D)
         /\ \A l \in 1..Len(D) : l # k => l \in 1..Len(C) /\ D[l] = C[l]
         /\ 1..Len(C) \subseteq 1..Len(D)
         /\ k \in 1..Len(C) => Within(D, k) = Within(C, k) \cup {i}
         /\ k \notin 1..Len(C) => Within(D, k) = {i}
         /\ D[k] # <<>> /\ Final(D, k) = i
<1>0. Len(C) \in Nat
  OBVIOUS
<1>1. CASE k <= Len(C)
  <2>1. k \in 1..Len(C) /\ Len(D) = Len(C) /\ D[k] = Append(C[k], i)
    BY <1>0, <1>1 DEF AssignedTo
  <2>2. C[k] \in Seq(1..n) /\ C[k] # <<>> /\ Len(C[k]) \in Nat
    BY <2>1, ElementOfSeq, LenProperties
  <2>3. /\ D[k] \in Seq(1..n) /\ Len(D[k]) = Len(C[k]) + 1 /\ D[k][Len(C[k]) + 1] = i
        /\ \A p \in 1..Len(C[k]) : D[k][p] = C[k][p]
    BY <2>1, <2>2, AppendProperties
  <2>4. 1..Len(D[k]) = 1..Len(C[k]) \cup {Len(C[k]) + 1}
    BY <2>2, <2>3
  <2>5. Within(D, k) = Within(C, k) \cup {i}
    BY <2>3, <2>4, ZenonT(30) DEF Within
  <2>6. D[k] # <<>> /\ Final(D, k) = i
    BY <2>2, <2>3, EmptySeq DEF Final
  <2>7. \A l \in 1..Len(D) : l # k => l \in 1..Len(C) /\ D[l] = C[l]
    BY <2>1 DEF AssignedTo
  <2> QED
    BY <1>0, <2>1, <2>5, <2>6, <2>7
<1>2. CASE k > Len(C)
  <2>1. k = Len(C) + 1 /\ Len(D) = k /\ D[k] = Append(<<>>, i)
    BY <1>0, <1>2 DEF AssignedTo
  <2>2. D[k] = <<i>>
    BY <2>1
  <2>3. Within(D, k) = {i} /\ D[k] # <<>> /\ Final(D, k) = i
    BY <2>2 DEF Within, Final
  <2>4. \A l \in 1..Len(D) : l # k => l \in 1..Len(C) /\ D[l] = C[l]
    BY <1>0, <2>1 DEF AssignedTo
  <2> QED
    BY <1>0, <2>1, <2>3, <2>4
<1> QED
  BY <1>0, <1>1, <1>2 DEF AssignedTo

LEMMA NextPacked ==
  ASSUME NEW n, DayTyped(n), NEW m \in 1..n, NEW C, PackedSoFar(n, m - 1, C)
  PROVE  PackedSoFar(n, m, Calendar!Assign(C, Calendar!Sorted[m]))
<1>0. PICK i : i = Calendar!Sorted[m]
  OBVIOUS
<1>1. n \in Nat /\ i \in 1..n /\ C \in Seq(Seq(1..n)) /\ \A l \in 1..Len(C) : C[l] # <<>>
  BY <1>0, SortedWell, Zenon DEF DayTyped, PackedSoFar
<1>2. PICK D, k : D = Calendar!Assign(C, i) /\ AssignedTo(n, C, i, D, k)
  BY <1>1, AssignedWell, Zenon
<1>3. /\ Len(C) \in Nat
      /\ k \in 1..Len(D)
      /\ \A l \in 1..Len(D) : l # k => l \in 1..Len(C) /\ D[l] = C[l]
      /\ 1..Len(C) \subseteq 1..Len(D)
      /\ k \in 1..Len(C) => Within(D, k) = Within(C, k) \cup {i}
      /\ k \notin 1..Len(C) => Within(D, k) = {i}
      /\ D[k] # <<>> /\ Final(D, k) = i
  <2>1. AssignedTo(n, C, i, D, k)
    BY <1>2
  <2>2. C \in Seq(Seq(1..n)) /\ i \in 1..n
    BY <1>1
  <2>3. \A l \in 1..Len(C) : C[l] # <<>>
    BY <1>1
  <2> HIDE <1>1, <1>2
  <2> QED
    BY ONLY <2>1, <2>2, <2>3, ColumnsGrow
<1>4. \A l \in 1..Len(D) : l # k => /\ l \in 1..Len(C)
                                    /\ Within(D, l) = Within(C, l) /\ Final(D, l) = Final(C, l)
  BY <1>3, Zenon DEF Within, Final
<1>5. \A l \in 1..Len(C) : /\ Within(C, l) \subseteq 1..n
                           /\ Final(C, l) \in Within(C, l)
  BY <1>1, ColumnTyped
<1>6. \A j \in 1..n : /\ Calendar!Begins(j) \in Nat /\ Calendar!Finishes(j) \in Nat
                      /\ Calendar!Begins(j) < Calendar!Finishes(j)
  BY DayTimes, DayIsTyped
<1>7. \A l \in 1..Len(C) : \A j \in Within(C, l) : /\ j \in 1..n /\ j # i
                                                   /\ Calendar!Begins(j) <= Calendar!Begins(i)
                                                   /\ Calendar!Finishes(j) <= Calendar!Finishes(Final(C, l))
                                                   /\ \E q \in 1..m : j = Calendar!Sorted[q]
  <2>1. TAKE l \in 1..Len(C)
  <2>2. TAKE j \in Within(C, l)
  <2>3. PICK q \in 1..(m - 1) : j = Calendar!Sorted[q]
    BY DEF PackedSoFar
  <2>4. q \in 1..n /\ q \in 1..m /\ q < m
    BY <1>1
  <2> QED
    BY <1>0, <1>5, <2>3, <2>4, SortedWell, Zenon DEF PackedSoFar
<1>8. D \in Seq(Seq(1..n))
  BY <1>2 DEF AssignedTo
<1>9. ASSUME NEW l \in 1..Len(D)
      PROVE  D[l] # <<>>
  BY <1>1, <1>3, Zenon
<1>10. ASSUME NEW l \in 1..Len(D), NEW j \in Within(D, l)
       PROVE  /\ \E q \in 1..m : j = Calendar!Sorted[q]
              /\ Calendar!Finishes(j) <= Calendar!Finishes(Final(D, l))
  <2>1. CASE j = i
    <3>1. l = k
      BY <1>4, <1>7, <2>1
    <3>2. \E q \in 1..m : j = Calendar!Sorted[q]
      BY <1>0, <2>1
    <3> QED
      BY <1>1, <1>3, <1>6, <2>1, <3>1, <3>2
  <2>2. CASE j # i /\ l # k
    BY <1>4, <1>7, <2>2
  <2>3. CASE j # i /\ l = k
    <3>1. l \in 1..Len(C) /\ j \in Within(C, l)
      BY <1>3, <2>3
    <3>2. Calendar!Finishes(Final(C, l)) <= Calendar!Begins(i)
      BY <1>2, <1>3, <2>3, <3>1 DEF AssignedTo, Final
    <3>3. Calendar!Finishes(j) <= Calendar!Finishes(Final(C, l)) /\ j \in 1..n /\ Final(C, l) \in 1..n
      BY <1>5, <1>7, <3>1
    <3>4. Calendar!Finishes(j) <= Calendar!Finishes(i)
      BY <1>1, <1>6, <3>2, <3>3
    <3> QED
      BY <1>3, <1>7, <2>3, <3>1, <3>4
  <2> QED
    BY <2>1, <2>2, <2>3
<1>11. ASSUME NEW q \in 1..m
       PROVE  \E l \in 1..Len(D) : Calendar!Sorted[q] \in Within(D, l)
  <2>1. CASE q = m
    BY <1>0, <1>3, <2>1
  <2>2. CASE q # m
    <3>1. q \in 1..(m - 1)
      BY <1>1, <2>2
    <3>2. PICK l \in 1..Len(C) : Calendar!Sorted[q] \in Within(C, l)
      BY <3>1 DEF PackedSoFar
    <3> QED
      BY <1>3, <1>4, <3>2
  <2> QED
    BY <2>1, <2>2
<1>12. ASSUME NEW a \in 1..Len(D), NEW b \in 1..Len(D), NEW j \in Within(D, a), j \in Within(D, b)
       PROVE  a = b
  <2>1. CASE j = i
    BY <1>4, <1>7, <1>12, <2>1
  <2>2. CASE j # i
    <3>1. a \in 1..Len(C) /\ j \in Within(C, a) /\ b \in 1..Len(C) /\ j \in Within(C, b)
      BY <1>3, <1>4, <1>12, <2>2
    <3> QED
      BY <3>1 DEF PackedSoFar
  <2> QED
    BY <2>1, <2>2
<1>13. ASSUME NEW l \in 1..Len(D), NEW a \in Within(D, l), NEW b \in Within(D, l), a # b
       PROVE  Calendar!Finishes(a) <= Calendar!Begins(b) \/ Calendar!Finishes(b) <= Calendar!Begins(a)
  <2>1. ASSUME NEW j \in Within(D, l), j # i, i \in Within(D, l)
        PROVE  Calendar!Finishes(j) <= Calendar!Begins(i)
    <3>1. l = k /\ l \in 1..Len(C) /\ j \in Within(C, l)
      BY <1>3, <1>4, <1>7, <2>1
    <3>2. Calendar!Finishes(Final(C, l)) <= Calendar!Begins(i)
      BY <1>2, <1>3, <3>1 DEF AssignedTo, Final
    <3>3. Calendar!Finishes(j) <= Calendar!Finishes(Final(C, l)) /\ j \in 1..n /\ Final(C, l) \in 1..n
      BY <1>5, <1>7, <3>1
    <3> QED
      BY <1>1, <1>6, <3>2, <3>3
  <2>2. CASE a = i \/ b = i
    BY <1>13, <2>1, <2>2
  <2>3. CASE a # i /\ b # i
    <3>1. l \in 1..Len(C) /\ a \in Within(C, l) /\ b \in Within(C, l)
      BY <1>3, <1>4, <2>3
    <3> QED
      BY <1>13, <3>1 DEF PackedSoFar
  <2> QED
    BY <2>2, <2>3
<1>14. ASSUME NEW a \in 1..Len(D), NEW b \in 1..Len(D), NEW j \in Within(D, a), b < a
       PROVE  \E h \in Within(D, b) : /\ Calendar!Begins(h) <= Calendar!Begins(j)
                                      /\ Calendar!Begins(j) < Calendar!Finishes(h)
  <2>1. CASE j = i
    <3>1. a = k /\ b \in 1..Len(C) /\ b # k
      BY <1>3, <1>4, <1>7, <1>14, <2>1
    <3>2. Calendar!Begins(i) < Calendar!Finishes(Final(C, b))
      BY <1>2, <1>14, <3>1 DEF AssignedTo, Final
    <3> QED
      BY <1>4, <1>5, <1>7, <2>1, <3>1, <3>2
  <2>2. CASE j # i
    <3>1. a \in 1..Len(C) /\ j \in Within(C, a)
      BY <1>3, <1>4, <2>2
    <3>2. b \in 1..Len(C)
      BY <1>3, <1>14, <3>1
    <3>3. Within(C, b) \subseteq Within(D, b)
      BY <1>3, <1>4, <3>2
    <3> QED
      BY <1>14, <3>1, <3>2, <3>3 DEF PackedSoFar
  <2> QED
    BY <2>1, <2>2
<1>15. PackedSoFar(n, m, D)
  BY <1>8, <1>9, <1>10, <1>11, <1>12, <1>13, <1>14, Zenon DEF PackedSoFar
<1> QED
  BY <1>0, <1>2, <1>15

\* So are the columns of the day.
LEMMA ColumnsPacked ==
  ASSUME NEW n, DayTyped(n)
  PROVE  PackedSoFar(n, n, Calendar!Columns)
<1>0. n \in Nat /\ DOMAIN Calendar!Sorted = 1..n
  BY SortedWell DEF DayTyped
<1>1. PICK after : /\ after[0] = <<>>
                   /\ \A m \in 1..n : after[m] = Calendar!Assign(after[m - 1], Calendar!Sorted[m])
                   /\ after[n] = Calendar!FoldLeft(Calendar!Assign, <<>>, Calendar!Sorted)
  BY <1>0, FoldsAlong, Zenon
<1> DEFINE F == {m \in 0..n : ~PackedSoFar(n, m, after[m])}
<1>2. F = {}
  <2>1. SUFFICES ASSUME F # {} PROVE FALSE
    OBVIOUS
  <2>2. F \subseteq Nat
    BY <1>0
  <2> HIDE DEF F
  <2>8. PICK m \in F : \A k \in F : m <= k
    BY <2>1, <2>2, LeastNumber, Zenon
  <2> USE <2>8
  <2> USE DEF F
  <2>3. PackedSoFar(n, 0, <<>>)
    <3>1. <<>> \in Seq(Seq(1..n)) /\ 1..Len(<<>>) = {} /\ 1..0 = {}
      OBVIOUS
    <3> QED
      BY <3>1 DEF PackedSoFar
  <2>4. m # 0
    BY <1>1, <2>3
  <2>5. m \in 1..n /\ m - 1 \in 0..n /\ m - 1 < m
    BY <1>0, <2>4
  <2>6. PackedSoFar(n, m - 1, after[m - 1])
    BY <1>0, <2>5
  <2>7. PackedSoFar(n, m, after[m])
    BY <1>1, <2>5, <2>6, NextPacked
  <2> QED
    BY <2>7
<1>3. PackedSoFar(n, n, after[n])
  BY <1>0, <1>2
<1> QED
  BY <1>1, <1>3 DEF Calendar!Columns

LEMMA ColumnsShown ==
  ASSUME NEW n, DayTyped(n)
  PROVE  /\ Len(Calendar!Columns) \in Nat
         /\ DOMAIN Calendar!Columns = 1..Len(Calendar!Columns)
         /\ \A k \in 1..Len(Calendar!Columns) :
              /\ Calendar!Range(Calendar!Columns[k]) = Within(Calendar!Columns, k)
              /\ Within(Calendar!Columns, k) \subseteq 1..n
              /\ Within(Calendar!Columns, k) # {}
<1>1. PICK C : C = Calendar!Columns
  OBVIOUS
<1>2. PackedSoFar(n, n, C)
  BY <1>1, ColumnsPacked
<1>3. C \in Seq(Seq(1..n)) /\ \A k \in 1..Len(C) : C[k] # <<>>
  BY <1>2 DEF PackedSoFar
<1>4. Len(C) \in Nat /\ DOMAIN C = 1..Len(C)
  BY <1>3, LenProperties
<1>5. ASSUME NEW k \in 1..Len(C)
      PROVE  /\ Calendar!Range(C[k]) = Within(C, k)
             /\ Within(C, k) \subseteq 1..n
             /\ Within(C, k) # {}
  <2>1. Within(C, k) \subseteq 1..n /\ Final(C, k) \in Within(C, k) /\ C[k] \in Seq(1..n)
    BY <1>3, ColumnTyped
  <2>2. DOMAIN C[k] = 1..Len(C[k])
    BY <2>1, LenProperties
  <2> QED
    BY <2>1, <2>2, Zenon DEF Calendar!Range, Within
<1> QED
  BY <1>1, <1>4, <1>5

\* A schedule is in one column, with as many columns beside it as come before
\* its own.
LEMMA InOneColumn ==
  ASSUME NEW n, DayTyped(n), NEW C, C = Calendar!Columns, NEW i \in 1..n
  PROVE  \E k \in 1..Len(C) : /\ i \in Within(C, k)
                              /\ k <= Cardinality(Calendar!TotalColumns(C, i))
                              /\ \A l \in 1..Len(C) \ {k} : i \notin Within(C, l)
<1>1. PackedSoFar(n, n, C)
  BY ColumnsPacked
<1>2. PICK q \in 1..n : Calendar!Sorted[q] = i
  BY SortedWell
<1>3. PICK k \in 1..Len(C) : i \in Within(C, k)
  BY <1>1, <1>2 DEF PackedSoFar
<1>4. \A l \in 1..Len(C) \ {k} : i \notin Within(C, l)
  BY <1>1, <1>3 DEF PackedSoFar
<1>5. /\ Len(C) \in Nat /\ DOMAIN C = 1..Len(C)
      /\ \A l \in 1..Len(C) : Calendar!Range(C[l]) = Within(C, l) /\ Within(C, l) \subseteq 1..n
  BY ColumnsShown
<1>6. \A j \in 1..n : /\ Calendar!Begins(j) \in Nat /\ Calendar!Finishes(j) \in Nat
                      /\ Calendar!Begins(j) < Calendar!Finishes(j)
  BY DayTimes, DayIsTyped
<1>7. ASSUME NEW l \in 1..k
      PROVE  l \in Calendar!TotalColumns(C, i)
  <2>0. l \in 1..Len(C)
    BY <1>5
  <2> USE <2>0
  <2>1. CASE l = k
    <3>1. Calendar!Overlap(i, i)
      BY <1>6 DEF Calendar!Overlap
    <3> QED
      BY <1>3, <1>5, <2>1, <3>1 DEF Calendar!TotalColumns
  <2>2. CASE l # k
    <3>1. l < k
      BY <1>5, <2>2
    <3>2. PICK j \in Within(C, l) : Calendar!Begins(j) <= Calendar!Begins(i) /\ Calendar!Begins(i) < Calendar!Finishes(j)
      BY <1>1, <1>3, <3>1 DEF PackedSoFar
    <3>3. Calendar!Overlap(i, j)
      BY <1>5, <1>6, <3>2 DEF Calendar!Overlap
    <3> QED
      BY <1>5, <3>3 DEF Calendar!TotalColumns
  <2> QED
    BY <2>1, <2>2
<1>8. k <= Cardinality(Calendar!TotalColumns(C, i))
  <2>1. PICK T : T = Calendar!TotalColumns(C, i)
    OBVIOUS
  <2>2. T \subseteq 1..Len(C) /\ 1..k \subseteq T
    BY <1>5, <1>7, <2>1 DEF Calendar!TotalColumns
  <2>3. IsFiniteSet(1..Len(C))
    BY <1>5, FS_Interval
  <2>4. IsFiniteSet(T)
    BY <2>2, <2>3, FS_Subset, Zenon
  <2>5. Cardinality(1..k) <= Cardinality(T)
    BY <2>2, <2>4, FS_Subset
  <2>6. Cardinality(1..k) = k
    <3>1. k \in Int /\ 1 \in Int /\ k >= 1
      BY <1>5
    <3> QED
      BY <3>1, FS_Interval
  <2> QED
    BY <2>1, <2>5, <2>6
<1> QED
  BY <1>3, <1>4, <1>8

\* When some schedule begins as many are on as there are columns.
LEMMA BusiestTime ==
  ASSUME NEW n, DayTyped(n), NEW C, C = Calendar!Columns, Len(C) # 0
  PROVE  \E h \in 1..n :
           Len(C) <= Cardinality({i \in 1..n : Calendar!Begins(i) <= Calendar!Begins(h)
                                               /\ Calendar!Begins(h) < Calendar!Finishes(i)})
<1>1. PackedSoFar(n, n, C)
  BY ColumnsPacked
<1>2. /\ Len(C) \in Nat
      /\ \A l \in 1..Len(C) : Within(C, l) \subseteq 1..n /\ Within(C, l) # {}
  BY ColumnsShown
<1>3. \A j \in 1..n : /\ Calendar!Begins(j) \in Nat /\ Calendar!Finishes(j) \in Nat
                      /\ Calendar!Begins(j) < Calendar!Finishes(j)
  BY DayTimes
<1>4. Len(C) \in 1..Len(C)
  BY <1>2
<1>5. PICK i \in Within(C, Len(C)) : i \in 1..n
  BY <1>2, <1>4
<1> DEFINE t == Calendar!Begins(i)
           B == {j \in 1..n : Calendar!Begins(j) <= t /\ t < Calendar!Finishes(j)}
           f == [l \in 1..Len(C) |-> CHOOSE j \in Within(C, l) : j \in B]
<1>6. ASSUME NEW l \in 1..Len(C)
      PROVE  \E j \in Within(C, l) : j \in B
  <2>1. CASE l = Len(C)
    <3>1. i \in B
      BY <1>3, <1>5, DayIsTyped
    <3> QED
      BY <1>5, <2>1, <3>1
  <2>2. CASE l # Len(C)
    <3>1. l < Len(C)
      BY <1>2, <2>2
    <3>2. \A a, b \in 1..Len(C) : \A h \in Within(C, a) : b < a =>
            \E j \in Within(C, b) : Calendar!Begins(j) <= Calendar!Begins(h) /\ Calendar!Begins(h) < Calendar!Finishes(j)
      BY ONLY <1>1 DEF PackedSoFar
    <3>3. PICK j \in Within(C, l) : Calendar!Begins(j) <= Calendar!Begins(i) /\ Calendar!Begins(i) < Calendar!Finishes(j)
      BY <1>4, <1>5, <3>1, <3>2
    <3> QED
      BY <1>2, <3>3
  <2> QED
    BY <2>1, <2>2
<1>7. IsFiniteSet(B)
  <2>1. B \subseteq 1..n /\ IsFiniteSet(1..n)
    BY DayTimes
  <2> HIDE DEF B
  <2> QED
    BY <2>1, FS_Subset, Zenon
<1>8. f \in Injection(1..Len(C), B)
  <2> HIDE DEF B, t
  <2>1. \A l \in 1..Len(C) : f[l] \in Within(C, l) /\ f[l] \in B
    BY <1>6, Zenon
  <2>2. \A k, l \in 1..Len(C) : f[k] = f[l] => k = l
    BY <1>1, <2>1 DEF PackedSoFar
  <2>3. f \in [1..Len(C) -> B]
    BY <2>1
  <2> HIDE DEF f
  <2> QED
    BY <2>2, <2>3 DEF Injection, IsInjective
<1>9. Len(C) <= Cardinality(B)
  <2> HIDE DEF B, f
  <2>1. Cardinality(1..Len(C)) <= Cardinality(B)
    BY <1>7, <1>8, FS_Injection
  <2> QED
    BY <1>2, <2>1, FS_Interval
<1> QED
  BY <1>5, <1>9, Zenon

LEMMA DayPacked ==
  ASSUME NEW n, DayTyped(n)
  PROVE  Calendar!DayIsPacked
<1>1. PICK C : C = Calendar!Columns
  OBVIOUS
<1>2. /\ Calendar!Day = 1..n
      /\ DOMAIN C = 1..Len(C)
      /\ \A l \in 1..Len(C) : Calendar!Range(C[l]) = Within(C, l) /\ Within(C, l) \subseteq 1..n
  BY <1>1, ColumnsShown, DayTimes
<1>3. \A i \in Calendar!Day : \E k \in DOMAIN C :
        /\ i \in Calendar!Range(C[k])
        /\ k <= Calendar!Cardinality(Calendar!TotalColumns(C, i))
        /\ \A l \in DOMAIN C \ {k} : i \notin Calendar!Range(C[l])
  <2>1. TAKE i \in Calendar!Day
  <2>2. PICK k \in 1..Len(C) : /\ i \in Within(C, k)
                              /\ k <= Cardinality(Calendar!TotalColumns(C, i))
                              /\ \A l \in 1..Len(C) \ {k} : i \notin Within(C, l)
    BY <1>1, <1>2, InOneColumn
  <2> QED
    BY <1>2, <2>2, CountsAlike
<1>4. \A k \in DOMAIN C : \A i, j \in Calendar!Range(C[k]) : i # j => ~Calendar!Overlap(i, j)
  <2>1. TAKE k \in DOMAIN C
  <2>2. TAKE i, j \in Calendar!Range(C[k])
  <2>3. k \in 1..Len(C) /\ i \in Within(C, k) /\ j \in Within(C, k) /\ i \in 1..n /\ j \in 1..n
    BY <1>2
  <2>4. i # j => Calendar!Finishes(i) <= Calendar!Begins(j) \/ Calendar!Finishes(j) <= Calendar!Begins(i)
    BY <1>1, <2>3, ColumnsPacked DEF PackedSoFar
  <2> QED
    BY <2>3, <2>4, DayTimes DEF Calendar!Overlap
<1>5. \A k \in DOMAIN C : \E h \in Calendar!Day :
        Calendar!Cardinality({i \in Calendar!Day : /\ Calendar!Begins(i) <= Calendar!Begins(h)
                                                   /\ Calendar!Begins(h) < Calendar!Finishes(i)}) >= Len(C)
  <2>1. TAKE k \in DOMAIN C
  <2>2. Len(C) # 0
    BY <1>2
  <2>3. PICK h \in 1..n :
          Len(C) <= Cardinality({i \in 1..n : Calendar!Begins(i) <= Calendar!Begins(h)
                                              /\ Calendar!Begins(h) < Calendar!Finishes(i)})
    BY <1>1, <2>2, BusiestTime, Zenon
  <2> DEFINE b == {i \in Calendar!Day : /\ Calendar!Begins(i) <= Calendar!Begins(h)
                                        /\ Calendar!Begins(h) < Calendar!Finishes(i)}
  <2>4. Len(C) <= Cardinality(b)
    BY <1>2, <2>3
  <2>5. Calendar!Cardinality(b) >= Len(C)
    <3> HIDE DEF b
    <3> QED
      BY <2>4, CountsAlike
  <2>6. h \in Calendar!Day
    BY <1>2
  <2> QED
    BY <2>5, <2>6, Zenon
<1> QED
  BY <1>1, <1>3, <1>4, <1>5, Zenon DEF Calendar!DayIsPacked

-----------------------------------------------------------------------------
(* The layout of a day: drives                                             *)

\* An employee's schedules are chained in the order in which they begin.
LEMMA ChainedWell ==
  ASSUME NEW n, DayTyped(n), NEW e, NEW mine, mine = Calendar!Mine(e), NEW c, c = Calendar!Chained(e),
         \A i, j \in mine : i # j => Calendar!Begins(i) # Calendar!Begins(j)
  PROVE  /\ mine \subseteq 1..n
         /\ Len(c) \in Nat /\ c \in [1..Len(c) -> mine] /\ DOMAIN c = 1..Len(c)
         /\ \A p, q \in 1..Len(c) : p < q => Calendar!Begins(c[p]) < Calendar!Begins(c[q])
         /\ \A i \in mine : \E p \in 1..Len(c) : c[p] = i
<1> DEFINE R == {p \in mine \X mine : Calendar!Follows(p[1], p[2])}
<1>1. mine \subseteq 1..n /\ IsFiniteSet(mine)
  BY DayTimes, FS_Subset, Zenon DEF Calendar!Mine
<1>2. \A j \in mine : Calendar!Begins(j) \in Nat /\ j \in Nat
  BY <1>1, DayTimes, DayIsTyped DEF DayTyped
<1>3. Linear(mine, R)
  <2>1. \A x, y \in mine : <<x, y>> \in R <=> Calendar!Follows(x, y)
    OBVIOUS
  <2>2. \A x \in mine : ~Calendar!Follows(x, x)
    BY <1>2 DEF Calendar!Follows
  <2>3. \A x, y \in mine : x = y \/ Calendar!Follows(x, y) \/ Calendar!Follows(y, x)
    BY <1>2 DEF Calendar!Follows
  <2>4. \A x, y, z \in mine : Calendar!Follows(x, y) /\ Calendar!Follows(y, z) => Calendar!Follows(x, z)
    BY <1>2 DEF Calendar!Follows
  <2> HIDE DEF R
  <2> QED
    BY <2>1, <2>2, <2>3, <2>4 DEF Linear
<1>4. c = Calendar!Ordered(mine, R)
  BY DEF Calendar!Chained
<1>5. /\ Cardinality(mine) \in Nat /\ Ascends(c, mine, R)
      /\ \A i \in mine : \E p \in 1..Cardinality(mine) : c[p] = i
  <2> HIDE DEF R
  <2> QED
    BY <1>1, <1>3, <1>4, OrderedWell
<1> USE <1>5
<1>6. /\ c \in [1..Cardinality(mine) -> mine]
      /\ \A p, q \in 1..Cardinality(mine) : p < q => <<c[p], c[q]>> \in R
  BY DEF Ascends
<1> USE <1>6
<1>7. Len(c) = Cardinality(mine)
  <2>1. c \in Seq(mine) /\ DOMAIN c = 1..Cardinality(mine)
    BY SeqDef
  <2> QED
    BY <2>1
<1>8. ASSUME NEW p \in 1..Len(c), NEW q \in 1..Len(c), p < q
      PROVE  Calendar!Begins(c[p]) < Calendar!Begins(c[q])
  <2>1. Calendar!Follows(c[p], c[q]) /\ c[p] \in mine /\ c[q] \in mine
    BY <1>7, <1>8, Zenon
  <2>2. c[p] # c[q] => Calendar!Begins(c[p]) # Calendar!Begins(c[q])
    BY <2>1
  <2> QED
    BY <1>2, <2>1, <2>2 DEF Calendar!Follows
<1> QED
  BY <1>1, <1>7, <1>8

LEMMA Successor ==
  ASSUME NEW N \in Nat, NEW p \in 1..N, p # N
  PROVE  p + 1 \in 1..N /\ p < p + 1
OBVIOUS

\* What is drawn of a schedule of that chain.
LEMMA DrivesDrawn ==
  ASSUME NEW n, DayTyped(n), NEW c, Len(c) \in Nat, c \in [1..Len(c) -> 1..n],
         NEW p \in 1..Len(c), Town > 0,
         \A q \in 1..Len(c) : Hub[ui.items[c[q]].place] > 0
  PROVE  /\ "before" \in Calendar!Blocks(Calendar!Entry(c, p)) <=> p = 1
         /\ "after" \notin Calendar!Blocks(Calendar!Entry(c, p)) <=>
              p # Len(c) /\ ui.items[c[p]].place = ui.items[c[p + 1]].place
<1>1. ASSUME NEW q \in 1..Len(c)
      PROVE  /\ ui.items[c[q]].to \in Nat /\ ui.items[c[q]].from \in Nat
             /\ Hub[ui.items[c[q]].place] \in Nat
  <2>1. ui.items[c[q]] \in Calendar!Drawn
    BY DEF DayTyped
  <2>2. ui.items[c[q]].place \in DOMAIN Hub /\ ui.items[c[q]].to \in Nat /\ ui.items[c[q]].from \in Nat
    BY <2>1 DEF Calendar!Drawn
  <2> QED
    BY <2>2, DayIsTyped
<1>2. \A a, b \in Nat : b > 0 => Calendar!Or(a, b) \in Nat /\ Calendar!Or(a, b) > 0
  BY DEF Calendar!Or
<1> DEFINE s == ui.items[c[p]]
           before == IF p = 1 THEN Calendar!Or(s.to, Hub[s.place]) ELSE 0
           after == IF p = Len(c) THEN Calendar!Or(s.from, Hub[s.place])
                    ELSE Calendar!ToNext(s, ui.items[c[p + 1]])
<1>3. Calendar!Entry(c, p) = [before |-> before, after |-> after]
  BY DEF Calendar!Entry
<1>4. before > 0 <=> p = 1
  <2>1. Calendar!Or(s.to, Hub[s.place]) > 0
    BY <1>1, <1>2, Zenon
  <2> QED
    BY <2>1
<1>5. after > 0 <=> ~(p # Len(c) /\ ui.items[c[p]].place = ui.items[c[p + 1]].place)
  <2>1. CASE p = Len(c)
    BY <1>1, <1>2, <2>1, ZenonT(30)
  <2>2. CASE p # Len(c)
    <3>1. p + 1 \in 1..Len(c)
      BY <2>2, Successor, Zenon
    <3>2. Calendar!Or(ui.items[c[p + 1]].to, Town) \in Nat /\ Calendar!Or(ui.items[c[p + 1]].to, Town) > 0
      BY <1>1, <1>2, <3>1, DayIsTyped
    <3>3. Calendar!Or(s.from, Calendar!Or(ui.items[c[p + 1]].to, Town)) > 0
      BY <1>1, <1>2, <3>2, Zenon
    <3>4. after = IF ui.items[c[p]].place = ui.items[c[p + 1]].place THEN 0
                  ELSE Calendar!Or(s.from, Calendar!Or(ui.items[c[p + 1]].to, Town))
      BY <2>2, Zenon DEF Calendar!ToNext
    <3> HIDE DEF after, s
    <3>5. CASE ui.items[c[p]].place = ui.items[c[p + 1]].place
      <4>1. ~(after > 0)
        BY <3>4, <3>5
      <4> QED
        BY <2>2, <3>5, <4>1, Zenon
    <3>6. CASE ui.items[c[p]].place # ui.items[c[p + 1]].place
      <4>1. after > 0
        BY <3>3, <3>4, <3>6
      <4> QED
        BY <3>6, <4>1, Zenon
    <3> QED
      BY <3>5, <3>6, Zenon
  <2> QED
    BY <2>1, <2>2
<1> HIDE DEF before, after
<1>6. /\ "before" \in Calendar!Blocks([before |-> before, after |-> after]) <=> before > 0
      /\ "after" \in Calendar!Blocks([before |-> before, after |-> after]) <=> after > 0
  BY DEF Calendar!Blocks
<1> QED
  BY <1>3, <1>4, <1>5, <1>6, Zenon

LEMMA DayDriven ==
  ASSUME NEW n, DayTyped(n)
  PROVE  Calendar!DrivesLinkTheDay
<1>1. SUFFICES
        ASSUME NEW e, NEW mine, mine = Calendar!Mine(e),
               \A i \in mine : Calendar!Groups(i) = {e},
               \A i, j \in mine : i # j => Calendar!Begins(i) # Calendar!Begins(j),
               Town > 0, \A i \in mine : Hub[ui.items[i].place] > 0,
               NEW i \in mine,
               NEW drawn, drawn = Calendar!Blocks(CHOOSE d \in Calendar!Drives(i) : TRUE)
        PROVE  /\ "before" \in drawn <=> \A j \in mine : Calendar!Begins(i) <= Calendar!Begins(j)
               /\ "after" \notin drawn <=>
                    \E j \in mine : /\ Calendar!Begins(i) < Calendar!Begins(j)
                                    /\ ui.items[i].place = ui.items[j].place
                                    /\ \A k \in mine : ~(/\ Calendar!Begins(i) < Calendar!Begins(k)
                                                         /\ Calendar!Begins(k) < Calendar!Begins(j))
  BY DEF Calendar!DrivesLinkTheDay
<1>2. PICK c : c = Calendar!Chained(e)
  OBVIOUS
<1>3. /\ mine \subseteq 1..n
      /\ Len(c) \in Nat /\ c \in [1..Len(c) -> mine] /\ DOMAIN c = 1..Len(c)
      /\ \A p, q \in 1..Len(c) : p < q => Calendar!Begins(c[p]) < Calendar!Begins(c[q])
      /\ \A j \in mine : \E p \in 1..Len(c) : c[p] = j
  BY <1>1, <1>2, ChainedWell
<1>4. PICK p : p = CHOOSE q \in DOMAIN c : c[q] = i
  OBVIOUS
<1>5. p \in 1..Len(c) /\ c[p] = i
  <2>1. \E q \in DOMAIN c : c[q] = i
    BY <1>3
  <2>2. p \in DOMAIN c /\ c[p] = i
    BY <1>4, <2>1, Zenon
  <2> QED
    BY <1>3, <2>2
<1>6. drawn = Calendar!Blocks(Calendar!Entry(c, p))
  <2>1. Calendar!Drives(i) = {Calendar!Entry(c, p)}
    BY <1>1, <1>2, <1>4, Zenon DEF Calendar!Drives
  <2>2. (CHOOSE d \in Calendar!Drives(i) : TRUE) = Calendar!Entry(c, p)
    BY <2>1
  <2> QED
    BY <1>1, <2>2, Zenon
<1>7. /\ "before" \in drawn <=> p = 1
      /\ "after" \notin drawn <=> p # Len(c) /\ ui.items[c[p]].place = ui.items[c[p + 1]].place
  <2>1. c \in [1..Len(c) -> 1..n]
    BY <1>3, Zenon
  <2>2. \A q \in 1..Len(c) : Hub[ui.items[c[q]].place] > 0
    BY <1>1, <1>3
  <2> QED
    BY <1>1, <1>3, <1>5, <1>6, <2>1, <2>2, DrivesDrawn, Zenon
<1>8. \A q \in 1..Len(c) : Calendar!Begins(c[q]) \in Nat
  BY <1>3, DayTimes, DayIsTyped
<1>9. p = 1 <=> \A j \in mine : Calendar!Begins(i) <= Calendar!Begins(j)
  <2>1. ASSUME p = 1, NEW j \in mine PROVE Calendar!Begins(i) <= Calendar!Begins(j)
    <3>1. PICK q \in 1..Len(c) : c[q] = j
      BY <1>3
    <3>2. q = 1 \/ 1 < q
      BY <1>3
    <3> QED
      BY <1>3, <1>5, <1>8, <2>1, <3>1, <3>2
  <2>2. ASSUME p # 1 PROVE \E j \in mine : ~(Calendar!Begins(i) <= Calendar!Begins(j))
    <3>1. 1 \in 1..Len(c) /\ 1 < p
      BY <1>3, <1>5, <2>2
    <3>2. c[1] \in mine /\ Calendar!Begins(c[1]) < Calendar!Begins(i)
      BY <1>3, <1>5, <3>1
    <3> QED
      BY <1>5, <1>8, <3>1, <3>2
  <2> QED
    BY <2>1, <2>2
<1> DEFINE Nearest(j) == /\ Calendar!Begins(i) < Calendar!Begins(j)
                      /\ \A k \in mine : ~(Calendar!Begins(i) < Calendar!Begins(k) /\ Calendar!Begins(k) < Calendar!Begins(j))
<1>10. ASSUME NEW j \in mine
       PROVE  Nearest(j) <=> p # Len(c) /\ j = c[p + 1]
  <2>1. PICK q \in 1..Len(c) : c[q] = j
    BY <1>3
  <2>2. ASSUME Nearest(j) PROVE p # Len(c) /\ j = c[p + 1]
    <3>1. p < q
      <4>1. q < p => Calendar!Begins(j) < Calendar!Begins(i)
        BY <1>3, <1>5, <2>1
      <4>2. Calendar!Begins(i) < Calendar!Begins(j) /\ Calendar!Begins(i) \in Nat /\ Calendar!Begins(j) \in Nat
        BY <1>5, <1>8, <2>1, <2>2
      <4>3. q # p
        BY <1>5, <2>1, <4>2
      <4> QED
        BY <1>3, <1>5, <4>1, <4>2, <4>3
    <3>7. p # Len(c)
      <4>1. Len(c) \in Nat
        BY <1>3
      <4>2. p \in 1..Len(c)
        BY <1>5
      <4> QED
        BY ONLY <2>1, <3>1, <4>1, <4>2
    <3>2. p + 1 \in 1..Len(c) /\ p # Len(c) /\ p < p + 1
      BY <1>3, <1>5, <3>7, Successor, Zenon
    <3>3. c[p + 1] \in mine /\ Calendar!Begins(i) < Calendar!Begins(c[p + 1])
      BY <1>3, <1>5, <3>2, Zenon
    <3>4. p + 1 < q => Calendar!Begins(c[p + 1]) < Calendar!Begins(j)
      BY <1>3, <2>1, <3>2
    <3>5. ~(p + 1 < q)
      BY <2>2, <3>3, <3>4
    <3>6. q = p + 1
      BY <1>3, <1>5, <3>1, <3>5
    <3> QED
      BY <2>1, <3>2, <3>6
  <2>3. ASSUME p # Len(c), j = c[p + 1] PROVE Nearest(j)
    <3>1. p + 1 \in 1..Len(c) /\ p < p + 1
      BY <1>3, <1>5, <2>3, Successor, ZenonT(30)
    <3>2. Calendar!Begins(i) < Calendar!Begins(j)
      BY <1>3, <1>5, <2>3, <3>1, Zenon
    <3>3. ASSUME NEW k \in mine
          PROVE  ~(Calendar!Begins(i) < Calendar!Begins(k) /\ Calendar!Begins(k) < Calendar!Begins(j))
      <4>1. PICK r \in 1..Len(c) : c[r] = k
        BY <1>3
      <4>2. r < p \/ r = p \/ r = p + 1 \/ p + 1 < r
        BY <1>3, <1>5, <4>1
      <4>3. /\ r < p => Calendar!Begins(k) < Calendar!Begins(i)
            /\ p + 1 < r => Calendar!Begins(j) < Calendar!Begins(k)
        BY <1>3, <1>5, <2>3, <3>1, <4>1, Zenon
      <4>4. Calendar!Begins(i) \in Nat /\ Calendar!Begins(j) \in Nat /\ Calendar!Begins(k) \in Nat
        BY <1>5, <1>8, <2>3, <3>1, <4>1
      <4> QED
        BY <1>5, <2>3, <4>1, <4>2, <4>3, <4>4
    <3> QED
      BY <3>2, <3>3
  <2> QED
    BY <2>2, <2>3
<1>11. p # Len(c) => c[p + 1] \in mine
  BY <1>3, <1>5, Successor, Zenon
<1>12. (\E j \in mine : Nearest(j) /\ ui.items[i].place = ui.items[j].place)
         <=> p # Len(c) /\ ui.items[c[p]].place = ui.items[c[p + 1]].place
  <2> HIDE DEF Nearest
  <2>1. ASSUME NEW j \in mine, Nearest(j), ui.items[i].place = ui.items[j].place
        PROVE  p # Len(c) /\ ui.items[c[p]].place = ui.items[c[p + 1]].place
    BY <1>5, <1>10, <2>1
  <2>2. ASSUME p # Len(c), ui.items[c[p]].place = ui.items[c[p + 1]].place
        PROVE  \E j \in mine : Nearest(j) /\ ui.items[i].place = ui.items[j].place
    BY <1>5, <1>10, <1>11, <2>2
  <2> QED
    BY <2>1, <2>2
<1>13. "before" \in drawn <=> \A j \in mine : Calendar!Begins(i) <= Calendar!Begins(j)
  BY <1>7, <1>9
<1>14. "after" \notin drawn <=> \E j \in mine : Nearest(j) /\ ui.items[i].place = ui.items[j].place
  <2> HIDE DEF Nearest
  <2> QED
    BY <1>7, <1>12, Zenon
<1> QED
  BY <1>13, <1>14, Zenon

-----------------------------------------------------------------------------
(* The layout of a day: what a page keeps                                  *)

LEMMA DayStarts == Calendar!Init => DayKept
<1> SUFFICES ASSUME Calendar!Init PROVE DayKept
  OBVIOUS
<1>1. PICK n \in 0..Length : server \in [1..n -> Class]
  BY DEF Calendar!Init, Calendar!Lists
<1>2. n \in Nat /\ n <= Length /\ server \in [1..n -> Calendar!Booking]
  BY <1>1, DayIsTyped
<1>3. ui.items = server /\ ui = [items |-> ui.items, dragged |-> ui.dragged] /\ ui.dragged = None
      /\ calls = {}
  BY DEF Calendar!Init
<1>4. server \in [1..n -> Calendar!Drawn]
  BY <1>2 DEF Calendar!Booking
<1> QED
  BY <1>2, <1>3, <1>4 DEF DayKept, DayTyped

LEMMA DaySteps == DayKept /\ Calendar!Next => DayKept'
<1> SUFFICES ASSUME DayKept, Calendar!Next PROVE DayKept'
  OBVIOUS
<1>1. PICK n \in Nat :
        /\ ui.items \in [1..n -> Calendar!Drawn]
        /\ n <= Length
        /\ server \in [1..n -> Calendar!Booking]
        /\ ui = [items |-> ui.items, dragged |-> ui.dragged]
        /\ ui.dragged \in 1..n \cup {None}
        /\ \A c \in calls : IsCall(c) /\ Calendar!Asks(c, n)
  BY DEF DayKept, DayTyped
<1> USE <1>1
<1> DEFINE Kept ==
             /\ ui'.items \in [1..n -> Calendar!Drawn]
             /\ server' \in [1..n -> Calendar!Booking]
             /\ ui' = [items |-> ui'.items, dragged |-> ui'.dragged]
             /\ ui'.dragged \in 1..n \cup {None}
             /\ \A c \in calls' : IsCall(c) /\ Calendar!Asks(c, n)
<1>2. SUFFICES Kept
  BY DEF DayKept, DayTyped, Calendar!Asks, Calendar!Booking, Calendar!Drawn, Calendar!Slots
<1>3. Calendar!Day = 1..n /\ Calendar!Moves \subseteq calls
  BY DEF Calendar!Day, Calendar!Moves
<1>4. ASSUME Calendar!DragCancel \/ \E i \in Calendar!Day : Calendar!DragStart(i)
      PROVE  Kept
  <2>1. /\ server' = server /\ calls' = calls
        /\ \E d \in 1..n \cup {None} : ui' = [ui EXCEPT !.dragged = d]
    BY <1>3, <1>4 DEF Calendar!DragCancel, Calendar!DragStart
  <2>2. PICK d \in 1..n \cup {None} : ui' = [items |-> ui.items, dragged |-> d]
    BY <2>1
  <2> QED
    BY <2>1, <2>2
<1>5. ASSUME NEW start \in Nat, Calendar!DragEnd(start)
      PROVE  Kept
  <2>1. PICK s, e : s = ui.items[ui.dragged] /\ e = start + (s.end - s.start)
    OBVIOUS
  <2>2. ui.dragged \in 1..n /\ s \in Calendar!Drawn /\ s.start \in Nat /\ s.end \in Nat /\ s.start < s.end
    BY <1>5, <2>1 DEF Calendar!DragEnd, Calendar!Drawn
  <2>3. e \in Nat /\ start < e
    BY <2>1, <2>2
  <2>4. CASE start = s.start
    <3>1. ui' = [items |-> ui.items, dragged |-> None] /\ server' = server /\ calls' = calls
      BY <1>5, <2>1, <2>4 DEF Calendar!DragEnd
    <3> QED
      BY <3>1
  <2>5. CASE start # s.start
    <3>1. PICK moved, slot : /\ moved = [s EXCEPT !.start = start, !.end = e]
                             /\ slot = [start |-> start, end |-> e]
      OBVIOUS
    <3>2. moved \in Calendar!Drawn /\ slot \in Calendar!Slots
      BY <2>2, <2>3, <3>1, Zenon DEF Calendar!Drawn, Calendar!Slots
    <3>3. /\ ui' = [items |-> [ui.items EXCEPT ![ui.dragged] = moved], dragged |-> None]
          /\ server' = server
          /\ calls' = Calendar!Moves \cup {Calendar!Call(made, 0, ui.dragged, "relocate", slot, None)}
      BY <1>5, <2>1, <2>5, <3>1 DEF Calendar!DragEnd
    <3>4. \A c \in calls' : IsCall(c) /\ Calendar!Asks(c, n)
      BY <1>3, <2>2, <3>2, <3>3 DEF Calendar!Asks, Calendar!Call, IsCall, CallFields
    <3> QED
      BY <3>2, <3>3, <3>4
  <2> QED
    BY <2>4, <2>5
<1>6. ASSUME NEW c \in calls, Calendar!Relocated(c) \/ Calendar!ListArrives(c)
      PROVE  Kept
  <2>1. CASE Calendar!Relocated(c)
    <3>1. ui' = ui /\ server' = server /\ calls' = (Calendar!Moves \ {c}) \cup {Calendar!Fetch(None)}
      BY <2>1 DEF Calendar!Relocated
    <3>2. IsCall(Calendar!Fetch(None)) /\ Calendar!Asks(Calendar!Fetch(None), n)
      BY DEF Calendar!Asks, Calendar!Fetch, Calendar!Call, IsCall, CallFields
    <3> QED
      BY <1>3, <3>1, <3>2
  <2>2. CASE Calendar!ListArrives(c)
    <3>1. /\ ui' = [items |-> c.answer, dragged |-> ui.dragged]
          /\ server' = server /\ calls' = calls \ {c} /\ c.op = "list" /\ c.at = "ok"
      BY <2>2 DEF Calendar!ListArrives, Calendar!Ends
    <3>2. c.answer \in [1..n -> Calendar!Drawn]
      BY <3>1 DEF Calendar!Asks, Calendar!Booking
    <3> QED
      BY <3>1, <3>2
  <2> QED
    BY <1>6, <2>1, <2>2
<1>7. ASSUME NEW c \in calls, NEW at, NEW answer,
             c.op = "list" /\ at = "ok" => answer \in [1..n -> Calendar!Booking],
             calls' = (calls \ {c}) \cup {[c EXCEPT !.at = at, !.answer = answer]}
      PROVE  \A d \in calls' : IsCall(d) /\ Calendar!Asks(d, n)
  <2>1. PICK d : d = [c EXCEPT !.at = at, !.answer = answer]
    OBVIOUS
  <2>2. IsCall(d) /\ d.op = c.op /\ d.item = c.item /\ d.value = c.value /\ d.at = at /\ d.answer = answer
    BY <2>1, Zenon DEF IsCall, CallFields
  <2>3. Calendar!Asks(d, n)
    BY <1>7, <2>2, Zenon DEF Calendar!Asks
  <2> QED
    BY <1>7, <2>1, <2>2, <2>3, Zenon
<1>8. ASSUME NEW c \in calls, Calendar!Serve(c)
      PROVE  Kept
  <2>1. CASE c.op = "relocate"
    <3>1. /\ ui' = ui
          /\ server' = [server EXCEPT ![c.item].start = c.value.start, ![c.item].end = c.value.end]
          /\ calls' = (calls \ {c}) \cup {[c EXCEPT !.at = "ok", !.answer = None]}
      BY <1>8, <2>1 DEF Calendar!Serve, Calendar!Answered, Calendar!Replace
    <3>2. c.item \in 1..n /\ c.value \in Calendar!Slots /\ c.value.end <= DayEnd
      BY <1>8, <2>1 DEF Calendar!Asks, Calendar!Serve
    <3> USE <3>2
    <3>3. [server[c.item] EXCEPT !.start = c.value.start, !.end = c.value.end] \in Calendar!Booking
      BY Zenon DEF Calendar!Booking, Calendar!Drawn, Calendar!Slots
    <3>4. server' = [server EXCEPT ![c.item] =
                       [server[c.item] EXCEPT !.start = c.value.start, !.end = c.value.end]]
      BY <3>1, <3>3, Zenon
    <3>5. server' \in [1..n -> Calendar!Booking]
      BY <3>3, <3>4
    <3> QED
      BY <1>7, <2>1, <3>1, <3>5, Zenon
  <2>2. CASE c.op # "relocate"
    <3>1. /\ ui' = ui /\ server' = server
          /\ calls' = (calls \ {c}) \cup {[c EXCEPT !.at = "ok", !.answer = server]}
      BY <1>8, <2>2 DEF Calendar!Serve, Calendar!Answered, Calendar!Replace
    <3> QED
      BY <1>7, <3>1, Zenon
  <2> QED
    BY <2>1, <2>2
<1>9. ASSUME NEW c \in calls, Calendar!Refuse(c)
      PROVE  Kept
  <2>1. /\ ui' = ui /\ server' = server
        /\ calls' = (calls \ {c}) \cup {[c EXCEPT !.at = "no", !.answer = None]}
    BY <1>9 DEF Calendar!Refuse, Calendar!Fault, Calendar!Refused, Calendar!Replace
  <2> QED
    BY <1>7, <2>1, Zenon
<1>10. \A start \in 0..(2 * DayEnd) : start \in Nat
  BY DayIsTyped
<1> HIDE DEF Kept
<1> QED
  BY <1>4, <1>5, <1>6, <1>8, <1>9, <1>10 DEF Calendar!Next

\* Wherever the schedules of a day are dragged, and whatever the list is when it
\* is fetched again: they are packed side by side into as few columns as they fit
\* in, and each employee's drives link the places of the day.
THEOREM DaysAreLaidOut == Spec => []DayIsLaidOut
<1> DEFINE Inv == page = "day" => DayKept
<1>1. Init => Inv
  BY StartsOn, DayStarts
<1>2. Inv /\ [Next]_vars => Inv'
  <2> SUFFICES ASSUME Inv, [Next]_vars PROVE Inv'
    OBVIOUS
  <2>1. CASE UNCHANGED vars
    BY <2>1 DEF vars, DayKept, DayTyped
  <2>2. CASE page' = page /\ (page = "day" => Calendar!Next)
    BY <2>2, DaySteps
  <2> QED
    BY <2>1, <2>2, StaysOn
<1>3. Inv => DayIsLaidOut
  BY DayPacked, DayDriven DEF DayKept, DayIsLaidOut
<1> QED
  BY <1>1, <1>2, <1>3, PTL DEF Spec

-----------------------------------------------------------------------------
(* Types: what a step counts                                               *)

LEMMA CountedKept ==
  ASSUME Counted, page \in Pages, page' = page, Tallies
  PROVE  Counted'
<1>1. MaxCalls[page] \in Nat /\ MaxFaults \in Nat
  BY BoundsAreNumbers
<1>2. made' \in 0..MaxCalls[page]
  BY <1>1 DEF Counted, Tallies
<1>3. faults' \in 0..MaxFaults
  BY <1>1 DEF Counted, Tallies
<1> QED
  BY <1>2, <1>3 DEF Counted, Tallies

LEMMA WizardTallies == clean \in BOOLEAN /\ Wizard!Next => Tallies
  BY ZenonT(30) DEF Wizard!Next, Wizard!Forward, Wizard!Back, Wizard!PickClass, Wizard!OpenQuick, Wizard!CloseQuick,
     Wizard!CreateClass, Wizard!OpenCustom, Wizard!CancelCustom, Wizard!DoneCustom, Wizard!Submit,
     Wizard!SubmitFails, Wizard!Jump, Wizard!PickStaff, Wizard!PickPlace, Wizard!TypeCount,
     Wizard!PickRepeat, Wizard!PickEnd, Wizard!EditDraft, Wizard!ClassCreated, Wizard!ClassFails,
     Wizard!Edits, Wizard!Start, Wizard!Counts, Wizard!Fault, Wizard!Ends, Tallies

LEMMA TaskTallies == clean \in BOOLEAN /\ TaskPage!Next => Tallies
  BY ZenonT(30) DEF TaskPage!Next, TaskPage!User, TaskPage!Serve, TaskPage!Refuse, TaskPage!Answer,
     TaskPage!Elsewhere, TaskPage!OpenTask, TaskPage!Close, TaskPage!Retry, TaskPage!BlurText,
     TaskPage!ToggleFlag, TaskPage!Send, TaskPage!Upload, TaskPage!Detach, TaskPage!Delete,
     TaskPage!TypeText, TaskPage!PickOwner, TaskPage!PickStatus, TaskPage!TypeBody,
     TaskPage!AcceptMember, TaskPage!Answered, TaskPage!Refused, TaskPage!Fault,
     TaskPage!Loaded, TaskPage!LoadFails, TaskPage!FieldAnswered, TaskPage!StatusSaved,
     TaskPage!StatusRefreshed, TaskPage!StatusFails, TaskPage!FlagAnswered,
     TaskPage!CommentPosted, TaskPage!CommentShown, TaskPage!CommentFails, TaskPage!FileStored,
     TaskPage!FilesShown, TaskPage!FileFails, TaskPage!Deleted, TaskPage!Counts, TaskPage!Start,
     TaskPage!Ask, TaskPage!Ends, TaskPage!LoadBreaks, TaskPage!Continue, Tallies

LEMMA BoardTallies == clean \in BOOLEAN /\ Board!Next => Tallies
  BY ZenonT(30) DEF Board!Next, Board!User, Board!Serve, Board!Refuse, Board!ListArrives, Board!ListFails,
     Board!StatusAnswered, Board!Relocated, Board!RelocateFails, Board!BulkDone,
     Board!BulkFails, Board!Retry, Board!Turn, Board!Widen, Board!ToggleSelectionMode,
     Board!Navigate, Board!ToggleItem, Board!ChangeStatus, Board!DropOnSlot, Board!SelectColumn,
     Board!BulkStatus, Board!TypeReason, Board!ForceRelocate, Board!CloseConflict,
     Board!AskBulk, Board!ConfirmBulk, Board!CancelBulk, Board!Answered, Board!Refused,
     Board!Fault, Board!Ends, Board!AnsweredAndFetches, Board!Counts, Board!Swapped,
     Board!StartSwapped, Board!Relocate, Board!Begin, Board!Start, Tallies

LEMMA ProjectsTallies == clean \in BOOLEAN /\ Projects!Next => Tallies
  BY ZenonT(30) DEF Projects!Next, Projects!User, Projects!Serve, Projects!Refuse, Projects!Arrives,
     Projects!ListFails, Projects!Warned, Projects!StaffDone, Projects!StaffFails,
     Projects!PortalSaved, Projects!PortalListed, Projects!PortalRefreshed,
     Projects!PortalFails, Projects!Retry, Projects!ForceAdvance, Projects!CancelGate,
     Projects!SwitchView, Projects!DeleteTask, Projects!ToggleTask, Projects!DragPending,
     Projects!DropProject, Projects!DropTask, Projects!AddTask, Projects!DragTask,
     Projects!Listing, Projects!Answered, Projects!Gate, Projects!Refused, Projects!Fault,
     Projects!ListArrives, Projects!Ends, Projects!EndsAndFetches, Projects!Ask, Projects!Start,
     Projects!Counts, Tallies

LEMMA RecordsTallies == clean \in BOOLEAN /\ Lookups!Next => Tallies
  BY ZenonT(30) DEF Lookups!Next, Lookups!User, Lookups!Serve, Lookups!Refuse, Lookups!Arrives,
     Lookups!ListFails, Lookups!DriveAnswered, Lookups!Saved, Lookups!SaveFails,
     Lookups!Deleted, Lookups!DeleteFails, Lookups!Retry, Lookups!OpenNew, Lookups!CloseForm,
     Lookups!Submit, Lookups!CancelDelete, Lookups!Delete, Lookups!OpenEdit, Lookups!OpenDelete,
     Lookups!TypeMain, Lookups!SelectPlace, Lookups!TypeDrive, Lookups!Listing,
     Lookups!Answered, Lookups!Written, Lookups!Refused, Lookups!Fault, Lookups!ListArrives,
     Lookups!Ends, Lookups!EndsAndFetches, Lookups!Opens, Lookups!Start, Lookups!Counts, Tallies

LEMMA UsersTallies == clean \in BOOLEAN /\ Accounts!Next => Tallies
  BY ZenonT(30) DEF Accounts!Next, Accounts!User, Accounts!Serve, Accounts!Refuse, Accounts!ListArrives,
     Accounts!Acted, Accounts!Invited, Accounts!InviteFails, Accounts!Cleared,
     Accounts!SessionsArrive, Accounts!Revoked, Accounts!CancelDelete, Accounts!ConfirmDelete,
     Accounts!OpenInvite, Accounts!CloseInvite, Accounts!Invite, Accounts!CloseSessions,
     Accounts!RevokeSessions, Accounts!Decide, Accounts!ChangeRole, Accounts!RequestDelete,
     Accounts!TypeEmail, Accounts!RevokeInvitation, Accounts!ClearLockout,
     Accounts!OpenSessions, Accounts!Answered, Accounts!Refused, Accounts!Fault, Accounts!Ends,
     Accounts!EndsAndFetches, Accounts!Act, Accounts!Start, Accounts!Counts, Tallies

LEMMA HooksTallies == clean \in BOOLEAN /\ Hooks!Next => Tallies
  BY Zenon DEF Hooks!Next, Hooks!OpenCreate, Hooks!CloseCreate, Hooks!Create, Hooks!Dismiss,
     Hooks!Fill, Hooks!Rotate, Hooks!Delete, Hooks!Serve, Hooks!Refuse, Hooks!ListArrives,
     Hooks!Created, Hooks!CreateFails, Hooks!Rotated, Hooks!Deleted, Hooks!Start,
     Hooks!Answered, Hooks!Refused, Hooks!Fault, Hooks!Ends, Hooks!EndsAndFetches, Hooks!Counts,
     Tallies

LEMMA ReportsTallies == clean \in BOOLEAN /\ Numbers!Next => Tallies
  BY Zenon DEF Numbers!Next, Numbers!Retry, Numbers!ChangeFilter, Numbers!Serve, Numbers!Refuse,
     Numbers!Arrives, Numbers!Fails, Numbers!Counts, Numbers!Answered, Numbers!Fault,
     Numbers!Ends, Numbers!Refused, Tallies

LEMMA FormTallies == clean \in BOOLEAN /\ Form!Next => Tallies
  BY ZenonT(30) DEF Form!Next, Form!Close, Form!Debounced, Form!RetryPreview, Form!OverrideLeg,
     Form!Submit, Form!Delete, Form!CancelSeries, Form!DeleteSeries, Form!AnswerDiscard,
     Form!PickScope, Form!Change, Form!Open, Form!Previewed, Form!LegSet, Form!Saved,
     Form!SaveFails, Form!DeleteFails, Form!FetchPreview, Form!Start, Form!Counts, Form!Works,
     Form!Fails, Form!Ends, Form!Why, Tallies

LEMMA SessionTallies == clean \in BOOLEAN /\ Browser!Next => Tallies
  BY ZenonT(30) DEF Browser!Next, Browser!GraceEnds, Browser!Expire, Browser!Reload, Browser!Send,
     Browser!LogIn, Browser!LogOut, Browser!MeAnswered, Browser!Denied, Browser!Refreshed,
     Browser!NotRefreshed, Browser!Done, Browser!LoggedIn, Browser!LoggedOut, Browser!Orphaned,
     Browser!Serve, Browser!Lose, Browser!Counts, Browser!Load, Browser!Ends,
     Browser!ServeRefresh, Browser!ServeLogOut, Browser!Issues, Browser!ServeChange,
     Browser!Answered, Browser!Denies, Browser!Fault, Browser!Refused, Tallies

LEMMA ImportTallies == clean \in BOOLEAN /\ Csv!Next => Tallies
  BY Zenon DEF Csv!Next, Csv!OpenDialog, Csv!CloseDialog, Csv!ChangeFile, Csv!Preview, Csv!Commit,
     Csv!SelectFile, Csv!Previewed, Csv!PreviewFails, Csv!Committed, Csv!CommitFails, Csv!Serve,
     Csv!Refuse, Csv!Start, Csv!Ends, Csv!Answered, Csv!Fault, Csv!Counts, Csv!Refused, Tallies

LEMMA InboxTallies == clean \in BOOLEAN /\ (\A c \in calls : c.op = "poll" => c.value \in BOOLEAN) /\ Bell!Next => Tallies
  BY Zenon DEF Bell!Next, Bell!Bell, Bell!ClickElsewhere, Bell!Tick, Bell!Retry, Bell!ReadAll,
     Bell!DismissAll, Bell!Click, Bell!Dismiss, Bell!HideAlert, Bell!Notify, Bell!Alert,
     Bell!Polled, Bell!Written, Bell!WriteFails, Bell!PollServed, Bell!PollFails, Bell!Serve,
     Bell!Refuse, Bell!Counts, Bell!Polling, Bell!Write, Bell!Ends, Bell!Answered, Bell!Fault,
     Bell!Refused, Tallies

LEMMA SettingsTallies == clean \in BOOLEAN /\ Personal!Next => Tallies
  BY ZenonT(30) DEF Personal!Next, Personal!TypePassword, Personal!ChangePassword, Personal!Connect,
     Personal!Disconnect, Personal!ChangePrefs, Personal!EmployeeAnswered,
     Personal!ConfigAnswered, Personal!PrefsAnswered, Personal!Connected, Personal!ConnectFails,
     Personal!Disconnected, Personal!Saved, Personal!PasswordChanged, Personal!Serve,
     Personal!Refuse, Personal!Start, Personal!Ends, Personal!Answered, Personal!Fault,
     Personal!Counts, Personal!Refused, Tallies

LEMMA DayTallies == clean \in BOOLEAN /\ Calendar!Next => Tallies
  BY Zenon DEF Calendar!Next, Calendar!DragCancel, Calendar!DragStart, Calendar!DragEnd,
     Calendar!Relocated, Calendar!ListArrives, Calendar!Serve, Calendar!Refuse, Calendar!Ends,
     Calendar!Answered, Calendar!Fault, Calendar!Counts, Calendar!Refused, Tallies

LEMMA OutcomesTallies == clean \in BOOLEAN /\ Funnels!Next => Tallies
  BY ZenonT(30) DEF Funnels!Next, Funnels!User, Funnels!Serve, Funnels!WriteStatus, Funnels!Refuse,
     Funnels!Arrives, Funnels!LoadFails, Funnels!Warned, Funnels!Changed, Funnels!ChangeFails,
     Funnels!Added, Funnels!AddFails, Funnels!Change, Funnels!CancelWarning, Funnels!Confirm,
     Funnels!ToggleQuick, Funnels!OpenBulk, Funnels!Preview, Funnels!BackToText,
     Funnels!CloseBulk, Funnels!QuickAdd, Funnels!BulkAdd, Funnels!ServeLoad,
     Funnels!ReadStatus, Funnels!Insert, Funnels!Answered, Funnels!Fault, Funnels!Loaded,
     Funnels!Ends, Funnels!EndsAndLoads, Funnels!Start, Funnels!Edits, Funnels!ReadPart,
     Funnels!Refused, Funnels!Counts, Tallies

LEMMA ChecklistTallies == clean \in BOOLEAN /\ Promotion!Next => Tallies
  BY Zenon DEF Promotion!Next, Promotion!User, Promotion!FindNone, Promotion!Create, Promotion!Find,
     Promotion!Turn, Promotion!Push, Promotion!Refuse, Promotion!Arrives, Promotion!LoadFails,
     Promotion!Done, Promotion!Fails, Promotion!Toggle, Promotion!ShowAdd, Promotion!Add,
     Promotion!Refused, Promotion!Answered, Promotion!ReadPart, Promotion!Fault,
     Promotion!Loaded, Promotion!Ends, Promotion!EndsAndLoads, Promotion!Start,
     Promotion!Counts, Tallies

LEMMA ThreadsTallies == clean \in BOOLEAN /\ Threads!Next => Tallies
  BY Zenon DEF Threads!Next, Threads!User, Threads!Serve, Threads!Refuse, Threads!Arrives,
     Threads!FetchFails, Threads!Sent, Threads!SendFails, Threads!Retry, Threads!Write,
     Threads!Send, Threads!Choose, Threads!Answered, Threads!Fault, Threads!Renders,
     Threads!Ends, Threads!Start, Threads!Refused, Threads!Counts, Tallies

-----------------------------------------------------------------------------
(* Types: what calls ask for                                               *)

LEMMA AskingMore ==
  ASSUME NEW S, NEW asks, NEW list, Asking(S, asks, list), NEW id, NEW inst, NEW item, NEW op, NEW value, NEW prev,
         <<op, item, value>> \in asks, NEW T, T \subseteq S \cup {Call(id, inst, item, op, value, prev)}
  PROVE  Asking(T, asks, list)
<1>1. PICK c : c = Call(id, inst, item, op, value, prev)
  OBVIOUS
<1>2. IsCall(c) /\ c.op = op /\ c.item = item /\ c.value = value /\ c.at = "out"
  BY <1>1, NewCall
<1> QED
  BY <1>1, <1>2, Zenon DEF Asking, Arrived

LEMMA AskingStill ==
  ASSUME NEW S, NEW asks, NEW list, Asking(S, asks, list), NEW c \in S, NEW d, NEW x, NEW y,
         d = [c EXCEPT !.at = x, !.answer = y],
         c.op = "list" /\ c.value = "latest" /\ x = "ok" => y \in list
  PROVE  Asking((S \ {c}) \cup {d}, asks, list)
<1>1. IsCall(d) /\ d.op = c.op /\ d.item = c.item /\ d.value = c.value /\ d.at = x /\ d.answer = y
  <2>1. IsCall(c)
    BY Zenon DEF Asking
  <2> QED
    BY <2>1, Zenon DEF IsCall, CallFields
<1> QED
  BY <1>1, Zenon DEF Asking, Arrived

LEMMA AskingAnswered ==
  ASSUME NEW S, NEW asks, NEW list, Asking(S, asks, list), NEW c \in S, NEW y, NEW T,
         c.op = "list" /\ c.value = "latest" => y \in list,
         T = (S \ {c}) \cup {[c EXCEPT !.at = "ok", !.answer = y]}
  PROVE  Asking(T, asks, list)
  BY AskingStill, Zenon

LEMMA AskingRefused ==
  ASSUME NEW S, NEW asks, NEW list, Asking(S, asks, list), NEW c \in S, NEW y, NEW T,
         T = (S \ {c}) \cup {[c EXCEPT !.at = "no", !.answer = y]}
  PROVE  Asking(T, asks, list)
  BY AskingStill, Zenon

LEMMA AskingFewer ==
  ASSUME NEW S, NEW asks, NEW list, Asking(S, asks, list), NEW T, T \subseteq S
  PROVE  Asking(T, asks, list)
  BY Zenon DEF Asking

\* Lists are fetched again.
LEMMA AskingAgain ==
  ASSUME NEW S, NEW asks, NEW list, Asking(S, asks, list), NEW k, NEW T,
         <<"list", k, "latest">> \in asks,
         \A c \in S : c.op = "list" => <<"list", c.item, "overtaken">> \in asks,
         \A e \in T : e = Fetch(k) \/ e \in S \/ \E c \in S : c.op = "list" /\ e = Late(c)
  PROVE  Asking(T, asks, list)
<1>1. PICK f : f = Fetch(k)
  OBVIOUS
<1>2. IsCall(f) /\ f.op = "list" /\ f.item = k /\ f.value = "latest" /\ f.at = "out"
  BY <1>1 DEF Fetch, Call, IsCall, CallFields
<1>3. ASSUME NEW c \in S, c.op = "list"
      PROVE  /\ IsCall(Late(c)) /\ Late(c).op = "list" /\ Late(c).item = c.item
             /\ Late(c).value = "overtaken"
  <2>1. IsCall(c)
    BY Zenon DEF Asking
  <2> QED
    BY <1>3, <2>1, Zenon DEF Late, IsCall, CallFields
<1>4. ASSUME NEW e \in T
      PROVE  IsCall(e) /\ <<e.op, e.item, e.value>> \in asks /\ (Arrived(e) => e.answer \in list)
  BY <1>1, <1>2, <1>3 DEF Asking, Arrived
<1> QED
  BY <1>4, Zenon DEF Asking

-----------------------------------------------------------------------------
(* Types: the webhooks                                                     *)

LEMMA HooksTypesStart == Hooks!Init => HooksTyped
  BY DEF Hooks!Init, Hooks!Ui, Hooks!Live, HooksTyped, Asking

LEMMA HooksTypes == made \in Nat /\ HooksTyped /\ Hooks!Next => HooksTyped'
<1> SUFFICES ASSUME made \in Nat, HooksTyped, Hooks!Next PROVE HooksTyped'
  OBVIOUS
<1> USE DEF Hooks!Call, Call, Hooks!Fetch, Fetch
<1>0. server \in [Item -> Nat \cup {None}] /\ ui \in Hooks!Ui /\ Asking(calls, HookAsks, SUBSET Item)
  BY DEF HooksTyped
<1>1. PICK n \in Nat : n = made + 2
  OBVIOUS
<1>2. ASSUME ui' \in Hooks!Ui, UNCHANGED server,
             NEW id, NEW inst, NEW item, NEW op, NEW value, NEW prev, <<op, item, value>> \in HookAsks,
             calls' \subseteq calls \cup {Call(id, inst, item, op, value, prev)}
      PROVE  HooksTyped'
  BY <1>0, <1>2, AskingMore, Zenon DEF HooksTyped
<1>3. <<"list", None, "latest">> \in HookAsks
  BY DEF HookAsks
<1>4. ASSUME Hooks!OpenCreate \/ Hooks!CloseCreate \/ Hooks!Dismiss \/ \E i \in Item : Hooks!Fill(i)
      PROVE  HooksTyped'
  <2>1. ui' \in Hooks!Ui
    BY <1>0, <1>4, Zenon DEF Hooks!OpenCreate, Hooks!CloseCreate, Hooks!Dismiss, Hooks!Fill, Hooks!Ui
  <2> QED
    BY <1>2, <1>3, <1>4, <2>1 DEF Hooks!OpenCreate, Hooks!CloseCreate, Hooks!Dismiss, Hooks!Fill
<1>5. ASSUME Hooks!Create \/ \E i \in Item : Hooks!Rotate(i) \/ Hooks!Delete(i) PROVE HooksTyped'
  <2>1. server' = server /\ ui' \in Hooks!Ui
    BY <1>0, <1>5, Zenon DEF Hooks!Create, Hooks!Rotate, Hooks!Delete, Hooks!Ui
  <2>2. \A i \in Item : {<<"create", i, n>>, <<"rotate", i, n>>, <<"delete", i, None>>} \subseteq HookAsks
    BY DEF HookAsks
  <2>3. ui.draft \in Item \cup {None}
    BY <1>0 DEF Hooks!Ui
  <2>4. PICK op, item, value : /\ <<op, item, value>> \in HookAsks
                               /\ calls' = calls \cup {Call(made, 0, item, op, value, None)}
    BY <1>1, <1>5, <2>2, <2>3, Zenon DEF Hooks!Create, Hooks!Rotate, Hooks!Delete, Hooks!Start
  <2> QED
    BY <1>2, <2>1, <2>4
<1>6. ASSUME NEW c \in calls, Hooks!Created(c) \/ Hooks!CreateFails(c) \/ Hooks!Rotated(c)
                              \/ Hooks!Deleted(c) \/ Hooks!ListArrives(c)
      PROVE  HooksTyped'
  <2>1. /\ c.op \in {"create", "rotate"} => c.item \in Item /\ c.value \in Nat
        /\ c.op = "list" /\ c.at = "ok" => c.answer \in SUBSET Item
    BY <1>0, Zenon DEF Asking, HookAsks, Arrived
  <2>2. server' = server /\ ui' \in Hooks!Ui
    BY <1>0, <1>6, <2>1, Zenon DEF Hooks!Created, Hooks!CreateFails, Hooks!Rotated, Hooks!Deleted,
       Hooks!ListArrives, Hooks!Ui
  <2> QED
    BY <1>2, <1>3, <1>6, <2>2 DEF Hooks!Created, Hooks!CreateFails, Hooks!Rotated, Hooks!Deleted,
       Hooks!ListArrives, Hooks!Ends, Hooks!EndsAndFetches
<1>7. ASSUME NEW c \in calls, Hooks!Serve(c) \/ Hooks!Refuse(c) PROVE HooksTyped'
  <2>1. c.op # "list" => c.item \in Item /\ (c.value \in Nat \/ c.value = None)
    BY <1>0, Zenon DEF Asking, HookAsks
  <2>2. server' \in [Item -> Nat \cup {None}] /\ ui' = ui
    BY <1>0, <1>7, <2>1 DEF Hooks!Serve, Hooks!Refuse
  <2>3. PICK x, y : /\ calls' = (calls \ {c}) \cup {[c EXCEPT !.at = x, !.answer = y]}
                    /\ c.op = "list" /\ x = "ok" => y \in SUBSET Item
    <3>1. Hooks!Live \in SUBSET Item
      BY DEF Hooks!Live
    <3>2. CASE Hooks!Refuse(c)
      <4>1. calls' = (calls \ {c}) \cup {[c EXCEPT !.at = "no", !.answer = None]}
        BY <3>2 DEF Hooks!Refuse, Hooks!Refused, Hooks!Fault, Hooks!Replace
      <4> QED
        BY <4>1, Zenon
    <3>3. CASE Hooks!Serve(c)
      BY <3>1, <3>3, Zenon DEF Hooks!Serve, Hooks!Answered, Hooks!Replace
    <3> QED
      BY <1>7, <3>2, <3>3, Zenon
  <2> QED
    BY <1>0, <2>2, <2>3, AskingStill, Zenon DEF HooksTyped
<1> QED
  BY <1>4, <1>5, <1>6, <1>7 DEF Hooks!Next

-----------------------------------------------------------------------------
(* Types: the numbers                                                      *)

LEMMA ReportsTypesStart == Numbers!Init => ReportsTyped
<1> SUFFICES ASSUME Numbers!Init PROVE ReportsTyped
  OBVIOUS
<1> USE DEF Numbers!Call
<1>1. PICK f \in Item : /\ calls = {Call(0, 0, f, "report", None, None)}
                        /\ ui = [filter |-> f, shown |-> None, loading |-> TRUE, failed |-> FALSE,
                                 cached |-> {}, inst |-> 0]
  BY Zenon DEF Numbers!Init, Call
<1>2. server = None /\ ui \in ReportsUi
  BY <1>1 DEF Numbers!Init, ReportsUi
<1>3. Asking({}, ReportAsks, {}) /\ <<"report", f, None>> \in ReportAsks
  BY DEF Asking, ReportAsks
<1>4. Asking(calls, ReportAsks, {})
  BY <1>1, <1>3, AskingMore
<1> QED
  BY <1>2, <1>4 DEF ReportsTyped

LEMMA ReportsTypes == made \in Nat /\ ReportsTyped /\ Numbers!Next => ReportsTyped'
<1> SUFFICES ASSUME made \in Nat, ReportsTyped, Numbers!Next PROVE ReportsTyped'
  OBVIOUS
<1> USE DEF Numbers!Call, Call
<1>0. server = None /\ ui \in ReportsUi /\ Asking(calls, ReportAsks, {})
  BY DEF ReportsTyped
<1> USE <1>0
<1>1. ASSUME Numbers!Retry \/ \E f \in Item : Numbers!ChangeFilter(f) PROVE ReportsTyped'
  <2>1. ui' \in ReportsUi
    <3>1. CASE Numbers!Retry
      BY <3>1, Zenon DEF Numbers!Retry, ReportsUi
    <3>2. ASSUME NEW f \in Item, Numbers!ChangeFilter(f) PROVE ui' \in ReportsUi
      BY <3>2, Zenon DEF Numbers!ChangeFilter, ReportsUi
    <3> QED
      BY <1>1, <3>1, <3>2
  <2>2. PICK f \in Item : \E i :
               calls' \subseteq calls \cup {Call(made, i, f, "report", None, None)}
    BY <1>1, Zenon DEF Numbers!Retry, Numbers!ChangeFilter, Numbers!KeepsRequests, Numbers!Asks, ReportsUi
  <2>3. server' = None /\ <<"report", f, None>> \in ReportAsks
    BY <1>1, Zenon DEF Numbers!Retry, Numbers!ChangeFilter, ReportAsks
  <2>4. PICK i : calls' \subseteq calls \cup {Call(made, i, f, "report", None, None)}
    BY <2>2
  <2> QED
    BY <2>1, <2>3, <2>4, AskingMore DEF ReportsTyped
<1>2. ASSUME NEW c \in calls, Numbers!Arrives(c) \/ Numbers!Fails(c) PROVE ReportsTyped'
  <2>1. c.item \in Item
    BY Zenon DEF Asking, ReportAsks
  <2>2. PICK b \in BOOLEAN : b = (ui.loading /\ c.item # ui.filter)
    BY Zenon
  <2>3. CASE Numbers!Arrives(c)
    BY <2>1, <2>2, <2>3, AskingFewer, Zenon DEF Numbers!Arrives, Numbers!Fills, Numbers!Ends, ReportsTyped, ReportsUi
  <2>4. CASE Numbers!Fails(c)
    BY <2>1, <2>2, <2>4, AskingFewer, Zenon DEF Numbers!Fails, Numbers!Ends, ReportsTyped, ReportsUi
  <2> QED
    BY <1>2, <2>3, <2>4
<1>3. ASSUME NEW c \in calls, Numbers!Serve(c) PROVE ReportsTyped'
  <2>1. c.op # "list"
    BY Zenon DEF Asking, ReportAsks
  <2> QED
    BY <1>3, <2>1, AskingAnswered, Zenon DEF Numbers!Serve, Numbers!Answered, Numbers!Replace, ReportsTyped
<1>4. ASSUME NEW c \in calls, Numbers!Refuse(c) PROVE ReportsTyped'
  BY <1>4, AskingRefused, Zenon DEF Numbers!Refuse, Numbers!Fault, Numbers!Refused, Numbers!Replace,
     ReportsTyped
<1> QED
  BY <1>1, <1>2, <1>3, <1>4 DEF Numbers!Next

-----------------------------------------------------------------------------
(* Types: the schedule form                                                *)

LEMMA FormTypesStart == Form!Init => FormTyped
  BY DEF Form!Init, Form!Shut, Form!Form, FormUi, FormTyped

LEMMA FormTypes == made \in Nat /\ FormTyped /\ Form!Next => FormTyped'
<1> SUFFICES ASSUME made \in Nat, FormTyped, Form!Next PROVE FormTyped'
  OBVIOUS
<1>0. server \in [Value -> Form!Kinds] /\ ui \in FormUi /\ \A c \in calls : FormCall(c)
  BY DEF FormTyped
<1>1. ASSUME ui' \in FormUi, UNCHANGED server, \A c \in calls' : c \in calls \/ FormCall(c) PROVE FormTyped'
  BY <1>0, <1>1 DEF FormTyped
<1>2. Form!Shut \in FormUi
  BY DEF Form!Shut, Form!Form, FormUi
<1>3. ASSUME Form!Close \/ \E b \in BOOLEAN : Form!AnswerDiscard(b) PROVE FormTyped'
  <2>1. [ui EXCEPT !.discard = TRUE] \in FormUi /\ [ui EXCEPT !.discard = FALSE] \in FormUi
    BY <1>0, Zenon DEF FormUi
  <2> QED
    BY <1>1, <1>2, <1>3, <2>1, Zenon DEF Form!Close, Form!AnswerDiscard, Form!Outlives
<1>10. ASSUME \/ Form!CancelSeries \/ \E scope \in {"this", "future"} : Form!PickScope(scope)
              \/ \E s \in Value \cup {None} : Form!Change(s)
      PROVE  FormTyped'
  <2>1. ui' \in FormUi
    BY <1>0, <1>10, ZenonT(30) DEF Form!CancelSeries, Form!PickScope, Form!Change, FormUi
  <2> QED
    BY <1>1, <1>10, <2>1, Zenon DEF Form!CancelSeries, Form!PickScope, Form!Change
<1>4. ASSUME NEW s \in Value \cup {None}, NEW e \in Single \cup {None}, Form!Open(e, s) PROVE FormTyped'
  BY <1>1, <1>4 DEF Form!Open, Form!Form, FormUi
<1>5. ASSUME Form!Submit \/ Form!Delete \/ Form!DeleteSeries \/ Form!OverrideLeg PROVE FormTyped'
  <2>1. ui' \in FormUi /\ ui.slot \in Value \cup {None}
    BY <1>0, <1>5, Zenon DEF Form!Submit, Form!Delete, Form!DeleteSeries, Form!OverrideLeg, FormUi
  <2> QED
    BY <1>1, <1>5, <2>1 DEF Form!Submit, Form!Delete, Form!DeleteSeries, Form!OverrideLeg, Form!Start,
       Form!Call, FormCall
<1>6. \A s \in Value \cup {None} : \A inst : FormCall(Form!Check(inst, s))
  BY DEF FormCall, Form!Check, Form!Fetch, Form!Call
<1>7. ASSUME Form!Debounced \/ Form!RetryPreview PROVE FormTyped'
  <2>1. PICK b \in BOOLEAN : b = (ui.overlap \/ Form!Checking)
    BY Zenon DEF Form!Checking, Form!Waiting
  <2>2. UNCHANGED server /\ Form!FetchPreview(ui.slot) /\ ui.slot \in Value \cup {None}
    BY <1>0, <1>7 DEF Form!Debounced, Form!RetryPreview, FormUi
  <2>3. \/ ui' = [ui EXCEPT !.due = FALSE, !.overlap = b]
        \/ ui' = [ui EXCEPT !.due = FALSE, !.shown = None, !.failed = FALSE, !.overlap = b]
    BY <2>1, <2>2 DEF Form!FetchPreview
  <2>4. ui' \in FormUi
    BY <1>0, <2>3, Zenon DEF FormUi
  <2>5. calls' \in {calls, calls \cup {Form!Check(ui.inst, ui.slot)}}
    BY <2>2 DEF Form!FetchPreview
  <2> QED
    BY <1>1, <1>6, <2>2, <2>4, <2>5
<1>8. ASSUME NEW c \in calls, Form!Previewed(c) \/ Form!LegSet(c) PROVE FormTyped'
  <2>1. PICK b \in BOOLEAN : b = (ui.overlap \/ Form!Checking \/ ui.slot # c.value)
    BY Zenon DEF Form!Checking, Form!Waiting
  <2>2. ui' \in FormUi /\ c.value \in Value \cup {None}
    BY <1>0, <1>8, <2>1, Zenon DEF Form!Previewed, Form!LegSet, FormCall, FormUi
  <2> QED
    BY <1>1, <1>6, <1>8, <2>2 DEF Form!Previewed, Form!LegSet, Form!Ends, Form!Replace
<1>9. ASSUME NEW c \in calls, Form!Saved(c) \/ Form!SaveFails(c) \/ Form!DeleteFails(c) PROVE FormTyped'
  <2>1. ui' \in FormUi
    BY <1>0, <1>2, <1>9, ZenonT(30) DEF Form!Saved, Form!SaveFails, Form!DeleteFails, FormCall, FormUi
  <2> QED
    BY <1>1, <1>9, <2>1 DEF Form!Saved, Form!SaveFails, Form!DeleteFails, Form!Ends, Form!Outlives
<1> QED
  BY <1>3, <1>4, <1>5, <1>7, <1>8, <1>9, <1>10 DEF Form!Next

-----------------------------------------------------------------------------
(* Types: the wizard and the session                                       *)

LEMMA WizardServes ==
  ASSUME page = "wizard", server = None, Wizard!Next
  PROVE  server' = None
  BY Zenon DEF Wizard!Next, Wizard!Forward, Wizard!Back, Wizard!PickClass, Wizard!OpenQuick, Wizard!CloseQuick,
     Wizard!CreateClass, Wizard!OpenCustom, Wizard!CancelCustom, Wizard!DoneCustom, Wizard!Submit,
     Wizard!SubmitFails, Wizard!Jump, Wizard!PickStaff, Wizard!PickPlace, Wizard!TypeCount, Wizard!PickRepeat,
     Wizard!PickEnd, Wizard!EditDraft, Wizard!ClassCreated, Wizard!ClassFails, Wizard!Edits

LEMMA WizardTypeOK ==
  ASSUME page = "wizard", server = None, Counted, WizardInv PROVE Wizard!TypeOK
  BY DEF Counted, WizardInv, WizardUi, Wizard!TypeOK

LEMMA SessionTypeOK ==
  ASSUME page = "session", Counted, SessionShape PROVE Browser!TypeOK
<1>1. /\ server.tokens \in Seq({"live", "recent", "old"})
      /\ server.version \in Nat /\ server.alarm \in BOOLEAN
  BY DEF SessionShape, Servers, Ages
<1>2. /\ \A t \in Item : ui.of[t] \in DOMAIN ui.jar
      /\ \A j \in DOMAIN ui.jar : ui.jar[j] \in [access : Browser!Cookie, refresh : Browser!Cookie]
      /\ ui.tab \in [Item -> TabState]
  BY DEF SessionShape, Uis, Jar, Pair, Some, Browser!Cookie
<1>3. \A c \in calls : c.inst \in Item \cup {None} /\ c.step \in 1..2
  BY DEF SessionShape, GoodCall, SessionCalls, Some
<1> QED
  BY <1>1, <1>2, <1>3 DEF Counted, TabState, Browser!TypeOK

-----------------------------------------------------------------------------
(* Types: the conversations                                                *)

LEMMA ThreadFetches ==
  ASSUME NEW id, NEW inst, NEW op, op # "send", NEW p \in Item
  PROVE  ThreadCall(Call(id, inst, p, op, "latest", None))
  BY NewCall DEF ThreadCall

LEMMA ThreadsReload ==
  ASSUME NEW S, \A c \in S : ThreadCall(c), NEW p, NEW f, ThreadCall(f), NEW T,
         T = Threads!Refetching(p, S, f)
  PROVE  \A e \in T : ThreadCall(e)
<1>1. \A e \in T : e = f \/ e \in S \/ \E c \in S : e = Late(c) /\ c.op \in {"list", "refresh"}
  BY Zenon DEF Threads!Refetching, Threads!Fetches, Late
<1>2. \A c \in S : ThreadCall(Late(c)) \/ c.op \notin {"list", "refresh"}
  BY Zenon DEF ThreadCall, IsCall, CallFields, Late
<1>3. ASSUME NEW e \in T PROVE ThreadCall(e)
  BY <1>1, <1>2
<1> QED
  BY <1>3

LEMMA ThreadsTypesStart == Threads!Init => ThreadsTyped
<1> SUFFICES ASSUME Threads!Init PROVE ThreadsTyped
  OBVIOUS
<1>1. server \in [Item -> Threads!Messages] /\ ui \in ThreadsUi
  BY DEF Threads!Init, Threads!Messages, ThreadsUi
<1>2. \E p \in Item : calls = {Call(None, None, p, "list", "latest", None)}
  BY DEF Threads!Init, Threads!Ask, Threads!Fetch, Threads!Call, Call
<1> QED
  BY <1>1, <1>2, ThreadFetches DEF ThreadsTyped

LEMMA ThreadsTypes == made \in Nat /\ page = "messages" /\ ThreadsTyped /\ Threads!Next => ThreadsTyped'
<1> SUFFICES ASSUME made \in Nat, page = "messages", ThreadsTyped, Threads!Next PROVE ThreadsTyped'
  OBVIOUS
<1> USE DEF Threads!Call, Threads!Fetch
<1>0. /\ server \in [Item -> Threads!Messages] /\ ui \in ThreadsUi
      /\ \A c \in calls : ThreadCall(c)
  BY DEF ThreadsTyped
<1>2. ASSUME NEW u \in ThreadsUi, Threads!Renders(u) PROVE ui' \in ThreadsUi
  BY <1>2, Zenon DEF ThreadsUi, Threads!Renders
<1>3. ASSUME ui' \in ThreadsUi, UNCHANGED server, \A c \in calls' : c \in calls \/ ThreadCall(c)
      PROVE  ThreadsTyped'
  BY <1>0, <1>3 DEF ThreadsTyped
<1>4. ASSUME Threads!Retry \/ Threads!Write PROVE ThreadsTyped'
  <2>1. ui' \in ThreadsUi /\ ui.active \in Item /\ UNCHANGED server
    BY <1>0, <1>4 DEF Threads!Retry, Threads!Write, ThreadsUi
  <2>2. PICK f : f = Call(None, None, ui.active, "list", "latest", None)
    OBVIOUS
  <2>3. ThreadCall(f)
    BY <2>1, <2>2, ThreadFetches
  <2>4. UNCHANGED calls \/ calls' = Threads!Refetching(ui.active, calls, f)
    BY <1>4, <2>2 DEF Threads!Retry, Threads!Write, Threads!Ask, Call
  <2>5. calls' # calls => \A e \in calls' : ThreadCall(e)
    BY ONLY <1>0, <2>3, <2>4, ThreadsReload
  <2> QED
    BY <1>3, <1>0, <2>1, <2>5
<1>5. ASSUME NEW p \in Item, Threads!Choose(p) PROVE ThreadsTyped'
  <2>1. [ui EXCEPT !.active = p] \in ThreadsUi
    BY <1>0 DEF ThreadsUi
  <2>2. calls' \subseteq calls \cup {Call(None, None, p, "list", "latest", None)}
    BY <1>5 DEF Threads!Choose, Threads!Ask, Call
  <2> QED
    BY <1>2, <1>3, <1>5, <2>1, <2>2, ThreadFetches DEF Threads!Choose
<1>6. ASSUME Threads!Send PROVE ThreadsTyped'
  <2> USE <1>6
  <2>1. ui' \in ThreadsUi /\ ui.active \in Item
    BY <1>0, Zenon DEF Threads!Send, ThreadsUi
  <2>2. MaxCalls["messages"] \in Nat
    BY BoundsAreNumbers, Zenon DEF Pages
  <2>3. made \in 0..(MaxCalls["messages"] - 1)
    BY <2>2 DEF Threads!Send, Threads!Start, Threads!Counts
  <2>4. PICK c : c = Call(made, ui.inst, ui.active, "send", ui.draft, None)
    OBVIOUS
  <2>5. ThreadCall(c)
    BY <2>1, <2>3, <2>4, NewCall DEF ThreadCall, Threads!Fetches
  <2> QED
    BY <1>3, <2>1, <2>4, <2>5 DEF Threads!Send, Threads!Start, Call
<1>7. ASSUME NEW c \in calls, Threads!Sent(c) PROVE ThreadsTyped'
  <2>1. ui' \in ThreadsUi /\ ui.active \in Item
    BY <1>0, <1>7, Zenon DEF Threads!Sent, ThreadsUi, ThreadCall
  <2>2. PICK f : f = Call(c.id, c.inst, ui.active, "refresh", "latest", None)
    OBVIOUS
  <2>3. ThreadCall(f)
    BY <2>1, <2>2, ThreadFetches
  <2>4. UNCHANGED server /\ calls' = Threads!Refetching(ui.active, calls \ {c}, f)
    BY <1>7, <2>2 DEF Threads!Sent, Call
  <2>5. \A e \in calls \ {c} : ThreadCall(e)
    BY <1>0
  <2>6. \A e \in calls' : ThreadCall(e)
    BY ONLY <2>3, <2>4, <2>5, ThreadsReload
  <2> QED
    BY <1>3, <2>1, <2>4, <2>6
<1>8. ASSUME NEW c \in calls, Threads!SendFails(c) PROVE ThreadsTyped'
  BY <1>0, <1>3, <1>8, Zenon DEF Threads!SendFails, Threads!Ends, ThreadsUi
<1>9. ASSUME NEW c \in calls, Threads!Arrives(c) \/ Threads!FetchFails(c) PROVE ThreadsTyped'
  <2>1. PICK u \in ThreadsUi : Threads!Renders(Threads!Over(c, u))
    <3>1. CASE Threads!Arrives(c) /\ Threads!Latest(c)
      <4>1. PICK f \in [Item -> BOOLEAN], m \in [Item -> Threads!Messages \cup {None}] :
              f = [ui.failed EXCEPT ![c.item] = FALSE] /\ m = [ui.cache EXCEPT ![c.item] = c.answer]
        BY <1>0, <3>1, Zenon DEF ThreadCall, ThreadsUi, Threads!Arrives, Threads!Latest
      <4> QED
        BY <1>0, <3>1, <4>1, Zenon DEF ThreadsUi, Threads!Arrives
    <3>2. CASE Threads!FetchFails(c) /\ Threads!Latest(c)
      <4>1. PICK f \in [Item -> BOOLEAN] : f = [ui.failed EXCEPT ![c.item] = TRUE]
        BY <1>0, Zenon DEF ThreadCall, ThreadsUi
      <4> QED
        BY <1>0, <3>2, <4>1, Zenon DEF ThreadsUi, Threads!FetchFails
    <3> QED
      BY <1>0, <1>9, <3>1, <3>2 DEF Threads!Arrives, Threads!FetchFails
  <2>2. Threads!Over(c, u) \in ThreadsUi
    BY Zenon DEF Threads!Over, ThreadsUi
  <2> QED
    BY <1>2, <1>3, <1>9, <2>1, <2>2 DEF Threads!Arrives, Threads!FetchFails, Threads!Ends
<1>10. ASSUME NEW c \in calls, Threads!Serve(c) PROVE ThreadsTyped'
  <2> USE <1>10
  <2>1. server' \in [Item -> Threads!Messages]
    BY <1>0 DEF Threads!Serve, ThreadCall, Threads!Messages
  <2>2. PICK y : /\ calls' = (calls \ {c}) \cup {Answering(c, "ok", y)}
                 /\ c.op \in Threads!Fetches /\ c.value = "latest" => y \in Threads!Messages
    BY <1>0, Zenon DEF Threads!Serve, Threads!Answered, Threads!Replace, Threads!Latest, Threads!Fetches,
       ThreadCall, Answering
  <2>3. ThreadCall(Answering(c, "ok", y))
    BY <1>0, <2>2, Zenon DEF ThreadCall, IsCall, CallFields, Answering
  <2> QED
    BY <1>0, <2>1, <2>2, <2>3 DEF ThreadsTyped, Threads!Serve
<1>11. ASSUME NEW c \in calls, Threads!Refuse(c) PROVE ThreadsTyped'
  <2>1. ThreadCall(Answering(c, "no", None))
    BY <1>0, Zenon DEF ThreadCall, IsCall, CallFields, Answering
  <2> QED
    BY <1>0, <1>11, <2>1 DEF ThreadsTyped, Threads!Refuse, Threads!Fault, Threads!Refused, Threads!Replace,
       Answering
<1> QED
  BY <1>4, <1>5, <1>6, <1>7, <1>8, <1>9, <1>10, <1>11 DEF Threads!Next, Threads!User

=============================================================================
