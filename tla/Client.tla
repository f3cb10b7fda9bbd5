------------------------------- MODULE Client -------------------------------
(***************************************************************************)
(* The web client: one of its pages is rendered.  A page module says what  *)
(* its handlers do; here are the pages together, over the same instances   *)
(* of the constants, and what holds of all of them.                        *)
(***************************************************************************)
EXTENDS Requests, FiniteSets

CONSTANTS
  Item,      \* the tasks, schedules, records, accounts, files, rows ...
  Value,     \* what a field of an item may hold
  Status,
  Single,    \* where one is enough: who is mentioned, the schedule that is edited
  Last,      \* the last column of a project board
  Class, Length, DayEnd, Hub, Town   \* of DayLayout

\* None is none of the things it stands for the absence of, and what is
\* rendered is finite.
ASSUME NoneIsNothing ==
  /\ None \notin Nat
  /\ None \notin Item \cup Value \cup Status \cup Single
ASSUME ItemsAreFinite == IsFiniteSet(Item)
ASSUME ColumnsAreNumbered == Last \in Nat

TaskPage == INSTANCE TaskModal WITH Task <- Item, Text <- Value, Member <- Single
Board == INSTANCE ScheduleBoard WITH Sched <- Item, Slot <- Value
Projects == INSTANCE ProjectBoards
Lookups == INSTANCE Records
Accounts == INSTANCE Users
Hooks == INSTANCE Webhooks
Numbers == INSTANCE Reports WITH Filter <- Item
Form == INSTANCE ScheduleForm WITH Item <- Single
Wizard == INSTANCE ScheduleWizard
Browser == INSTANCE Session WITH Tab <- Item
Csv == INSTANCE Import
Bell == INSTANCE Inbox
Personal == INSTANCE Settings
Calendar == INSTANCE DayLayout
Funnels == INSTANCE Outcomes
Promotion == INSTANCE Checklist
Threads == INSTANCE Conversations

ASSUME NoneIsNoStatus == None \notin Funnels!Statuses
ASSUME NoneIsNoRow == None \notin Bell!Kept
ASSUME DayIsTyped ==
  /\ Length \in Nat /\ DayEnd \in Nat /\ Town \in Nat /\ Hub \in [DOMAIN Hub -> Nat]
  /\ Class \subseteq Calendar!Booking
ASSUME NoneIsNoTask == None \notin TaskPage!Doc
ASSUME NoneIsNoChecklist == None \notin Promotion!Doc \cup Promotion!List

TaskPages == {"task", "portal task"}
Boards == {"projects", "project", "portal board"}
Managers == {"employees", "classes", "locations"}
Figures == {"profile", "weekly", "analytics"}
Bells == {"inbox", "portal inbox"}

\* A page of numbers asks for them when it is mounted.
ASSUME NumbersAreAsked == \A p \in Figures : MaxCalls[p] # 0

Init ==
  \/ TaskPage!Init \/ Board!Init \/ Projects!Init \/ Lookups!Init
  \/ Accounts!Init \/ Hooks!Init \/ Numbers!Init \/ Form!Init \/ Wizard!Init
  \/ Browser!Init \/ Csv!Init \/ Bell!Init \/ Personal!Init \/ Calendar!Init
  \/ Funnels!Init \/ Promotion!Init \/ Threads!Init

\* A page stays rendered.
Next ==
  /\ UNCHANGED page
  /\ \/ page \in TaskPages /\ TaskPage!Next
     \/ page = "board" /\ Board!Next
     \/ page \in Boards /\ Projects!Next
     \/ page \in Managers /\ Lookups!Next
     \/ page = "users" /\ Accounts!Next
     \/ page = "webhooks" /\ Hooks!Next
     \/ page \in Figures /\ Numbers!Next
     \/ page = "form" /\ Form!Next
     \/ page = "wizard" /\ Wizard!Next
     \/ page = "session" /\ Browser!Next
     \/ page = "import" /\ Csv!Next
     \/ page \in Bells /\ Bell!Next
     \/ page = "settings" /\ Personal!Next
     \/ page = "day" /\ Calendar!Next
     \/ page = "outcomes" /\ Funnels!Next
     \/ page = "checklist" /\ Promotion!Next
     \/ page = "messages" /\ Threads!Next

Spec == Init /\ [][Next]_vars

-----------------------------------------------------------------------------
(* Properties                                                              *)

\* Every variable keeps the type that the page gives it.
TypeOK ==
  /\ page \in Pages
  /\ page \in TaskPages => TaskPage!TypeOK
  /\ page = "board" => Board!TypeOK
  /\ page \in Boards => Projects!TypeOK
  /\ page \in Managers => Lookups!TypeOK
  /\ page = "users" => Accounts!TypeOK
  /\ page = "webhooks" => Hooks!TypeOK
  /\ page \in Figures => Numbers!TypeOK
  /\ page = "form" => Form!TypeOK
  /\ page = "wizard" => Wizard!TypeOK
  /\ page = "session" => Browser!TypeOK
  /\ page = "import" => Csv!TypeOK
  /\ page \in Bells => Bell!TypeOK
  /\ page = "settings" => Personal!TypeOK
  /\ page = "day" => Calendar!TypeOK
  /\ page = "outcomes" => Funnels!TypeOK
  /\ page = "checklist" => Promotion!TypeOK
  /\ page = "messages" => Threads!TypeOK

\* What is shown belongs to what it is shown for, whichever answers come late:
\* a task's details to the task, sessions to the account that is named, a new
\* secret to its subscription, numbers to the filter, a preview to the form or
\* to the file, a drive time to the place, a warning to the attendee's status,
\* a text to its conversation.  Each page's clean says where the code does not
\* see to that.
ShowsOwn ==
  /\ page \in TaskPages => TaskPage!ShowsOwnTask
  /\ page = "users" => Accounts!ShowsOwnSessions
  /\ page = "webhooks" => Hooks!RevealsCurrentSecret
  /\ page \in Figures => Numbers!ReportFitsFilter
  /\ page = "form" => Form!PreviewFitsForm
  /\ page = "import" => Csv!PreviewFitsFile
  /\ page \in Managers => Lookups!DriveFitsPlace
  /\ page = "outcomes" => Funnels!ForcedBackAsShown
  /\ page = "messages" => Threads!WritesWhereShown

\* When everything is answered, a page shows what the server holds, or says
\* that it may not: after fetches that failed, changes that were refused and
\* rolled back, and answers that were overtaken.
PagesSettle ==
  /\ page = "board" => Board!ListCatchesUp
  /\ page \in Boards => Projects!BoardCatchesUp
  /\ page \in Managers => Lookups!RecordsCatchUp
  /\ page = "users" => Accounts!ListsSettle
  /\ page = "webhooks" => Hooks!SubscriptionsSettle
  /\ page \in Bells => Bell!InboxReconciles
  /\ page = "settings" => Personal!SettingsSettle
  /\ page = "day" => Calendar!DaySettles
  /\ page = "outcomes" => Funnels!OutcomesSettle
  /\ page = "checklist" => Promotion!ChecklistSettles
  /\ page = "messages" => Threads!ThreadSettles

\* Status and flag of a task, which are changed optimistically and rolled back
\* when they are refused, are the server's when everything is answered; a box of
\* a checklist, which a request only turns over, becomes what its label said.
StatusSettles ==
  /\ page \in TaskPages => TaskPage!StatusSettles
  /\ page = "checklist" => Promotion!TurnsAsLabelled

\* Nothing is disabled, and no spinner turns, without an answer that is still
\* to come: also when requests fail and dialogs are closed and reopened.
NoStuckControl ==
  /\ page \in TaskPages => TaskPage!NoStuckSpinner
  /\ page = "board" => Board!NoStuckBar
  /\ page \in Boards => Projects!NoStuckTask
  /\ page \in Managers => Lookups!NoStuckForm
  /\ page = "users" => Accounts!NoStuckButton
  /\ page = "webhooks" => Hooks!NoStuckWebhook
  /\ page \in Figures => Numbers!NoStuckReport
  /\ page = "form" => Form!NoStuckForm
  /\ page = "wizard" => Wizard!NoStuckQuick
  /\ page = "session" => Browser!NoStuckCall
  /\ page = "import" => Csv!ImportsOnce
  /\ page \in Bells => Bell!NoStuckBell
  /\ page = "settings" => Personal!NoStuckSetting
  /\ page = "outcomes" => Funnels!AddsOnce
  /\ page = "messages" => Threads!NoStuckThread

\* What the server is told to do in spite of its objection is what the user
\* was asked about: a move onto a conflict, a schedule against an outside
\* calendar, a project past its gate.
ForcedWasAsked ==
  /\ page = "board" => Board!ForcedWasAsked
  /\ page = "form" => Form!ForcedWasAsked
  /\ page \in Boards => Projects!ForcedOnce

\* The form sends rules of recurrence that the backend can expand.
SendsWholeRule == page = "wizard" => Wizard!SendsWholeRule

\* The tabs of a browser do not make the backend believe that a refresh token
\* was stolen.
NoFalseAlarm == page = "session" => Browser!NoFalseAlarm

\* A browser in which nobody is signed in can do nothing in anybody's name.
SignedOutIsOut == page = "session" => Browser!SignedOutIsOut

\* The schedules of a day are packed side by side into as few columns as they
\* fit in, and each employee's drives link the places of the day.
DayIsLaidOut ==
  page = "day" => Calendar!DayIsPacked /\ Calendar!DrivesLinkTheDay
=============================================================================
