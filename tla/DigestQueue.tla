------------------------------ MODULE DigestQueue ------------------------------
(***************************************************************************)
(* What db.notification_queue promises to whoever queues a notice for a    *)
(* digest, whatever the worker, its jobs and the mail server do: a row is  *)
(* kept until it has been in a digest or its reader is gone, and once it   *)
(* has been removed no later digest contains it.  Until then it may be     *)
(* sent again: at least once, not exactly once.                            *)
(*                                                                         *)
(* Rows are numbered as they are put.  Reminders implements this module.   *)
(***************************************************************************)
EXTENDS Naturals

VARIABLES
  put,        \* how many rows were put
  waiting,    \* the rows that are kept
  out,        \* the rows that were in a digest
  givenUp     \* the rows whose reader is gone

vars == <<put, waiting, out, givenUp>>

Init == put = 0 /\ waiting = {} /\ out = {} /\ givenUp = {}

Put ==
  /\ put' = put + 1
  /\ waiting' = waiting \cup {put + 1}
  /\ UNCHANGED <<out, givenUp>>

\* One digest, of rows that are kept.
Deliver(rs) ==
  /\ out' = out \cup rs
  /\ UNCHANGED <<put, waiting, givenUp>>

GiveUp(rs) ==
  /\ givenUp' = givenUp \cup rs
  /\ UNCHANGED <<put, waiting, out>>

Forget(rs) ==
  /\ rs \subseteq out \cup givenUp
  /\ waiting' = waiting \ rs
  /\ UNCHANGED <<put, out, givenUp>>

Next == Put \/ \E rs \in SUBSET waiting : Deliver(rs) \/ GiveUp(rs) \/ Forget(rs)

Spec == Init /\ [][Next]_vars
=============================================================================
