--------------------------- MODULE MCCalendarSync ---------------------------
(***************************************************************************)
(* The instances of CalendarSync that TLC checks.                          *)
(***************************************************************************)
EXTENDS CalendarSync, TLC

\* No invariant but TypeOK says anything of the states that follow an
\* overlap or a lost event, so TLC does not go beyond them.
Telling == calm /\ ~leaked

Same == Permutations(Request) \cup Permutations(Slot)
=============================================================================
