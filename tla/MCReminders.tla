---------------------------- MODULE MCReminders ----------------------------
(* Small instances of Reminders: days of two hours, weeks of two days.     *)
EXTENDS Reminders, TLC

Pref(in_app, email, at) == [in_app |-> in_app, email |-> email, at |-> at, day |-> 0]

MCPrefs == {Pref("instant", "daily", 0), Pref("instant", "weekly", 1),
            Pref("off", "instant", 0)}

MCDates == {[at |-> 0, aware |-> TRUE], [at |-> 1, aware |-> FALSE],
            [at |-> 3, aware |-> TRUE]}

TaskSymmetry == Permutations(Task) \cup Permutations(Contact)
=============================================================================
