--------------------------- MODULE MCProjectPhase ---------------------------
(* Small instances of ProjectPhase: two tasks, three phases.               *)
EXTENDS ProjectPhase, TLC

CONSTANTS t1, t2

MCTask == {t1, t2}

Toggles == {[op |-> o, task |-> t] : o \in {"toggle", "portal_toggle"}, t \in MCTask}
Advances == {[op |-> "advance", force |-> f] : f \in BOOLEAN}
Statuses == {[op |-> "status", target |-> p] : p \in {1, 2}}
Puts == {[op |-> o, task |-> t, done |-> d, phase |-> Keep] :
           o \in {"put", "portal_put"}, t \in MCTask, d \in BOOLEAN}
Moves == {[op |-> "put", task |-> t, done |-> Keep, phase |-> 1] : t \in MCTask}

WithoutPuts == Toggles \cup Advances \cup Statuses
AllCommands == WithoutPuts \cup Puts \cup Moves

TaskSymmetry == Permutations(MCTask)
PhaseSymmetry == Permutations(Request) \cup TaskSymmetry
=============================================================================
