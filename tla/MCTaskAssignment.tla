-------------------------- MODULE MCTaskAssignment --------------------------
(* Small instances of TaskAssignment: people and requests are symmetric.   *)
EXTENDS TaskAssignment, TLC

TaskSymmetry == Permutations(Person) \cup Permutations(Request)
=============================================================================
