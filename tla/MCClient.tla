------------------------------ MODULE MCClient ------------------------------
EXTENDS Client, TLC

Symmetric == Permutations(Item) \cup Permutations(Value) \cup Permutations(Status)

Bounds == [p \in Pages |->
  CASE p \in {"webhooks", "import", "checklist"} -> 3
    [] p \in {"wizard", "day"} -> 1
    [] p \in Figures -> 4
    [] p \in {"projects"} -> 3
    [] p \in TaskPages -> 3
    [] OTHER -> 2]

Hubs == [north |-> 20, south |-> 30]

Booked(start, end, employees, place, to, from) ==
  [start |-> start, end |-> end, employees |-> employees, place |-> place, to |-> to, from |-> from]

Classes ==
  {Booked(0, 2, {"a"}, "north", 0, 0), Booked(1, 2, {"a"}, "south", 0, 0),
   Booked(2, 4, {"a"}, "south", 5, 0), Booked(3, 4, {"a"}, "north", 0, 7),
   Booked(1, 4, {"b"}, "north", 0, 0), Booked(0, 4, {"b"}, "south", 0, 0),
   Booked(2, 3, {"a", "b"}, "south", 0, 0), Booked(0, 1, {}, "north", 0, 0)}
=============================================================================
