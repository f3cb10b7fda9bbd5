----------------------------- MODULE DayLayout -----------------------------
(***************************************************************************)
(* One day of the calendar.  The schedules of the day are drawn side by    *)
(* side where they overlap, with the drives of each employee before and    *)
(* after them, and a schedule is dragged to another time of the day.       *)
(***************************************************************************)
EXTENDS Requests, SequencesExt

CONSTANTS
  Class,   \* what a schedule may be: [start, end, employees, place, to, from]
  Length,  \* bound of a run: the schedules of the day
  DayEnd,  \* the last time of a day that the backend takes
  Hub,     \* Hub[place]: the minutes from the hub to a place
  Town     \* the minutes between two places

\* A schedule as the page draws it ends after it began; where it was dragged to
\* may be past the end of the day.
Drawn ==
  {s \in [start : Nat, end : Nat, employees : SUBSET STRING,
          place : DOMAIN Hub, to : Nat, from : Nat] : s.start < s.end}

\* As the backend keeps it.
Booking == {s \in Drawn : s.end <= DayEnd}

Lists == UNION {[1..n -> Class] : n \in 0..Length}

\* The page shows the list that it fetched last.
Init ==
  /\ page = "day"
  /\ server \in Lists
  /\ ui = [items |-> server, dragged |-> None]
  /\ calls = {}
  /\ made = 0
  /\ faults = 0
  /\ clean = TRUE

Day == DOMAIN ui.items

-----------------------------------------------------------------------------
(* Columns                                                                 *)

Begins(i) == ui.items[i].start
Finishes(i) == ui.items[i].end
Overlap(i, j) == Begins(i) < Finishes(j) /\ Begins(j) < Finishes(i)

\* What ascends in the order, from the first of the set to the last.
Ordered(set, order) ==
  CHOOSE seq \in [1..Cardinality(set) -> set] :
    \A m, n \in DOMAIN seq : m < n => <<seq[m], seq[n]>> \in order

\* Mutant: in the order of the list.
Unsorted == [i \in Day |-> i]

\* Earlier schedules first, and longer ones first of those; a sort leaves the
\* others as they were.
Packs(i, j) ==
  \/ Begins(i) < Begins(j)
  \/ Begins(i) = Begins(j) /\ Finishes(i) > Finishes(j)
  \/ Begins(i) = Begins(j) /\ Finishes(i) = Finishes(j) /\ i < j

Sorted == Ordered(Day, {p \in Day \X Day : Packs(p[1], p[2])})

\* The columns whose last schedule is over when i begins.
Fits(columns, i) == {k \in DOMAIN columns : Finishes(Last(columns[k])) <= Begins(i)}

Assign(columns, i) ==
  IF Fits(columns, i) = {}
    THEN Append(columns, <<i>>)
    ELSE [columns EXCEPT ![Min(Fits(columns, i))] = Append(@, i)]

Columns == FoldLeft(Assign, <<>>, Sorted)

\* The columns that the width of i is a share of.
TotalColumns(columns, i) ==
  {k \in DOMAIN columns : \E j \in Range(columns[k]) : Overlap(i, j)}

-----------------------------------------------------------------------------
(* Drives                                                                  *)

Unassigned == "unassigned"
Groups(i) == IF ui.items[i].employees = {} THEN {Unassigned} ELSE ui.items[i].employees
Mine(e) == {i \in Day : e \in Groups(i)}

Follows(i, j) == Begins(i) < Begins(j) \/ (Begins(i) = Begins(j) /\ i < j)

Chained(e) == Ordered(Mine(e), {p \in Mine(e) \X Mine(e) : Follows(p[1], p[2])})

Or(minutes, other) == IF minutes = 0 THEN other ELSE minutes

ToNext(s, next) ==
  IF s.place = next.place THEN 0 ELSE Or(s.from, Or(next.to, Town))

\* What is drawn before and after the n-th schedule of an employee's day.
Entry(chain, n) ==
  LET s == ui.items[chain[n]]
  IN [before |-> IF n = 1 THEN Or(s.to, Hub[s.place]) ELSE 0,
      after |-> IF n = Len(chain) THEN Or(s.from, Hub[s.place])
                                  ELSE ToNext(s, ui.items[chain[n + 1]])]

\* Of a schedule with several employees the entry of any of them may be kept.
Drives(i) ==
  {Entry(Chained(e), CHOOSE n \in DOMAIN Chained(e) : Chained(e)[n] = i) : e \in Groups(i)}

\* What is drawn of a schedule: a drive that takes no time is not.
Blocks(entry) == {"class"} \cup {b \in DOMAIN entry : entry[b] > 0}

-----------------------------------------------------------------------------
(* Dragging                                                                *)

DragStart(i) ==
  /\ ui.dragged = None
  /\ ui' = [ui EXCEPT !.dragged = i]
  /\ UNCHANGED <<page, server, calls, made, faults, clean>>

DragCancel ==
  /\ ui.dragged # None
  /\ ui' = [ui EXCEPT !.dragged = None]
  /\ UNCHANGED <<page, server, calls, made, faults, clean>>

\* A change of the list, or another fetch: SWR drops what is under way of it.
Moves == {c \in calls : c.op = "relocate"}

\* The schedule keeps its duration, wherever it is dropped, and is drawn there
\* before the backend has answered.
DragEnd(start) ==
  /\ ui.dragged # None
  /\ LET s == ui.items[ui.dragged]
         slot == [start |-> start, end |-> start + (s.end - s.start)]
     IN IF start = s.start
          THEN /\ ui' = [ui EXCEPT !.dragged = None]
               /\ UNCHANGED <<calls, made>>
          ELSE /\ ui' = [items |-> [ui.items EXCEPT ![ui.dragged].start = slot.start,
                                                   ![ui.dragged].end = slot.end],
                         dragged |-> None]
               /\ Counts
               /\ calls' = Moves \cup {Call(made, 0, ui.dragged, "relocate", slot, None)}
  /\ UNCHANGED <<page, server, faults, clean>>

\* After either answer the list is fetched again.
Relocated(c) ==
  /\ c.op = "relocate" /\ c.at # "out"
  /\ calls' = (Moves \ {c}) \cup {Fetch(None)}
  /\ UNCHANGED <<page, server, ui, made, faults, clean>>

ListArrives(c) ==
  /\ c.op = "list" /\ c.at = "ok"
  /\ ui' = [ui EXCEPT !.items = c.answer]
  /\ Ends(c)
  /\ UNCHANGED <<page, server, made, faults, clean>>

Serve(c) ==
  /\ c.at = "out"
  /\ \/ /\ c.op = "relocate" /\ c.value.end <= DayEnd
        /\ server' = [server EXCEPT ![c.item].start = c.value.start, ![c.item].end = c.value.end]
        /\ Answered(c, None)
     \/ /\ c.op = "list"
        /\ Answered(c, server)
        /\ UNCHANGED server
  /\ UNCHANGED <<page, ui, made, faults, clean>>

\* A move past the end of the day is refused, as any move may be.  A fetch that
\* fails is repeated (ScheduleBoard): it is answered later.
Refuse(c) ==
  /\ c.at = "out" /\ c.op = "relocate"
  /\ \/ c.value.end > DayEnd /\ Refused(c, None) /\ UNCHANGED faults
     \/ Fault(c)
  /\ UNCHANGED <<page, server, ui, made, clean>>

Next ==
  \/ DragCancel
  \/ \E i \in Day : DragStart(i)
  \/ \E start \in 0..(2 * DayEnd) : DragEnd(start)
  \/ \E c \in calls : Relocated(c) \/ ListArrives(c) \/ Serve(c) \/ Refuse(c)

Spec == Init /\ [][Next]_vars

-----------------------------------------------------------------------------
(* Properties                                                              *)

Slots == {s \in [start : Nat, end : Nat] : s.start < s.end}

\* A list of n schedules is under way, or a move of one of them.
Asks(c, n) ==
  \/ c.op = "list" /\ (c.at = "ok" => c.answer \in [1..n -> Booking])
  \/ c.op = "relocate" /\ c.item \in 1..n /\ c.value \in Slots

\* Every variable keeps its type.
TypeOK ==
  /\ page = "day"
  /\ \E n \in 0..Length :
       /\ server \in [1..n -> Booking]
       /\ ui.items \in [1..n -> Drawn]
       /\ ui.dragged \in 1..n \cup {None}
       /\ \A c \in calls : Asks(c, n)
  /\ made \in 0..MaxCalls[page] /\ faults \in 0..MaxFaults
  /\ clean \in BOOLEAN

\* Once everything is answered the day is drawn as the backend has it: a move
\* that was refused, past the end of the day or for any other reason, is gone
\* from where the page had drawn it.
DaySettles == calls = {} => ui.items = server

\* "The minimum number of columns such that no column contains two overlapping
\* intervals": as many columns as there are schedules at the busiest time, each
\* schedule is in one of them, and it is given a share of the width that its
\* column exists in.
DayIsPacked ==
  LET columns == Columns
      busy(t) == {i \in Day : Begins(i) <= t /\ t < Finishes(i)}
  IN /\ \A i \in Day : \E k \in DOMAIN columns :
          /\ i \in Range(columns[k])
          /\ k <= Cardinality(TotalColumns(columns, i))
          /\ \A l \in DOMAIN columns \ {k} : i \notin Range(columns[l])
     /\ \A k \in DOMAIN columns : \A i, j \in Range(columns[k]) : i # j => ~Overlap(i, j)
     /\ \A k \in DOMAIN columns : \E i \in Day : Cardinality(busy(Begins(i))) >= Len(columns)

\* An employee who has no schedule together with another one is drawn driving
\* from the hub once and back to it once, and in between from place to place:
\* where every drive takes time, one is drawn for each change of place and no
\* other.
DrivesLinkTheDay ==
  \A e \in UNION {Groups(i) : i \in Day} :
    LET mine == Mine(e)
        first(i) == \A j \in mine : Begins(i) <= Begins(j)
        drawn(i) == Blocks(CHOOSE d \in Drives(i) : TRUE)
        distinct == \A i, j \in mine : i # j => Begins(i) # Begins(j)
        away == Town > 0 /\ \A i \in mine : Hub[ui.items[i].place] > 0
    IN (\A i \in mine : Groups(i) = {e}) /\ distinct /\ away =>
         /\ \A i \in mine : "before" \in drawn(i) <=> first(i)
         /\ \A i \in mine : "after" \notin drawn(i) <=>
              \E j \in mine : /\ Begins(i) < Begins(j)
                              /\ ui.items[i].place = ui.items[j].place
                              /\ \A k \in mine : ~(Begins(i) < Begins(k) /\ Begins(k) < Begins(j))
=============================================================================
