---------------------------- MODULE MCSchedules ----------------------------
(* Small instances of Schedules: two schedules, and staff lists that share *)
(* an employee so that the claims of two relocates collide.                *)
EXTENDS Schedules, TLC

CONSTANTS a, b, x, y, s1, s2

MCSchedule == {s1, s2}
MCEmployee == {a, b}
MCSlot == {x, y}
\* Two slots that do not touch but are closer than the drive time.
MCOverlap == {<<x, x>>, <<y, y>>}
MCPadded == MCSlot \X MCSlot
MCStaff == {<<a>>, <<b, a>>}

RelocateTo(s, t, f) == [op |-> "relocate", sid |-> s, slot |-> t, force |-> f]
UpdateOf(s, t, st, p) ==
  [op |-> "update", sid |-> s, slot |-> t, staff |-> st, pinned |-> p]

Relocations == {RelocateTo(s, x, f) : s \in MCSchedule, f \in BOOLEAN}
PinnedUpdates == {UpdateOf(s1, Keep, <<b, a>>, TRUE), UpdateOf(s1, y, Keep, TRUE)}
PlainUpdates == {UpdateOf(s1, Keep, <<b, a>>, FALSE)}

PinnedCommands == Relocations \cup PinnedUpdates
AllCommands == PinnedCommands \cup PlainUpdates

\* The instance of Schedules_reused_version.cfg: an employee each, one update.
SoloStaff == {<<a>>, <<b>>}
SoloCommands == {RelocateTo(s1, x, TRUE), RelocateTo(s2, x, TRUE),
                 UpdateOf(s1, Keep, <<b>>, FALSE)}

RequestSymmetry == Permutations(Request)
=============================================================================
