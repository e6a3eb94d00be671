--------------------------- MODULE BookingDomain ---------------------------
(***************************************************************************)
(* Roles and time ranges of the booking domain                             *)
(* (internal/core/booking/domain), and the rows that are lessons.  Pure    *)
(* operators, no state.                                                    *)
(***************************************************************************)
EXTENDS Integers

\* The closed set of roles a token or a row may carry, and any other string.
KnownRole == {"student_b", "student_m", "student_a", "teacher", "admin"}
AnyRole   == KnownRole \cup {"unknown"}

\* Strict order of authority; a role outside the closed set ranks 0.
Rank(role) ==
  CASE role = "student_b" -> 1
    [] role = "student_m" -> 2
    [] role = "student_a" -> 3
    [] role = "teacher"   -> 4
    [] role = "admin"     -> 5
    [] OTHER              -> 0

IsKnown(role) == Rank(role) > 0

\* May `role` cancel a booking made by somebody else under the role `other`?
CanCancelOther(role, other) ==
  /\ IsKnown(role)
  /\ IsKnown(other)
  /\ role = "admin" \/ Rank(role) > Rank(other)

ValidTimeRange(start, end) == start < end

\* Half-open ranges [start, end): a booking may begin when another one ends.
Overlaps(a, b) == a.start < b.end /\ b.start < a.end

\* When and where a booking, or a lesson of the timetable, takes place.
SlotOf(b) == [room |-> b.room, start |-> b.start, end |-> b.end]

\* Rows written by the schedule import belong to user 0: the timetable's lessons.
ParserUser == 0

IsParsed(b) == b.user = ParserUser /\ b.role = "admin"

=============================================================================
