-------------------------- MODULE MCBookingService --------------------------
(***************************************************************************)
(* Small instances of BookingService for TLC: one room with one booking,   *)
(* and the calls that can meet each other.                                 *)
(***************************************************************************)
EXTENDS BookingService, TLC

CONSTANTS r1, r2, r3, hall, annex

Student == [user |-> 1, role |-> "student_b"]
Fellow  == [user |-> 2, role |-> "student_b"]
Teacher == [user |-> 3, role |-> "teacher"]
Admin   == [user |-> 4, role |-> "admin"]
Nobody  == [user |-> 5, role |-> "unknown"]

MCUserId == 1..5
MCRoomId == {hall, annex}
MCInitialRooms == {hall}
MCInitialBookings ==
  {[id |-> 1, room |-> hall, user |-> 1, role |-> "student_b", start |-> 0, end |-> 2]}

Book(caller, room, start, end) ==
  [op |-> "create", caller |-> caller, room |-> room, start |-> start, end |-> end]
Drop(caller, id) == [op |-> "cancel", caller |-> caller, id |-> id]

\* [1,3) overlaps the first booking, [2,4) begins where it ends, [3,5) begins
\* inside [2,4); annex does not exist, [4,4) is empty; 2 is the next id.
MCCall ==
  {Book(Student, hall, 1, 3), Book(Teacher, hall, 2, 4), Book(Fellow, hall, 3, 5),
   Book(Teacher, annex, 2, 4), Book(Admin, hall, 4, 4), Book(Nobody, hall, 2, 4),
   Drop(Student, 1), Drop(Fellow, 1), Drop(Teacher, 1), Drop(Nobody, 1),
   Drop(Fellow, 2), Drop(Admin, 2)}

\* All calls that pass their own check: every one of them reaches its insert.
MCSameSlotCall == {Book(Student, hall, 2, 4), Book(Teacher, hall, 2, 4)}

RequestSymmetry == Permutations(Request)

=============================================================================
