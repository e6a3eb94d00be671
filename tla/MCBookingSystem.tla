--------------------------- MODULE MCBookingSystem ---------------------------
(***************************************************************************)
(* Small instances of BookingSystem for TLC: one import of a timetable of  *)
(* four lessons, with requests that meet it from both sides.               *)
(***************************************************************************)
EXTENDS BookingSystem, TLC

CONSTANTS r1, r2, i1, i2, hall, cellar, aula

Student == [user |-> 1, role |-> "student_b"]
Teacher == [user |-> 3, role |-> "teacher"]
Admin   == [user |-> 4, role |-> "admin"]

\* cellar is a room of the demo data, aula is new in the timetable.
MCRoomId == {hall, cellar, aula}
MCImportedRoom == {hall, aula}

Row(id, user, role, start, end) ==
  [id |-> id, room |-> hall, user |-> user, role |-> role, start |-> start, end |-> end]

MCInitialBookings == {Row(1, 1, "student_b", 0, 2), Row(2, 0, "admin", 4, 6)}

\* The first lesson repeats the old timetable, the third one meets a booking and
\* the last one the second.
MCLessons ==
  <<[room |-> hall, start |-> 4, end |-> 6],
    [room |-> hall, start |-> 2, end |-> 4],
    [room |-> hall, start |-> 1, end |-> 2],
    [room |-> hall, start |-> 3, end |-> 4]>>

Book(caller, room, start, end) ==
  [op |-> "create", caller |-> caller, room |-> room, start |-> start, end |-> end]
Drop(caller, id) == [op |-> "cancel", caller |-> caller, id |-> id]

\* [3,5) overlaps two lessons; cellar is about to be deleted.
MCCall ==
  {Book(Student, hall, 3, 5), Book(Teacher, hall, 2, 4), Book(Student, cellar, 0, 2),
   Book(Teacher, aula, 0, 2), Drop(Student, 1), Drop(Admin, 2), Drop(Teacher, 2)}

=============================================================================
