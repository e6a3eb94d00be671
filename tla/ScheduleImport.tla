--------------------------- MODULE ScheduleImport ---------------------------
(***************************************************************************)
(* ReplaceParsedSchedule (internal/adapter/booking/postgres/store.go): one *)
(* transaction that deletes the previous timetable and the rooms nobody    *)
(* uses any more, upserts the rooms of the new timetable and inserts its   *)
(* lessons one by one, skipping those that meet a booking.                 *)
(*                                                                         *)
(* The transaction runs while the service serves requests: it waits for    *)
(* their inserts and they wait for its deletions and lessons.              *)
(***************************************************************************)
EXTENDS BookingStore, Sequences

CONSTANTS
  Importer,      \* importing processes, each a session of its own
  ImportedRoom,  \* rooms of the timetable, after normalizeParsedRoom
  StaleRoom,     \* demo rooms, and parser rooms with "(...)" in their names
  Lessons        \* the slots of the timetable, in the parser's order

Lesson == [room: RoomId, start: Int, end: Int]

\* Normalised names carry no parentheses, so an imported room is never stale.
ASSUME ImportAssumption ==
  /\ Importer \subseteq Session
  /\ ImportedRoom \subseteq RoomId
  /\ StaleRoom \subseteq RoomId
  /\ StaleRoom \cap ImportedRoom = {}
  /\ Lessons \in Seq(Lesson)
  /\ \A k \in DOMAIN Lessons :
       Lessons[k].room \in ImportedRoom /\ ValidTimeRange(Lessons[k].start, Lessons[k].end)

VARIABLES
  stage,    \* importer -> the statement it is about to run
  unused,   \* importer -> stale rooms its statement's snapshot shows unused
  next,     \* importer -> position of the next lesson
  skipped   \* importer -> pairs of a skipped lesson and a booking it has met

importVars == <<stage, unused, next, skipped>>

ImportInit ==
  /\ stage = [i \in Importer |-> "idle"]
  /\ unused = [i \in Importer |-> {}]
  /\ next = [i \in Importer |-> 1]
  /\ skipped = [i \in Importer |-> {}]

Parsed == {b \in bookings : IsParsed(b)}

LessonRow(k) ==
  [id |-> nextId, room |-> Lessons[k].room, user |-> ParserUser, role |-> "admin",
   start |-> Lessons[k].start, end |-> Lessons[k].end]

Proceed(i, from, to) == stage[i] = from /\ stage' = [stage EXCEPT ![i] = to]

-----------------------------------------------------------------------------

Begin(i) ==
  /\ Proceed(i, "idle", "delete_rows")
  /\ UNCHANGED <<storeVars, unused, next, skipped>>

\* Fault: the previous timetable is left in place.
KeepParsed(i) ==
  /\ Proceed(i, "delete_rows", "find_rooms")
  /\ UNCHANGED <<storeVars, unused, next, skipped>>

\* Fault: the rooms of the timetable are cleared.
ClearRooms(i) ==
  /\ Proceed(i, "delete_rows", "find_rooms")
  /\ deleted' = [deleted EXCEPT ![i] = {b \in bookings : b.room \in ImportedRoom}]
  /\ UNCHANGED <<rooms, bookings, nextId, scanning, proposed, inserted,
                 roomsInserted, roomsDeleted, unused, next, skipped>>

\* DELETE FROM bookings WHERE user_id = 0 AND creator_role = 'admin'; a row
\* that another import has deleted is waited for.
DeleteParsed(i) ==
  /\ Proceed(i, "delete_rows", "find_rooms")
  /\ \A t \in Session \ {i} : deleted[t] = {}
  /\ deleted' = [deleted EXCEPT ![i] = Parsed]
  /\ UNCHANGED <<rooms, bookings, nextId, scanning, proposed, inserted,
                 roomsInserted, roomsDeleted, unused, next, skipped>>

\* DELETE FROM rooms, first half: the statement's snapshot selects the rooms.
FindStaleRooms(i) ==
  /\ Proceed(i, "find_rooms", "delete_rooms")
  /\ unused' = [unused EXCEPT ![i] =
       {room \in StaleRoom \cap rooms : \A b \in bookings \ deleted[i] : b.room # room}]
  /\ UNCHANGED <<storeVars, next, skipped>>

Referenced(i) == \E b \in bookings \ deleted[i] : b.room \in unused[i]

\* Fault: no foreign key, the snapshot is trusted.
DeleteRoomsUnchecked(i) ==
  /\ Proceed(i, "delete_rooms", "upsert_rooms")
  /\ roomsDeleted' = [roomsDeleted EXCEPT ![i] = unused[i] \cap rooms]
  /\ UNCHANGED <<rooms, bookings, nextId, scanning, proposed, inserted, deleted,
                 roomsInserted, unused, next, skipped>>

\* Second half: the rows are locked and ON DELETE RESTRICT looks again.
DeleteStaleRooms(i) ==
  /\ Proceed(i, "delete_rooms", "upsert_rooms")
  /\ \A t \in Session \ {i} : roomsDeleted[t] = {}
  /\ ~Referenced(i)
  /\ roomsDeleted' = [roomsDeleted EXCEPT ![i] = unused[i] \cap rooms]
  /\ UNCHANGED <<rooms, bookings, nextId, scanning, proposed, inserted, deleted,
                 roomsInserted, unused, next, skipped>>

\* A booking was committed into a room between the two halves.
RestrictRooms(i) ==
  /\ Proceed(i, "delete_rooms", "failed")
  /\ Referenced(i)
  /\ Rollback(i)
  /\ UNCHANGED <<unused, next, skipped>>

\* The rows of upserted rooms stay locked until the transaction ends.
UpsertRooms(i) ==
  /\ Proceed(i, "upsert_rooms", "propose")
  /\ \A t \in Importer \ {i} : stage[t] \notin {"propose", "place"}
  /\ roomsInserted' = [roomsInserted EXCEPT ![i] = ImportedRoom \ rooms]
  /\ UNCHANGED <<rooms, bookings, nextId, scanning, proposed, inserted, deleted,
                 roomsDeleted, unused, next, skipped>>

ProposeLesson(i) ==
  /\ Proceed(i, "propose", "place")
  /\ next[i] <= Len(Lessons)
  /\ Propose(i, LessonRow(next[i]))
  /\ UNCHANGED <<unused, next, skipped>>

NextLesson(i) == next' = [next EXCEPT ![i] = @ + 1]

PlaceLesson(i) ==
  /\ Proceed(i, "place", "propose")
  /\ PlaceProposed(i)
  /\ NextLesson(i)
  /\ UNCHANGED <<unused, skipped>>

\* RowsAffected() == 0: counted as skipped.  The count is kept with a booking
\* that has excluded the lesson.
SkipLesson(i) ==
  /\ Proceed(i, "place", "propose")
  /\ DropProposed(i)
  /\ \E c \in bookings \cup inserted[i] :
       /\ \E b \in proposed[i] : Conflicts(b, c)
       /\ \A t \in Session : c \notin deleted[t]
       /\ skipped' = [skipped EXCEPT ![i] = @ \cup {<<next[i], c>>}]
  /\ NextLesson(i)
  /\ UNCHANGED unused

CommitImport(i) ==
  /\ Proceed(i, "propose", "committed")
  /\ next[i] > Len(Lessons)
  /\ Commit(i)
  /\ UNCHANGED <<unused, next, skipped>>

\* Fault: what has been done before the error is kept.
CommitPartly(i) ==
  /\ stage[i] \notin {"idle", "committed", "failed"}
  /\ stage' = [stage EXCEPT ![i] = "failed"]
  /\ Commit(i)
  /\ UNCHANGED <<unused, next, skipped>>

\* Fault: the transaction is left open.
LeaveOpen(i) ==
  /\ stage[i] \notin {"idle", "committed", "failed"}
  /\ stage' = [stage EXCEPT ![i] = "failed"]
  /\ UNCHANGED <<storeVars, unused, next, skipped>>

\* Any statement may fail, and the context may be cancelled: BeginFunc rolls
\* the transaction back.
FailImport(i) ==
  /\ stage[i] \notin {"idle", "committed", "failed"}
  /\ stage' = [stage EXCEPT ![i] = "failed"]
  /\ Rollback(i)
  /\ UNCHANGED <<unused, next, skipped>>

AbortImport(i) == InDeadlock(i) /\ FailImport(i)

ImportStep(i) ==
  \/ Begin(i) \/ DeleteParsed(i) \/ FindStaleRooms(i) \/ DeleteStaleRooms(i)
  \/ RestrictRooms(i) \/ UpsertRooms(i) \/ ProposeLesson(i) \/ PlaceLesson(i)
  \/ SkipLesson(i) \/ CommitImport(i) \/ AbortImport(i)

=============================================================================
