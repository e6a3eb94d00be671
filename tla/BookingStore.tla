---------------------------- MODULE BookingStore ----------------------------
(***************************************************************************)
(* The Postgres tables behind internal/adapter/booking/postgres/store.go,  *)
(* as the concurrent sessions of the booking service see them.             *)
(*                                                                         *)
(* A session is one transaction.  Its own changes are kept apart from the  *)
(* committed tables until it commits.  An INSERT first writes its tuple    *)
(* and index entry and only then scans the exclusion index: it fails on a  *)
(* committed overlap, and WAITS for a session whose overlapping tuple is   *)
(* still in progress.  Two inserts that see each other's tuple therefore   *)
(* wait for each other, and the deadlock detector aborts one of them.      *)
(***************************************************************************)
EXTENDS BookingDomain, FiniteSets

CONSTANTS
  Session,          \* transactions that may run against the database
  RoomId,           \* primary keys of rooms
  UserId,           \* user ids found in tokens; BIGSERIAL, so never 0
  InitialRooms,     \* rooms present when the service starts
  InitialBookings,  \* bookings present when the service starts
  FirstId           \* next value of the bookings id sequence at that time

Booking == [id: Nat, room: RoomId, user: UserId \cup {ParserUser},
            role: KnownRole, start: Int, end: Int]

\* bookings_no_overlap_excl: EXCLUDE (room_id WITH =, tstzrange '[)' WITH &&).
Conflicts(a, b) == a.room = b.room /\ Overlaps(a, b)

NoConflictIn(S) == \A a, b \in S : a # b => ~Conflicts(a, b)

ASSUME StoreAssumption ==
  /\ ParserUser \notin UserId
  /\ UserId \subseteq Nat
  /\ InitialRooms \subseteq RoomId
  /\ FirstId \in Nat
  /\ InitialBookings \subseteq Booking
  /\ NoConflictIn(InitialBookings)
  /\ \A b \in InitialBookings : b.id < FirstId /\ b.room \in InitialRooms
  /\ \A a, b \in InitialBookings : a.id = b.id => a = b

VARIABLES
  rooms,          \* committed rooms
  bookings,       \* committed bookings
  nextId,         \* the id sequence: it never goes back, not even on abort
  scanning,       \* session -> its tuple whose exclusion scan is running
  proposed,       \* session -> row an INSERT ... ON CONFLICT has yet to place
  inserted,       \* session -> bookings inserted, not committed yet
  deleted,        \* session -> committed bookings it has deleted
  roomsInserted,  \* session -> rooms inserted, not committed yet
  roomsDeleted    \* session -> committed rooms it has deleted

storeVars == <<rooms, bookings, nextId, scanning, proposed, inserted, deleted,
               roomsInserted, roomsDeleted>>

StoreTypeOK ==
  /\ rooms \subseteq RoomId
  /\ bookings \subseteq Booking
  /\ nextId \in Nat
  /\ scanning \in [Session -> SUBSET Booking]
  /\ proposed \in [Session -> SUBSET Booking]
  /\ inserted \in [Session -> SUBSET Booking]
  /\ deleted \in [Session -> SUBSET Booking]
  /\ roomsInserted \in [Session -> SUBSET RoomId]
  /\ roomsDeleted \in [Session -> SUBSET RoomId]

StoreInit ==
  /\ rooms = InitialRooms
  /\ bookings = InitialBookings
  /\ nextId = FirstId
  /\ scanning = [s \in Session |-> {}]
  /\ proposed = [s \in Session |-> {}]
  /\ inserted = [s \in Session |-> {}]
  /\ deleted = [s \in Session |-> {}]
  /\ roomsInserted = [s \in Session |-> {}]
  /\ roomsDeleted = [s \in Session |-> {}]

(***************************************************************************)
(* Who waits for whom.                                                     *)
(***************************************************************************)

\* The outcome of an insert of b depends on how the transaction t ends.
InProgress(t, b) ==
  \E c \in scanning[t] \cup inserted[t] \cup deleted[t] : Conflicts(b, c)

\* The foreign key check of b reads a room row that t has deleted.
RoomInProgress(t, b) == b.room \in roomsDeleted[t]

\* Fault: an insert gives up on rows that may still be rolled back.
ExcludedByAny(s, b) ==
  \E c \in bookings \cup UNION {scanning[t] \cup inserted[t] : t \in Session \ {s}} :
    Conflicts(b, c)

\* A committed booking, or one of the session's own, excludes b for good.
Excluded(s, b) ==
  \E c \in (bookings \ UNION {deleted[t] : t \in Session}) \cup inserted[s] :
    Conflicts(b, c)

\* Fault: no exclusion constraint, only a look at what is committed.
FreeOfCommitted(s, b) == \A c \in bookings \ deleted[s] : ~Conflicts(b, c)

\* Nothing, committed or in progress, stands against b.
Free(s, b) ==
  /\ \A c \in (bookings \ deleted[s]) \cup inserted[s] : ~Conflicts(b, c)
  /\ \A t \in Session \ {s} : ~InProgress(t, b)

WaitsFor(s) ==
  {t \in Session \ {s} :
     \/ \E b \in scanning[s] \cup proposed[s] : InProgress(t, b)
     \/ \E b \in inserted[s] : RoomInProgress(t, b)}

\* s is on a cycle of waits: every set closed under waiting that holds what
\* s waits for holds s itself.
InDeadlock(s) ==
  \A R \in SUBSET Session :
    (WaitsFor(s) \subseteq R /\ \A t \in R : WaitsFor(t) \subseteq R) => s \in R

(***************************************************************************)
(* Statements.                                                             *)
(***************************************************************************)

\* INSERT, first half: the sequence is drawn, tuple and index entry written.
WriteTuple(s, b) ==
  /\ nextId' = nextId + 1
  /\ scanning' = [scanning EXCEPT ![s] = {b}]
  /\ UNCHANGED <<rooms, bookings, proposed, inserted, deleted,
                 roomsInserted, roomsDeleted>>

\* INSERT, second half: the scan met no overlap.
PassExclusion(s) ==
  /\ \A b \in scanning[s] : Free(s, b)
  /\ scanning' = [scanning EXCEPT ![s] = {}]
  /\ inserted' = [inserted EXCEPT ![s] = @ \cup scanning[s]]
  /\ UNCHANGED <<rooms, bookings, nextId, proposed, deleted,
                 roomsInserted, roomsDeleted>>

\* INSERT ... ON CONFLICT DO NOTHING looks for overlaps before it writes its
\* tuple: nobody waits for a row that is only proposed.
Propose(s, b) ==
  /\ nextId' = nextId + 1
  /\ proposed' = [proposed EXCEPT ![s] = {b}]
  /\ UNCHANGED <<rooms, bookings, scanning, inserted, deleted,
                 roomsInserted, roomsDeleted>>

PlaceProposed(s) ==
  /\ \A b \in proposed[s] : Free(s, b)
  /\ proposed' = [proposed EXCEPT ![s] = {}]
  /\ inserted' = [inserted EXCEPT ![s] = @ \cup proposed[s]]
  /\ UNCHANGED <<rooms, bookings, nextId, scanning, deleted,
                 roomsInserted, roomsDeleted>>

DropProposed(s) ==
  /\ \E b \in proposed[s] : Excluded(s, b)
  /\ proposed' = [proposed EXCEPT ![s] = {}]
  /\ UNCHANGED <<rooms, bookings, nextId, scanning, inserted, deleted,
                 roomsInserted, roomsDeleted>>

\* The session's changes are dropped; only the id sequence has moved.
EndSession(s) ==
  /\ scanning' = [scanning EXCEPT ![s] = {}]
  /\ proposed' = [proposed EXCEPT ![s] = {}]
  /\ inserted' = [inserted EXCEPT ![s] = {}]
  /\ deleted' = [deleted EXCEPT ![s] = {}]
  /\ roomsInserted' = [roomsInserted EXCEPT ![s] = {}]
  /\ roomsDeleted' = [roomsDeleted EXCEPT ![s] = {}]

Rollback(s) == EndSession(s) /\ UNCHANGED <<rooms, bookings, nextId>>

Commit(s) ==
  /\ rooms' = (rooms \ roomsDeleted[s]) \cup roomsInserted[s]
  /\ bookings' = (bookings \ deleted[s]) \cup inserted[s]
  /\ EndSession(s)
  /\ UNCHANGED nextId

\* DELETE ... WHERE id = $1 in its own transaction; it waits while another
\* session holds the row.
DeleteRow(id) ==
  /\ \A t \in Session : \A b \in deleted[t] : b.id # id
  /\ bookings' = {b \in bookings : b.id # id}
  /\ UNCHANGED <<rooms, nextId, scanning, proposed, inserted, deleted,
                 roomsInserted, roomsDeleted>>

-----------------------------------------------------------------------------
(***************************************************************************)
(* What the statements maintain between them.                              *)
(***************************************************************************)

\* Rows of a session that are not committed yet.
OpenRows(s) == scanning[s] \cup proposed[s] \cup inserted[s]

\* The sequence gives every row, of whatever session, an id of its own.
UniqueIds ==
  /\ \A b \in bookings : b.id < nextId
  /\ \A a, b \in bookings : a.id = b.id => a = b
  /\ \A s \in Session : \A a \in OpenRows(s) :
       /\ a.id < nextId
       /\ \A b \in bookings : a.id # b.id
       /\ \A t \in Session : \A b \in OpenRows(t) : a.id = b.id => s = t /\ a = b

\* A session deletes committed rows, and no row is deleted by two.
ExclusiveDeletes ==
  /\ \A s \in Session : deleted[s] \subseteq bookings
  /\ \A s, t \in Session : \A b \in deleted[s] : b \in deleted[t] => s = t

\* A row that has passed its scan conflicts with no other such row and with no
\* committed one, except those its own session has deleted.
NoOpenConflict ==
  \A s \in Session : \A a \in inserted[s] :
    /\ \A b \in bookings \ deleted[s] : ~Conflicts(a, b)
    /\ \A t \in Session : \A b \in inserted[t] : a # b => ~Conflicts(a, b)

StoreInv ==
  /\ StoreTypeOK
  /\ UniqueIds
  /\ ExclusiveDeletes
  /\ NoConflictIn(bookings)
  /\ NoOpenConflict

=============================================================================
