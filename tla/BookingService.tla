--------------------------- MODULE BookingService ---------------------------
(***************************************************************************)
(* The booking service (internal/core/booking/service/service.go) serving  *)
(* concurrent HTTP requests.  Every request runs CreateBooking or          *)
(* CancelBooking in a goroutine of its own; a step of a request is one     *)
(* statement against the database, or the publication of an event.         *)
(*                                                                         *)
(* Between two statements other requests run: CreateBooking reads the      *)
(* room's bookings, compares, and inserts later; CancelBooking authorises  *)
(* against a row it has read and deletes by id later.                      *)
(***************************************************************************)
EXTENDS BookingStore, Sequences

CONSTANTS
  Request,  \* requests, each a session of its own
  Call      \* what a request may ask for

\* The identity RequireIdentity takes from the token.
Caller == [user: UserId, role: AnyRole]

CreateCall == [op: {"create"}, caller: Caller, room: RoomId, start: Int, end: Int]
CancelCall == [op: {"cancel"}, caller: Caller, id: Nat]

ASSUME ServiceAssumption ==
  /\ Request \subseteq Session
  /\ Call \subseteq CreateCall \cup CancelCall

VARIABLES
  call,       \* request -> what it asks for
  pc,         \* request -> the statement it is about to run
  listed,     \* request -> the room's bookings ListByRoomID returned
  found,      \* request -> {the row GetBookingByID or INSERT RETURNING gave}, or {}
  reply,      \* request -> the answer of the handler
  events,     \* events the broker has accepted, oldest first
  contested,  \* history: a conflicting booking was committed during the call
  made        \* history: every row that was committed at some moment

requestVars == <<call, pc, listed, found, reply, events>>
vars == <<storeVars, requestVars, contested, made>>

Phase == {"idle", "get_room", "list", "compare", "insert", "foreign_key",
          "get_booking", "delete", "publish", "done"}
Reply == {"none", "created", "cancelled", "forbidden", "invalid_range",
          "room_not_found", "booking_not_found", "conflict", "internal", "gone"}
Event == [type: {"created", "cancelled"}, id: Nat]

TypeOK ==
  /\ StoreTypeOK
  /\ call \in [Request -> Call]
  /\ pc \in [Request -> Phase]
  /\ listed \in [Request -> SUBSET Booking]
  /\ found \in [Request -> SUBSET Booking]
  /\ reply \in [Request -> Reply]
  /\ events \in Seq(Event)
  /\ contested \in [Request -> BOOLEAN]
  /\ made \subseteq Booking

Init ==
  /\ StoreInit
  /\ call \in [Request -> Call]
  /\ pc = [r \in Request |-> "idle"]
  /\ listed = [r \in Request |-> {}]
  /\ found = [r \in Request |-> {}]
  /\ reply = [r \in Request |-> "none"]
  /\ events = <<>>
  /\ contested = [r \in Request |-> FALSE]
  /\ made = bookings

-----------------------------------------------------------------------------

At(r, phase) == pc[r] = phase
Goto(r, phase) == pc' = [pc EXCEPT ![r] = phase] /\ UNCHANGED reply
Answer(r, answer) ==
  /\ pc' = [pc EXCEPT ![r] = "done"]
  /\ reply' = [reply EXCEPT ![r] = answer]

Creating(r) == call[r].op = "create"

\* Fault: ids are drawn from the table instead of the sequence.
NewBookingReusingId(r) ==
  [id |-> CHOOSE n \in 1 .. nextId : \A b \in bookings : b.id # n,
   room |-> call[r].room, user |-> call[r].caller.user,
   role |-> call[r].caller.role, start |-> call[r].start, end |-> call[r].end]

\* The row CreateBooking hands to the repository.
NewBooking(r) ==
  [id |-> nextId, room |-> call[r].room, user |-> call[r].caller.user,
   role |-> call[r].caller.role, start |-> call[r].start, end |-> call[r].end]

\* b is the row that r asks for.
Asked(r, b) ==
  /\ b.room = call[r].room /\ b.start = call[r].start /\ b.end = call[r].end
  /\ b.user = call[r].caller.user /\ b.role = call[r].caller.role

ConflictsWith(r, b) == Creating(r) /\ Conflicts(call[r], b)

\* CancelBooking's rule: the owner, or a caller who outranks the creator.
MayCancel(caller, b) ==
  b.user = caller.user \/ CanCancelOther(caller.role, b.role)

-----------------------------------------------------------------------------
\* The checks made before the first statement.

RefuseCaller(r) ==
  /\ At(r, "idle")
  /\ ~IsKnown(call[r].caller.role)
  /\ Answer(r, "forbidden")
  /\ UNCHANGED <<storeVars, call, listed, found, events>>

RefuseRange(r) ==
  /\ At(r, "idle")
  /\ IsKnown(call[r].caller.role)
  /\ Creating(r)
  /\ ~ValidTimeRange(call[r].start, call[r].end)
  /\ Answer(r, "invalid_range")
  /\ UNCHANGED <<storeVars, call, listed, found, events>>

Accept(r) ==
  /\ At(r, "idle")
  /\ IsKnown(call[r].caller.role)
  /\ Creating(r) => ValidTimeRange(call[r].start, call[r].end)
  /\ Goto(r, IF Creating(r) THEN "get_room" ELSE "get_booking")
  /\ UNCHANGED <<storeVars, call, listed, found, events>>

-----------------------------------------------------------------------------
\* CreateBooking.

GetRoom(r) ==
  /\ At(r, "get_room")
  /\ IF call[r].room \in rooms THEN Goto(r, "list") ELSE Answer(r, "room_not_found")
  /\ UNCHANGED <<storeVars, call, listed, found, events>>

ListRoom(r) ==
  /\ At(r, "list")
  /\ listed' = [listed EXCEPT ![r] = {b \in bookings : b.room = call[r].room}]
  /\ Goto(r, "compare")
  /\ UNCHANGED <<storeVars, call, found, events>>

\* Fault: closed ranges, a booking may not begin when another one ends.
RejectTouching(r) ==
  /\ At(r, "compare")
  /\ \E b \in listed[r] : call[r].start <= b.end /\ b.start <= call[r].end
  /\ Answer(r, "conflict")
  /\ UNCHANGED <<storeVars, call, listed, found, events>>

RejectListed(r) ==
  /\ At(r, "compare")
  /\ \E b \in listed[r] : Overlaps(call[r], b)
  /\ Answer(r, "conflict")
  /\ UNCHANGED <<storeVars, call, listed, found, events>>

StartInsert(r) ==
  /\ At(r, "compare")
  /\ \A b \in listed[r] : ~Overlaps(call[r], b)
  /\ WriteTuple(r, NewBooking(r))
  /\ Goto(r, "insert")
  /\ UNCHANGED <<call, listed, found, events>>

FinishScan(r) ==
  /\ At(r, "insert")
  /\ PassExclusion(r)
  /\ Goto(r, "foreign_key")
  /\ UNCHANGED <<call, listed, found, events>>

\* Fault: the error of the insert is dropped.
PublishRejected(r) ==
  /\ At(r, "insert")
  /\ \E b \in scanning[r] : Excluded(r, b)
  /\ Rollback(r)
  /\ found' = [found EXCEPT ![r] = scanning[r]]
  /\ Goto(r, "publish")
  /\ UNCHANGED <<call, listed, events>>

\* 23P01: translateInsertError makes it ErrScheduleConflict.
RejectInsert(r) ==
  /\ At(r, "insert")
  /\ \E b \in scanning[r] : Excluded(r, b)
  /\ Rollback(r)
  /\ Answer(r, "conflict")
  /\ UNCHANGED <<call, listed, found, events>>

\* 40P01: translateInsertError has no case for it.
AbortDeadlocked(r) ==
  /\ InDeadlock(r)
  /\ Rollback(r)
  /\ Answer(r, "internal")
  /\ UNCHANGED <<call, listed, found, events>>

RoomSettled(r) ==
  \A t \in Session \ {r} : call[r].room \notin roomsDeleted[t]

CommitInsert(r) ==
  /\ At(r, "foreign_key")
  /\ RoomSettled(r)
  /\ call[r].room \in rooms
  /\ Commit(r)
  /\ found' = [found EXCEPT ![r] = inserted[r]]
  /\ Goto(r, "publish")
  /\ UNCHANGED <<call, listed, events>>

\* 23503: the room went away after GetByID had seen it; no case for it either.
RejectRoom(r) ==
  /\ At(r, "foreign_key")
  /\ RoomSettled(r)
  /\ call[r].room \notin rooms
  /\ Rollback(r)
  /\ Answer(r, "internal")
  /\ UNCHANGED <<call, listed, found, events>>

\* The row is committed, but the client's context ends before the answer of
\* the database arrives: Create returns an error and nothing is published.
LoseCommit(r) ==
  /\ At(r, "foreign_key")
  /\ RoomSettled(r)
  /\ call[r].room \in rooms
  /\ Commit(r)
  /\ Answer(r, "gone")
  /\ UNCHANGED <<call, listed, found, events>>

-----------------------------------------------------------------------------
\* CancelBooking.

GetBooking(r) ==
  /\ At(r, "get_booking")
  /\ LET row == {b \in bookings : b.id = call[r].id}
     IN  /\ found' = [found EXCEPT ![r] = row]
         /\ IF row = {} THEN Answer(r, "booking_not_found")
            ELSE IF \E b \in row : MayCancel(call[r].caller, b) THEN Goto(r, "delete")
            ELSE Answer(r, "forbidden")
  /\ UNCHANGED <<storeVars, call, listed, events>>

RowExists(r) == \E b \in bookings : b.id = call[r].id

DeleteBooking(r) ==
  /\ At(r, "delete")
  /\ DeleteRow(call[r].id)
  /\ IF RowExists(r) THEN Goto(r, "publish") ELSE Answer(r, "booking_not_found")
  /\ UNCHANGED <<call, listed, found, events>>

\* As LoseCommit: the row is gone, DeleteByID returns the context's error.
LoseDelete(r) ==
  /\ At(r, "delete")
  /\ RowExists(r)
  /\ DeleteRow(call[r].id)
  /\ Answer(r, "gone")
  /\ UNCHANGED <<call, listed, found, events>>

-----------------------------------------------------------------------------
\* Both.

Outcome(r) == IF Creating(r) THEN "created" ELSE "cancelled"

\* Fire-and-forget: the error of Publish is dropped.
Publish(r) ==
  /\ At(r, "publish")
  /\ \/ \E b \in found[r] : events' = Append(events, [type |-> Outcome(r), id |-> b.id])
     \/ UNCHANGED events
  /\ Answer(r, Outcome(r))
  /\ UNCHANGED <<storeVars, call, listed, found>>

\* The client's context, or the connection to the database, ends while a
\* statement is queued, running or waiting: the server rolls the transaction
\* back.  Either error ends the call; who hung up does not see the answer.
Disconnect(r) ==
  /\ pc[r] \in {"get_room", "list", "insert", "foreign_key", "get_booking", "delete"}
  /\ Rollback(r)
  /\ Answer(r, "gone")
  /\ UNCHANGED <<call, listed, found, events>>

-----------------------------------------------------------------------------

Create(r) ==
  \/ RefuseRange(r) \/ GetRoom(r) \/ ListRoom(r) \/ RejectListed(r) \/ StartInsert(r)
  \/ FinishScan(r) \/ RejectInsert(r) \/ AbortDeadlocked(r)
  \/ CommitInsert(r) \/ RejectRoom(r) \/ LoseCommit(r)

Cancel(r) == GetBooking(r) \/ DeleteBooking(r) \/ LoseDelete(r)

Step(r) == RefuseCaller(r) \/ Accept(r) \/ Create(r) \/ Cancel(r) \/ Publish(r)

\* History: r is contested once a booking that conflicts with its call is
\* committed at some moment between its arrival and its answer.
Witness ==
  contested' = [r \in Request |->
    \/ contested[r]
    \/ /\ pc'[r] # "idle" /\ pc[r] # "done"
       /\ \E b \in bookings' : ConflictsWith(r, b)]

\* History: no row is forgotten that was once committed.
Remember == made' = made \cup bookings'

Histories == Witness /\ Remember

Next == (\E r \in Request : Step(r) \/ Disconnect(r)) /\ Histories

Spec == Init /\ [][Next]_vars

-----------------------------------------------------------------------------
(***************************************************************************)
(* Properties.                                                             *)
(***************************************************************************)

\* Two committed bookings of a room never overlap, however the reads, inserts
\* and commits of concurrent CreateBooking calls interleave.
NoDoubleBooking == NoConflictIn(bookings)

\* 409 is the truth: a conflicting booking was committed at some moment of the
\* call.  An insert that met a tuple in progress has waited for its outcome.
ConflictJustified == \A r \in Request : reply[r] = "conflict" => contested[r]

\* The step of the cancel call r that deletes the row b.
Cancels(r, b) ==
  /\ At(r, "delete") /\ pc'[r] # "delete"
  /\ call[r].id = b.id /\ MayCancel(call[r].caller, b)

\* A booking disappears only when a cancel call naming it, by its owner or by a
\* caller who outranks its creator, deletes it, although CancelBooking
\* authorised the call against a row it had read in an earlier statement.
CancelAuthorised == [][\A b \in bookings \ bookings' : \E r \in Request : Cancels(r, b)]_vars

\* An event is of a change that was committed, and published once at most, the
\* broker being best-effort.  "created" names a row that was committed since
\* the start and is what a create call asked for, never one whose INSERT was
\* rolled back; "cancelled" one that was committed, is gone, and that a cancel
\* call named which was entitled to it.
EventsTruthful ==
  \A i \in DOMAIN events :
    /\ \E b \in made : events[i].id = b.id /\ \E r \in Request :
         /\ events[i].type = Outcome(r)
         /\ IF Creating(r) THEN b \notin InitialBookings /\ Asked(r, b)
            ELSE b \notin bookings /\ call[r].id = b.id /\ MayCancel(call[r].caller, b)
    /\ \A j \in DOMAIN events : i # j => events[i] # events[j]

\* An insert that loses a race is told so: it never ends as an internal error.
LoserGetsConflict == \A r \in Request : reply[r] # "internal"

\* The service implements the calendar.  A request's outcome is fixed by the
\* statement that decides it, which may come before its answer.
Verdict(r) ==
  CASE At(r, "idle")    -> "none"
    [] At(r, "publish") -> Outcome(r)
    [] At(r, "compare") /\ (\E b \in listed[r] : Overlaps(call[r], b)) -> "conflict"
    [] At(r, "done")    -> reply[r]
    [] OTHER            -> "pending"

Promise == INSTANCE Calendar WITH
  calendar <- bookings, verdict <- [r \in Request |-> Verdict(r)]

\* Every step of the service is a step of the calendar or leaves it alone.
ImplementsCalendar == Promise!Spec

=============================================================================
