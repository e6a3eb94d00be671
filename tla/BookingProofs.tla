---------------------------- MODULE BookingProofs ----------------------------
(***************************************************************************)
(* Proofs about bookings, for any number of requests, importers, rooms,    *)
(* users and calls and any timetable, in three parts.                      *)
(*                                                                         *)
(* BookingStore: what its statements preserve, for every component that    *)
(* runs them.                                                              *)
(*                                                                         *)
(* BookingService: type correctness, the absence of double bookings, the   *)
(* authorisation of every deletion, the truth of every refusal and of      *)
(* every event, and that the service implements Calendar.                  *)
(*                                                                         *)
(* BookingSystem: what was proved of the requests alone still holds beside *)
(* imports, and an import, whatever it deletes, skips or leaves undone,    *)
(* loses no booking of a user, leaves none without its room, and shows     *)
(* nobody half a timetable.                                                *)
(***************************************************************************)
EXTENDS BookingSystem, TLAPS

-----------------------------------------------------------------------------
\* The store: every statement and every end of a transaction preserves StoreInv.

USE DEF OpenRows

\* The tables as the service finds them are consistent.
LEMMA StoreInitInv == StoreInit => StoreInv
<1>1. SUFFICES ASSUME StoreInit PROVE StoreInv
  OBVIOUS
<1>2. StoreTypeOK
  BY <1>1, StoreAssumption DEF StoreInit, StoreTypeOK
<1>3. UniqueIds
  BY <1>1, StoreAssumption DEF StoreInit, UniqueIds
<1>4. ExclusiveDeletes
  BY <1>1 DEF StoreInit, ExclusiveDeletes
<1>5. NoConflictIn(bookings)
  BY <1>1, StoreAssumption DEF StoreInit
<1>6. NoOpenConflict
  BY <1>1 DEF StoreInit, NoOpenConflict
<1>. QED  BY <1>2, <1>3, <1>4, <1>5, <1>6 DEF StoreInv

\* Writing the tuple of a new row with the id just drawn keeps ids unique.
LEMMA WriteTupleInv ==
  ASSUME NEW s \in Session, NEW b \in Booking, b.id = nextId,
         StoreInv, WriteTuple(s, b)
  PROVE  StoreInv'
<1>. USE DEF StoreInv, WriteTuple
<1>1. StoreTypeOK'
  BY DEF StoreTypeOK
<1>2. UniqueIds'
  <2>1. \A a \in Booking : a.id \in Nat
    BY DEF Booking
  <2>2. \A t \in Session : OpenRows(t)' \subseteq OpenRows(t) \cup (IF t = s THEN {b} ELSE {})
    BY DEF StoreTypeOK
  <2>3. \A t \in Session : OpenRows(t) \subseteq Booking /\ bookings \subseteq Booking
    BY DEF StoreTypeOK
  <2>4. nextId \in Nat /\ nextId' = nextId + 1 /\ bookings' = bookings
    BY DEF StoreTypeOK
  <2>. HIDE DEF OpenRows, WriteTuple
  <2>. QED  BY <2>1, <2>2, <2>3, <2>4 DEF UniqueIds
<1>3. ExclusiveDeletes'
  BY DEF ExclusiveDeletes
<1>4. NoConflictIn(bookings)'
  BY DEF NoConflictIn
<1>5. NoOpenConflict'
  BY DEF NoOpenConflict
<1>. QED  BY <1>1, <1>2, <1>3, <1>4, <1>5

\* A row whose ON CONFLICT check has not been made yet claims nothing but an id.
LEMMA ProposeInv ==
  ASSUME NEW s \in Session, NEW b \in Booking, b.id = nextId,
         StoreInv, Propose(s, b)
  PROVE  StoreInv'
<1>. USE DEF StoreInv, Propose
<1>1. StoreTypeOK'
  BY DEF StoreTypeOK
<1>2. UniqueIds'
  <2>1. \A a \in Booking : a.id \in Nat
    BY DEF Booking
  <2>2. \A t \in Session : OpenRows(t)' \subseteq OpenRows(t) \cup (IF t = s THEN {b} ELSE {})
    BY DEF StoreTypeOK
  <2>3. \A t \in Session : OpenRows(t) \subseteq Booking /\ bookings \subseteq Booking
    BY DEF StoreTypeOK
  <2>4. nextId \in Nat /\ nextId' = nextId + 1 /\ bookings' = bookings
    BY DEF StoreTypeOK
  <2>. HIDE DEF OpenRows, Propose
  <2>. QED  BY <2>1, <2>2, <2>3, <2>4 DEF UniqueIds
<1>3. ExclusiveDeletes'
  BY DEF ExclusiveDeletes
<1>4. NoConflictIn(bookings)'
  BY DEF NoConflictIn
<1>5. NoOpenConflict'
  BY DEF NoOpenConflict
<1>. QED  BY <1>1, <1>2, <1>3, <1>4, <1>5

\* Overlapping is symmetric, and so is the exclusion constraint.
LEMMA ConflictsSymmetric ==
  ASSUME NEW a \in Booking, NEW b \in Booking
  PROVE  Conflicts(a, b) <=> Conflicts(b, a)
BY DEF Conflicts, Overlaps

\* A row that is free when it is taken keeps the passed rows free of conflicts:
\* whoever passes later meets it in progress.
LEMMA TakeInv ==
  ASSUME NEW s \in Session, NEW S \in SUBSET Booking,
         StoreTypeOK, NoOpenConflict,
         \A b \in S : Free(s, b),
         \A a, b \in S : a = b,
         inserted' = [inserted EXCEPT ![s] = @ \cup S],
         UNCHANGED <<bookings, deleted>>
  PROVE  NoOpenConflict'
<1>. SUFFICES ASSUME NEW t \in Session, NEW a \in inserted'[t]
              PROVE  /\ \A b \in bookings \ deleted[t] : ~Conflicts(a, b)
                     /\ \A u \in Session : \A b \in inserted'[u] : a # b => ~Conflicts(a, b)
  BY DEF NoOpenConflict
<1>1. \A u \in Session : inserted[u] \subseteq Booking
  BY DEF StoreTypeOK
<1>2. \A u \in Session : \A b \in inserted'[u] : b \in inserted[u] \/ (u = s /\ b \in S)
  BY DEF StoreTypeOK
<1>3. \A b \in S, u \in Session : \A c \in inserted[u] : ~Conflicts(b, c)
  BY DEF Free, InProgress
<1>4. \A b \in S : \A c \in bookings \ deleted[s] : ~Conflicts(b, c)
  BY DEF Free
<1>5. CASE a \in inserted[t]
  <2>1. \A b \in bookings \ deleted[t] : ~Conflicts(a, b)
    BY <1>5 DEF NoOpenConflict
  <2>2. ASSUME NEW u \in Session, NEW b \in inserted'[u], a # b
        PROVE  ~Conflicts(a, b)
    <3>1. CASE b \in inserted[u]
      BY <1>5, <2>2, <3>1 DEF NoOpenConflict
    <3>2. CASE b \in S
      BY <1>1, <1>3, <1>5, <3>2, ConflictsSymmetric
    <3>. QED  BY <1>2, <3>1, <3>2
  <2>. QED  BY <2>1, <2>2
<1>6. CASE t = s /\ a \in S
  <2>1. ASSUME NEW u \in Session, NEW b \in inserted'[u], a # b
        PROVE  ~Conflicts(a, b)
    BY <1>2, <1>3, <1>6, <2>1
  <2>. QED  BY <1>4, <1>6, <2>1
<1>. QED  BY <1>2, <1>5, <1>6

\* The scan of a plain INSERT ends without a conflict.
LEMMA PassExclusionInv ==
  ASSUME NEW s \in Session, StoreInv, PassExclusion(s),
         \A a, b \in scanning[s] : a = b
  PROVE  StoreInv'
<1>. USE DEF StoreInv
<1>1. StoreTypeOK'
  BY DEF StoreTypeOK, PassExclusion
<1>2. UniqueIds'
  <2>1. \A t \in Session : OpenRows(t)' \subseteq OpenRows(t)
    BY DEF StoreTypeOK, PassExclusion
  <2>2. nextId' = nextId /\ bookings' = bookings
    BY DEF PassExclusion
  <2>. HIDE DEF OpenRows
  <2>. QED  BY <2>1, <2>2 DEF UniqueIds
<1>3. ExclusiveDeletes'
  BY DEF ExclusiveDeletes, PassExclusion
<1>4. NoConflictIn(bookings)'
  BY DEF NoConflictIn, PassExclusion
<1>5. NoOpenConflict'
  <2>1. scanning[s] \in SUBSET Booking
    BY DEF StoreTypeOK
  <2>. QED  BY <2>1, TakeInv DEF PassExclusion
<1>. QED  BY <1>1, <1>2, <1>3, <1>4, <1>5

\* INSERT ... ON CONFLICT DO NOTHING has found nothing in its way.
LEMMA PlaceProposedInv ==
  ASSUME NEW s \in Session, StoreInv, PlaceProposed(s),
         \A a, b \in proposed[s] : a = b
  PROVE  StoreInv'
<1>. USE DEF StoreInv
<1>1. StoreTypeOK'
  BY DEF StoreTypeOK, PlaceProposed
<1>2. UniqueIds'
  <2>1. \A t \in Session : OpenRows(t)' \subseteq OpenRows(t)
    BY DEF StoreTypeOK, PlaceProposed
  <2>2. nextId' = nextId /\ bookings' = bookings
    BY DEF PlaceProposed
  <2>. HIDE DEF OpenRows
  <2>. QED  BY <2>1, <2>2 DEF UniqueIds
<1>3. ExclusiveDeletes'
  BY DEF ExclusiveDeletes, PlaceProposed
<1>4. NoConflictIn(bookings)'
  BY DEF NoConflictIn, PlaceProposed
<1>5. NoOpenConflict'
  <2>1. proposed[s] \in SUBSET Booking
    BY DEF StoreTypeOK
  <2>. QED  BY <2>1, TakeInv DEF PlaceProposed
<1>. QED  BY <1>1, <1>2, <1>3, <1>4, <1>5

\* A skipped row gives its claim up.
LEMMA DropProposedInv ==
  ASSUME NEW s \in Session, StoreInv, DropProposed(s)
  PROVE  StoreInv'
<1>. USE DEF StoreInv
<1>1. StoreTypeOK'
  BY DEF StoreTypeOK, DropProposed
<1>2. UniqueIds'
  <2>1. \A t \in Session : OpenRows(t)' \subseteq OpenRows(t)
    BY DEF StoreTypeOK, DropProposed
  <2>2. nextId' = nextId /\ bookings' = bookings
    BY DEF DropProposed
  <2>. HIDE DEF OpenRows
  <2>. QED  BY <2>1, <2>2 DEF UniqueIds
<1>3. ExclusiveDeletes'
  BY DEF ExclusiveDeletes, DropProposed
<1>4. NoConflictIn(bookings)'
  BY DEF NoConflictIn, DropProposed
<1>5. NoOpenConflict'
  BY DEF NoOpenConflict, DropProposed
<1>. QED  BY <1>1, <1>2, <1>3, <1>4, <1>5

\* A transaction that is rolled back leaves the committed tables alone.
LEMMA RollbackInv ==
  ASSUME NEW s \in Session, StoreInv, Rollback(s)
  PROVE  StoreInv'
<1>. USE DEF StoreInv, Rollback, EndSession
<1>1. StoreTypeOK'
  BY DEF StoreTypeOK
<1>2. UniqueIds'
  <2>1. \A t \in Session : OpenRows(t)' \subseteq OpenRows(t)
    BY DEF StoreTypeOK
  <2>2. nextId' = nextId /\ bookings' = bookings
    OBVIOUS
  <2>. HIDE DEF OpenRows, Rollback
  <2>. QED  BY <2>1, <2>2 DEF UniqueIds
<1>3. ExclusiveDeletes'
  BY DEF ExclusiveDeletes, StoreTypeOK
<1>4. NoConflictIn(bookings)'
  BY DEF NoConflictIn
<1>5. NoOpenConflict'
  <2>1. \A t \in Session : inserted'[t] \subseteq inserted[t]
    BY DEF StoreTypeOK
  <2>2. \A t \in Session : \A a \in inserted'[t] : deleted'[t] = deleted[t]
    BY DEF StoreTypeOK
  <2>. QED  BY <2>1, <2>2 DEF NoOpenConflict
<1>. QED  BY <1>1, <1>2, <1>3, <1>4, <1>5

\* A commit publishes rows that have passed, and no two rows then conflict.
LEMMA CommitInv ==
  ASSUME NEW s \in Session, StoreInv, Commit(s)
  PROVE  StoreInv'
<1>. USE DEF StoreInv, Commit, EndSession
<1>1. StoreTypeOK'
  BY DEF StoreTypeOK
<1>a. /\ bookings \subseteq Booking
      /\ \A t \in Session : inserted[t] \subseteq Booking
  BY DEF StoreTypeOK
<1>b. /\ \A t \in Session : inserted'[t] \subseteq inserted[t]
      /\ \A t \in Session : t # s => /\ inserted'[t] = inserted[t]
                                     /\ deleted'[t] = deleted[t]
      /\ inserted'[s] = {} /\ deleted'[s] = {}
  BY DEF StoreTypeOK
<1>2. UniqueIds'
  <2>1. \A t \in Session : OpenRows(t)' = (IF t = s THEN {} ELSE OpenRows(t))
    BY DEF StoreTypeOK
  <2>2. nextId' = nextId /\ bookings' \subseteq bookings \cup OpenRows(s)
    OBVIOUS
  <2>. HIDE DEF OpenRows, Commit
  <2>. QED  BY <2>1, <2>2 DEF UniqueIds
<1>3. ExclusiveDeletes'
  BY <1>b DEF ExclusiveDeletes
<1>4. NoConflictIn(bookings)'
  <2>1. SUFFICES ASSUME NEW a \in bookings', NEW b \in bookings', a # b
                 PROVE  ~Conflicts(a, b)
    BY DEF NoConflictIn
  <2>2. CASE a \in bookings /\ b \in bookings
    BY <2>1, <2>2 DEF NoConflictIn
  <2>3. CASE a \in inserted[s]
    BY <2>1, <2>3 DEF NoOpenConflict
  <2>4. CASE b \in inserted[s] /\ a \in bookings \ deleted[s]
    BY <1>a, <2>1, <2>4, ConflictsSymmetric DEF NoOpenConflict
  <2>. QED  BY <2>1, <2>2, <2>3, <2>4
<1>5. NoOpenConflict'
  <2>1. SUFFICES ASSUME NEW t \in Session, NEW a \in inserted'[t]
                 PROVE  /\ \A b \in bookings' \ deleted'[t] : ~Conflicts(a, b)
                        /\ \A u \in Session : \A b \in inserted'[u] : a # b => ~Conflicts(a, b)
    BY DEF NoOpenConflict
  <2>2. t # s /\ a \in inserted[t] /\ deleted'[t] = deleted[t]
    BY <1>b, <2>1
  <2>3. ASSUME NEW b \in bookings' \ deleted'[t]
        PROVE  ~Conflicts(a, b)
    <3>1. CASE b \in bookings
      BY <2>2, <2>3, <3>1 DEF NoOpenConflict
    <3>2. CASE b \in inserted[s]
      <4>1. a # b
        BY <2>2, <3>2 DEF UniqueIds
      <4>. QED  BY <2>2, <3>2, <4>1 DEF NoOpenConflict
    <3>. QED  BY <2>3, <3>1, <3>2
  <2>4. \A u \in Session : \A b \in inserted'[u] : a # b => ~Conflicts(a, b)
    BY <1>b, <2>2 DEF NoOpenConflict
  <2>. QED  BY <2>3, <2>4
<1>. QED  BY <1>1, <1>2, <1>3, <1>4, <1>5

\* Deleting a row that no session holds only takes claims away.
LEMMA DeleteRowInv ==
  ASSUME NEW id \in Nat, StoreInv, DeleteRow(id)
  PROVE  StoreInv'
<1>. USE DEF StoreInv, DeleteRow
<1>0. bookings' \subseteq bookings
  OBVIOUS
<1>1. StoreTypeOK'
  BY DEF StoreTypeOK
<1>2. UniqueIds'
  BY <1>0 DEF UniqueIds
<1>3. ExclusiveDeletes'
  BY DEF ExclusiveDeletes
<1>4. NoConflictIn(bookings)'
  BY <1>0 DEF NoConflictIn
<1>5. NoOpenConflict'
  BY <1>0 DEF NoOpenConflict
<1>. QED  BY <1>1, <1>2, <1>3, <1>4, <1>5

\* Nothing the store keeps has changed.
LEMMA StoreUnchanged == StoreInv /\ UNCHANGED storeVars => StoreInv'
BY DEF StoreInv, storeVars, StoreTypeOK, UniqueIds, ExclusiveDeletes,
       NoConflictIn, NoOpenConflict

HIDE DEF OpenRows

-----------------------------------------------------------------------------
\* The service.

\* What a request knows at each of its statements: which operation it runs,
\* that its role is known, and that its session holds one tuple at most.
PhaseInv ==
  \A r \in Request :
    /\ deleted[r] = {} /\ proposed[r] = {}
    /\ \A a, b \in scanning[r] : a = b
    /\ pc[r] \in Phase \ {"idle", "done"} => IsKnown(call[r].caller.role)
    /\ pc[r] \in {"get_room", "list", "compare", "insert", "foreign_key"} => call[r].op = "create"
    /\ pc[r] \in {"get_booking", "delete"} => call[r].op = "cancel"

\* Between GetBookingByID and DeleteByID the authorisation cannot go stale: if
\* the row is still there it is the row that was read, and no row to come will
\* have its id.
ClaimInv ==
  \A r \in Request : pc[r] = "delete" =>
    /\ call[r].id < nextId
    /\ \A b \in bookings : b.id = call[r].id => MayCancel(call[r].caller, b)
    /\ \A s \in Session : \A b \in OpenRows(s) : b.id # call[r].id

RequestTypeOK ==
  /\ call \in [Request -> Call]
  /\ pc \in [Request -> Phase]
  /\ listed \in [Request -> SUBSET Booking]
  /\ found \in [Request -> SUBSET Booking]
  /\ reply \in [Request -> Reply]
  /\ events \in Seq(Event)

RequestInv == RequestTypeOK /\ PhaseInv /\ ClaimInv

ServiceInv == StoreInv /\ RequestInv /\ contested \in [Request -> BOOLEAN] /\ made \subseteq Booking

-----------------------------------------------------------------------------

\* A role that ranks is one of the roles the table accepts.
LEMMA KnownRoleRanks ==
  ASSUME NEW role \in AnyRole, IsKnown(role)
  PROVE  role \in KnownRole
BY DEF AnyRole, KnownRole, IsKnown, Rank

\* The shape of the calls.
LEMMA CallShape ==
  ASSUME RequestTypeOK, NEW r \in Request
  PROVE  /\ r \in Session
         /\ call[r] \in CreateCall \cup CancelCall
         /\ call[r].op = "create" => call[r] \in CreateCall
         /\ call[r].op = "cancel" => call[r].id \in Nat
BY ServiceAssumption DEF RequestTypeOK, CreateCall, CancelCall

\* The row CreateBooking inserts is one the table accepts.
LEMMA NewBookingType ==
  ASSUME StoreTypeOK, RequestTypeOK, NEW r \in Request,
         call[r].op = "create", IsKnown(call[r].caller.role)
  PROVE  NewBooking(r) \in Booking /\ NewBooking(r).id = nextId
<1>1. call[r] \in CreateCall
  BY CallShape
<1>2. call[r].caller.role \in KnownRole
  BY <1>1, KnownRoleRanks DEF CreateCall, Caller
<1>. QED  BY <1>1, <1>2 DEF NewBooking, Booking, CreateCall, Caller, StoreTypeOK

\* Steps of r that only change what r knows, without a statement that writes.
LEMMA QuietStep ==
  ASSUME StoreInv, RequestInv, NEW r \in Request, UNCHANGED storeVars,
         \/ RefuseCaller(r) \/ RefuseRange(r) \/ Accept(r) \/ GetRoom(r) \/ ListRoom(r)
         \/ RejectListed(r) \/ GetBooking(r) \/ Publish(r)
  PROVE  RequestInv'
<1>. USE DEF RequestInv, At, Goto, Answer, Creating
<1>0. /\ UNCHANGED <<bookings, nextId, scanning, proposed, inserted, deleted>>
      /\ \A s \in Session : OpenRows(s)' = OpenRows(s)
      /\ bookings \subseteq Booking
  BY DEF storeVars, StoreInv, StoreTypeOK, OpenRows
<1>1. call' = call
  BY DEF RefuseCaller, RefuseRange, Accept, GetRoom, ListRoom, RejectListed, GetBooking, Publish
<1>a. call[r].op \in {"create", "cancel"}
  BY CallShape DEF CreateCall, CancelCall
<1>2. RequestTypeOK'
  <2>1. CASE RefuseCaller(r) \/ RefuseRange(r) \/ RejectListed(r)
    BY <2>1 DEF RequestTypeOK, RefuseCaller, RefuseRange, RejectListed, Phase, Reply
  <2>2. CASE Accept(r) \/ GetRoom(r)
    BY <2>2 DEF RequestTypeOK, Accept, GetRoom, Phase, Reply
  <2>3. CASE ListRoom(r)
    BY <2>3, <1>0 DEF RequestTypeOK, ListRoom, Phase, Reply
  <2>4. CASE GetBooking(r)
    BY <2>4, <1>0 DEF RequestTypeOK, GetBooking, Phase, Reply
  <2>5. CASE Publish(r)
    <3>1. \A b \in found[r] : [type |-> Outcome(r), id |-> b.id] \in Event
      BY DEF RequestTypeOK, Outcome, Event, Booking
    <3>2. \A e \in Event : Append(events, e) \in Seq(Event)
      BY DEF RequestTypeOK
    <3>3. events' \in Seq(Event)
      <4>1. CASE UNCHANGED events
        BY <4>1 DEF RequestTypeOK
      <4>2. CASE \E b \in found[r] :
                   events' = Append(events, [type |-> Outcome(r), id |-> b.id])
        BY <3>1, <3>2, <4>2
      <4>. QED  BY <2>5, <4>1, <4>2 DEF Publish
    <3>. QED  BY <2>5, <3>3 DEF RequestTypeOK, Publish, Outcome, Phase, Reply
  <2>. QED  BY <2>1, <2>2, <2>3, <2>4, <2>5
<1>3. PhaseInv'
  BY <1>0, <1>1, <1>a DEF PhaseInv, RequestTypeOK, Phase, RefuseCaller, RefuseRange, Accept,
     GetRoom, ListRoom, RejectListed, GetBooking, Publish
<1>4. ClaimInv'
  <2>1. ASSUME NEW q \in Request, pc'[q] = "delete", pc[q] = "delete"
        PROVE  /\ call[q].id < nextId
               /\ \A b \in bookings : b.id = call[q].id => MayCancel(call[q].caller, b)
               /\ \A s \in Session : \A b \in OpenRows(s) : b.id # call[q].id
    BY <2>1 DEF ClaimInv
  <2>2. ASSUME NEW q \in Request, pc'[q] = "delete", pc[q] # "delete"
        PROVE  /\ call[q].id < nextId
               /\ \A b \in bookings : b.id = call[q].id => MayCancel(call[q].caller, b)
               /\ \A s \in Session : \A b \in OpenRows(s) : b.id # call[q].id
    <3>1. q = r /\ GetBooking(r)
      BY <2>2 DEF RequestTypeOK, RefuseCaller, RefuseRange, Accept, GetRoom, ListRoom,
         RejectListed, GetBooking, Publish
    <3>2. PICK f \in bookings : f.id = call[r].id /\ MayCancel(call[r].caller, f)
      BY <2>2, <3>1 DEF RequestTypeOK, GetBooking
    <3>. QED  BY <3>1, <3>2 DEF StoreInv, UniqueIds
  <2>. QED  BY <1>0, <1>1, <2>1, <2>2 DEF ClaimInv, MayCancel
<1>. QED  BY <1>2, <1>3, <1>4

\* Rows are published or dropped and new ones get new ids: no claim is lost.
LEMMA ClaimKept ==
  ASSUME RequestTypeOK, PhaseInv, ClaimInv, call' = call, nextId \in Nat, nextId' \in Nat,
         nextId <= nextId',
         \A q \in Request : pc'[q] = "delete" => pc[q] = "delete",
         \A b \in bookings' : b \in bookings \/ \E s \in Session : b \in OpenRows(s),
         \A s \in Session : \A b \in OpenRows(s)' : b \in OpenRows(s) \/ b.id = nextId
  PROVE  ClaimInv'
<1>1. SUFFICES ASSUME NEW q \in Request, pc'[q] = "delete"
               PROVE  /\ call[q].id < nextId'
                      /\ \A b \in bookings' : b.id = call[q].id => MayCancel(call[q].caller, b)
                      /\ \A s \in Session : \A b \in OpenRows(s)' : b.id # call[q].id
  BY DEF ClaimInv, MayCancel
<1>2. /\ call[q].id < nextId
      /\ \A b \in bookings : b.id = call[q].id => MayCancel(call[q].caller, b)
      /\ \A s \in Session : \A b \in OpenRows(s) : b.id # call[q].id
  BY <1>1 DEF ClaimInv
<1>3. call[q].id \in Nat
  BY <1>1, CallShape DEF PhaseInv
<1>4. call[q].id < nextId'
  BY <1>2, <1>3
<1>. QED  BY <1>2, <1>3, <1>4

\* Steps of r that run a statement which writes, or end r's transaction.
LEMMA WriteStep ==
  ASSUME StoreInv, RequestInv, NEW r \in Request,
         \/ StartInsert(r) \/ FinishScan(r) \/ RejectInsert(r) \/ AbortDeadlocked(r)
         \/ CommitInsert(r) \/ RejectRoom(r) \/ LoseCommit(r) \/ Disconnect(r)
         \/ DeleteBooking(r) \/ LoseDelete(r)
  PROVE  StoreInv' /\ RequestInv'
<1>. USE DEF At, Goto, Answer
<1>0. /\ StoreTypeOK /\ RequestTypeOK /\ PhaseInv /\ ClaimInv
      /\ r \in Session
  BY CallShape DEF StoreInv, RequestInv
<1>a. nextId \in Nat /\ bookings \subseteq Booking
  BY <1>0 DEF StoreTypeOK
<1>1. CASE StartInsert(r)
  <2>1. NewBooking(r) \in Booking /\ NewBooking(r).id = nextId
    BY <1>0, <1>1, NewBookingType DEF StartInsert, PhaseInv, Phase
  <2>2. StoreInv'
    BY <1>0, <1>1, <2>1, WriteTupleInv DEF StartInsert
  <2>3. RequestTypeOK'
    BY <1>0, <1>1 DEF StartInsert, RequestTypeOK, Phase
  <2>4. PhaseInv'
    BY <1>0, <1>1 DEF StartInsert, WriteTuple, PhaseInv, RequestTypeOK, StoreTypeOK, Phase
  <2>5. ClaimInv'
    <3>1. \A s \in Session : \A b \in OpenRows(s)' : b \in OpenRows(s) \/ b.id = nextId
      BY <1>0, <1>1, <2>1 DEF StartInsert, WriteTuple, OpenRows, StoreTypeOK
    <3>2. /\ call' = call /\ bookings' = bookings /\ nextId' = nextId + 1
          /\ \A q \in Request : pc'[q] = "delete" => pc[q] = "delete"
      BY <1>0, <1>1 DEF StartInsert, WriteTuple, RequestTypeOK
    <3>. QED  BY <1>0, <1>a, <3>1, <3>2, ClaimKept
  <2>. QED  BY <2>2, <2>3, <2>4, <2>5 DEF RequestInv
<1>2. CASE FinishScan(r)
  <2>1. StoreInv'
    BY <1>0, <1>2, PassExclusionInv DEF FinishScan, PhaseInv
  <2>2. RequestTypeOK'
    BY <1>0, <1>2 DEF FinishScan, RequestTypeOK, Phase
  <2>3. PhaseInv'
    BY <1>0, <1>2 DEF FinishScan, PassExclusion, PhaseInv, RequestTypeOK, StoreTypeOK, Phase
  <2>4. ClaimInv'
    <3>1. \A s \in Session : OpenRows(s)' \subseteq OpenRows(s)
      BY <1>0, <1>2 DEF FinishScan, PassExclusion, OpenRows, StoreTypeOK
    <3>2. /\ call' = call /\ bookings' = bookings /\ nextId' = nextId
          /\ \A q \in Request : pc'[q] = "delete" => pc[q] = "delete"
      BY <1>0, <1>2 DEF FinishScan, PassExclusion, RequestTypeOK
    <3>. QED  BY <1>0, <1>a, <3>1, <3>2, ClaimKept
  <2>. QED  BY <2>1, <2>2, <2>3, <2>4 DEF RequestInv
<1>3. CASE \/ RejectInsert(r) \/ AbortDeadlocked(r) \/ RejectRoom(r) \/ Disconnect(r)
  <2>1. Rollback(r) /\ UNCHANGED <<call, listed, found, events>>
    BY <1>3 DEF RejectInsert, AbortDeadlocked, RejectRoom, Disconnect
  <2>2. StoreInv'
    BY <1>0, <2>1, RollbackInv
  <2>3. \E a \in Reply : /\ pc' = [pc EXCEPT ![r] = "done"]
                         /\ reply' = [reply EXCEPT ![r] = a]
    BY <1>3 DEF RejectInsert, AbortDeadlocked, RejectRoom, Disconnect, Reply
  <2>4. RequestTypeOK'
    BY <1>0, <2>1, <2>3 DEF RequestTypeOK, Phase
  <2>5. PhaseInv'
    BY <1>0, <2>1, <2>3 DEF Rollback, EndSession, PhaseInv, RequestTypeOK, StoreTypeOK, Phase
  <2>6. ClaimInv'
    <3>1. \A s \in Session : OpenRows(s)' \subseteq OpenRows(s)
      BY <1>0, <2>1 DEF Rollback, EndSession, OpenRows, StoreTypeOK
    <3>2. /\ call' = call /\ bookings' = bookings /\ nextId' = nextId
          /\ \A q \in Request : pc'[q] = "delete" => pc[q] = "delete"
      BY <1>0, <2>1, <2>3 DEF Rollback, RequestTypeOK
    <3>. QED  BY <1>0, <1>a, <3>1, <3>2, ClaimKept
  <2>. QED  BY <2>2, <2>4, <2>5, <2>6 DEF RequestInv
<1>4. CASE CommitInsert(r) \/ LoseCommit(r)
  <2>1. Commit(r) /\ UNCHANGED <<call, listed, events>>
    BY <1>4 DEF CommitInsert, LoseCommit
  <2>2. StoreInv'
    BY <1>0, <2>1, CommitInv
  <2>3. RequestTypeOK'
    <3>1. inserted[r] \in SUBSET Booking
      BY <1>0 DEF StoreTypeOK
    <3>. QED  BY <1>0, <1>4, <3>1 DEF CommitInsert, LoseCommit, RequestTypeOK, Phase, Reply
  <2>4. PhaseInv'
    <3>1. \E p \in {"publish", "done"} : pc' = [pc EXCEPT ![r] = p]
      BY <1>4 DEF CommitInsert, LoseCommit
    <3>2. pc[r] = "foreign_key"
      BY <1>4 DEF CommitInsert, LoseCommit
    <3>3. \A q \in Request : /\ scanning'[q] \subseteq scanning[q]
                            /\ proposed'[q] \subseteq proposed[q]
                            /\ deleted'[q] \subseteq deleted[q]
      BY <1>0, <2>1, ServiceAssumption DEF Commit, EndSession, StoreTypeOK
    <3>. QED  BY <1>0, <2>1, <3>1, <3>2, <3>3 DEF PhaseInv, RequestTypeOK, Phase
  <2>5. ClaimInv'
    <3>1. \A s \in Session : OpenRows(s)' \subseteq OpenRows(s)
      BY <1>0, <2>1 DEF Commit, EndSession, OpenRows, StoreTypeOK
    <3>2. bookings' \subseteq bookings \cup OpenRows(r)
      BY <2>1 DEF Commit, OpenRows
    <3>3. /\ call' = call /\ nextId' = nextId
          /\ \A q \in Request : pc'[q] = "delete" => pc[q] = "delete"
      BY <1>0, <1>4, <2>1 DEF CommitInsert, LoseCommit, Commit, RequestTypeOK
    <3>. QED  BY <1>0, <1>a, <3>1, <3>2, <3>3, ClaimKept
  <2>. QED  BY <2>2, <2>3, <2>4, <2>5 DEF RequestInv
<1>5. CASE DeleteBooking(r) \/ LoseDelete(r)
  <2>1. DeleteRow(call[r].id) /\ UNCHANGED <<call, listed, found, events>>
    BY <1>5 DEF DeleteBooking, LoseDelete
  <2>2. call[r].id \in Nat
    BY <1>0, <1>5, CallShape DEF DeleteBooking, LoseDelete, PhaseInv
  <2>3. StoreInv'
    BY <2>1, <2>2, DeleteRowInv
  <2>4. RequestTypeOK'
    BY <1>0, <1>5 DEF DeleteBooking, LoseDelete, RequestTypeOK, Phase, Reply
  <2>5. PhaseInv'
    BY <1>0, <1>5 DEF DeleteBooking, LoseDelete, DeleteRow, PhaseInv, RequestTypeOK, Phase
  <2>6. ClaimInv'
    <3>1. \A s \in Session : OpenRows(s)' = OpenRows(s)
      BY <2>1 DEF DeleteRow, OpenRows
    <3>2. bookings' \subseteq bookings /\ nextId' = nextId
      BY <2>1 DEF DeleteRow
    <3>3. \A q \in Request : pc'[q] = "delete" => pc[q] = "delete"
      BY <1>0, <1>5 DEF DeleteBooking, LoseDelete, RequestTypeOK
    <3>. QED  BY <1>0, <1>a, <2>1, <3>1, <3>2, <3>3, ClaimKept
  <2>. QED  BY <2>3, <2>4, <2>5, <2>6 DEF RequestInv
<1>. QED  BY <1>1, <1>2, <1>3, <1>4, <1>5

\* One step of a request, whatever it is.
LEMMA RequestStep ==
  ASSUME StoreInv, RequestInv, NEW r \in Request, Step(r) \/ Disconnect(r)
  PROVE  StoreInv' /\ RequestInv'
<1>1. CASE \/ RefuseCaller(r) \/ RefuseRange(r) \/ Accept(r) \/ GetRoom(r) \/ ListRoom(r)
           \/ RejectListed(r) \/ GetBooking(r) \/ Publish(r)
  <2>1. UNCHANGED storeVars
    BY <1>1 DEF RefuseCaller, RefuseRange, Accept, GetRoom, ListRoom, RejectListed,
       GetBooking, Publish
  <2>. QED  BY <1>1, <2>1, QuietStep, StoreUnchanged
<1>2. CASE \/ StartInsert(r) \/ FinishScan(r) \/ RejectInsert(r) \/ AbortDeadlocked(r)
           \/ CommitInsert(r) \/ RejectRoom(r) \/ LoseCommit(r) \/ Disconnect(r)
           \/ DeleteBooking(r) \/ LoseDelete(r)
  BY <1>2, WriteStep
<1>. QED  BY <1>1, <1>2 DEF Step, Create, Cancel

\* Nothing a request keeps has changed.
LEMMA RequestUnchanged ==
  ASSUME RequestInv, UNCHANGED <<storeVars, requestVars>>
  PROVE  RequestInv'
<1>1. \A s \in Session : OpenRows(s)' = OpenRows(s)
  BY DEF storeVars, OpenRows
<1>2. UNCHANGED <<call, pc, listed, found, reply, events>>
  BY DEF requestVars
<1>3. UNCHANGED <<bookings, nextId, scanning, proposed, deleted>>
  BY DEF storeVars
<1>4. RequestTypeOK'
  BY <1>2 DEF RequestInv, RequestTypeOK
<1>5. PhaseInv'
  BY <1>2, <1>3 DEF RequestInv, PhaseInv
<1>6. ClaimInv'
  BY <1>1, <1>2, <1>3 DEF RequestInv, ClaimInv, MayCancel
<1>. QED  BY <1>4, <1>5, <1>6 DEF RequestInv

\* The inductive invariant holds initially.
LEMMA ServiceInitInv == Init => ServiceInv
<1>1. SUFFICES ASSUME Init PROVE ServiceInv
  OBVIOUS
<1>2. StoreInv
  BY <1>1, StoreInitInv DEF Init
<1>3. RequestTypeOK
  BY <1>1 DEF Init, RequestTypeOK, Phase, Reply
<1>4. PhaseInv
  BY <1>1, ServiceAssumption DEF Init, StoreInit, PhaseInv
<1>5. ClaimInv
  BY <1>1 DEF Init, ClaimInv
<1>6. made \subseteq Booking
  BY <1>1, <1>2 DEF Init, StoreInv, StoreTypeOK
<1>. QED  BY <1>1, <1>2, <1>3, <1>4, <1>5, <1>6 DEF Init, ServiceInv, RequestInv

\* Every step of a request, and every stuttering step, keeps it.
LEMMA ServiceNextInv == ServiceInv /\ [Next]_vars => ServiceInv'
<1>1. SUFFICES ASSUME ServiceInv, [Next]_vars PROVE ServiceInv'
  OBVIOUS
<1>2. CASE Next
  <2>1. PICK r \in Request : Step(r) \/ Disconnect(r)
    BY <1>2 DEF Next
  <2>2. StoreInv' /\ RequestInv'
    BY <1>1, <2>1, RequestStep DEF ServiceInv
  <2>3. contested' \in [Request -> BOOLEAN]
    BY <1>1, <1>2 DEF Next, Histories, Witness, ServiceInv
  <2>4. made' \subseteq Booking
    BY <1>1, <1>2, <2>2 DEF Next, Histories, Remember, ServiceInv, StoreInv, StoreTypeOK
  <2>. QED  BY <2>2, <2>3, <2>4 DEF ServiceInv
<1>3. CASE UNCHANGED vars
  <2>1. UNCHANGED <<storeVars, requestVars>> /\ UNCHANGED <<contested, made>>
    BY <1>3 DEF vars
  <2>. QED  BY <1>1, <2>1, StoreUnchanged, RequestUnchanged DEF ServiceInv
<1>. QED  BY <1>1, <1>2, <1>3

-----------------------------------------------------------------------------

\* All variables of the service keep their types.
THEOREM TypeCorrect == Spec => []TypeOK
<1>1. ServiceInv => TypeOK
  BY DEF ServiceInv, StoreInv, RequestInv, RequestTypeOK, TypeOK
<1>. QED  BY <1>1, ServiceInitInv, ServiceNextInv, PTL DEF Spec

\* However concurrent CreateBooking calls interleave, no two committed bookings
\* of a room overlap.
THEOREM NoDoubleBookings == Spec => []NoDoubleBooking
<1>1. ServiceInv => NoDoubleBooking
  BY DEF ServiceInv, StoreInv, NoDoubleBooking
<1>. QED  BY <1>1, ServiceInitInv, ServiceNextInv, PTL DEF Spec

\* A step of a request deletes a booking only by a cancel call that is entitled
\* to it at that very step.
LEMMA DeletionIsAuthorised ==
  ASSUME StoreInv, RequestInv, NEW r \in Request, Step(r) \/ Disconnect(r),
         NEW b \in bookings \ bookings'
  PROVE  Cancels(r, b)
<1>. USE DEF At, Goto, Answer, Cancels
<1>1. r \in Session /\ deleted[r] = {}
  BY CallShape DEF RequestInv, PhaseInv
<1>2. DeleteBooking(r) \/ LoseDelete(r)
  BY <1>1 DEF Step, Create, Cancel, RefuseCaller, RefuseRange, Accept, GetRoom, ListRoom,
     RejectListed, GetBooking, Publish, StartInsert, FinishScan, RejectInsert, AbortDeadlocked,
     CommitInsert, RejectRoom, LoseCommit, Disconnect, WriteTuple, PassExclusion, Rollback,
     Commit, storeVars
<1>3. pc[r] = "delete" /\ b.id = call[r].id
  BY <1>2 DEF DeleteBooking, LoseDelete, DeleteRow
<1>4. pc'[r] # "delete"
  BY <1>2 DEF DeleteBooking, LoseDelete, RequestInv, RequestTypeOK
<1>. QED  BY <1>3, <1>4 DEF RequestInv, ClaimInv

\* CancelBooking authorises against a row it has read in an earlier statement;
\* no deletion is unauthorised all the same.
THEOREM CancelsAreAuthorised == Spec => CancelAuthorised
<1>1. ServiceInv /\ [Next]_vars =>
        [\A b \in bookings \ bookings' : \E r \in Request : Cancels(r, b)]_vars
  <2>1. SUFFICES ASSUME ServiceInv, Next, NEW b \in bookings \ bookings'
                 PROVE  \E r \in Request : Cancels(r, b)
    OBVIOUS
  <2>2. PICK r \in Request : Step(r) \/ Disconnect(r)
    BY <2>1 DEF Next
  <2>. QED  BY <2>1, <2>2, DeletionIsAuthorised DEF ServiceInv
<1>. QED  BY <1>1, ServiceInitInv, ServiceNextInv, PTL DEF Spec, CancelAuthorised

-----------------------------------------------------------------------------
(***************************************************************************)
(* What the answers and the events rest on.                                *)
(***************************************************************************)

\* A request holds a tuple only while its INSERT is scanning or its foreign key
\* is checked, and the tuple is the row it asks for.
TupleInv ==
  \A r \in Request :
    /\ \A b \in scanning[r] \cup inserted[r] : Asked(r, b)
    /\ IF pc[r] = "insert" THEN \E b \in scanning[r] : scanning[r] = {b} ELSE scanning[r] = {}
    /\ IF pc[r] = "foreign_key" THEN \E b \in inserted[r] : inserted[r] = {b} ELSE inserted[r] = {}
    /\ pc[r] = "compare" => \A b \in listed[r] : b.room = call[r].room

\* A request that answers "conflict", or is about to, has met a conflict.
ConflictInv ==
  \A r \in Request :
    (\/ reply[r] = "conflict"
     \/ pc[r] = "compare" /\ \E b \in listed[r] : Overlaps(call[r], b))
    => contested[r]

\* The fate of the row `id` is known: no transaction has it open, none will.
Settled(id) == id < nextId /\ \A s \in Session : \A b \in OpenRows(s) : b.id # id
Gone(id)    == Settled(id) /\ \A b \in bookings : b.id # id

Announcement(r, b) == [type |-> Outcome(r), id |-> b.id]

\* An event is about a settled row, and a cancellation about one that is gone.
EventsSettled ==
  \A i \in DOMAIN events :
    Settled(events[i].id) /\ (events[i].type = "cancelled" => Gone(events[i].id))

EventsDiffer == \A i, j \in DOMAIN events : i # j => events[i] # events[j]

\* What r is about to report of b is true, and neither reported yet nor about
\* to be reported by another request: r itself has inserted or deleted b.
Reportable(r, b) ==
  /\ Settled(b.id) /\ (~Creating(r) => Gone(b.id))
  /\ \A i \in DOMAIN events : events[i] # Announcement(r, b)
  /\ \A q \in Request \ {r} : pc[q] = "publish" =>
       \A c \in found[q] : Announcement(r, b) # Announcement(q, c)

ReportInv ==
  \A r \in Request :
    /\ pc[r] = "delete" => \A b \in found[r] : b.id = call[r].id
    /\ pc[r] = "publish" => \A b \in found[r] : Reportable(r, b)

EventInv == EventsSettled /\ EventsDiffer /\ ReportInv

\* Rows that were not there at the start have later ids.
LaterRows ==
  /\ nextId >= FirstId
  /\ \A s \in Session : \A b \in OpenRows(s) : b.id >= FirstId

\* A row that was once committed and is what r has made, or may take away.
Backed(r, b) ==
  /\ b \in made
  /\ IF Creating(r) THEN b \notin InitialBookings /\ Asked(r, b)
     ELSE call[r].id = b.id /\ MayCancel(call[r].caller, b)

\* Every event, and every row that one is about to be of, is backed.
OriginInv ==
  /\ LaterRows
  /\ bookings \subseteq made
  /\ \A i \in DOMAIN events :
       \E r \in Request, b \in made : events[i] = Announcement(r, b) /\ Backed(r, b)
  /\ \A r \in Request : pc[r] \in {"delete", "publish"} => \A b \in found[r] : Backed(r, b)

-----------------------------------------------------------------------------

\* A step of r leaves alone what the other requests know and hold.
LEMMA OthersKept ==
  ASSUME StoreInv, RequestInv, NEW r \in Request, Step(r) \/ Disconnect(r)
  PROVE  /\ call' = call
         /\ \A q \in Request \ {r} :
              /\ pc'[q] = pc[q] /\ reply'[q] = reply[q]
              /\ listed'[q] = listed[q] /\ found'[q] = found[q]
              /\ scanning'[q] = scanning[q] /\ inserted'[q] = inserted[q]
<1>. USE ServiceAssumption DEF StoreInv, StoreTypeOK, RequestInv, RequestTypeOK, Goto, Answer
<1>1. call' = call
  BY DEF Step, Create, Cancel, RefuseCaller, RefuseRange, Accept, GetRoom, ListRoom,
     RejectListed, GetBooking, Publish, StartInsert, FinishScan, RejectInsert, AbortDeadlocked,
     CommitInsert, RejectRoom, LoseCommit, Disconnect, DeleteBooking, LoseDelete
<1>2. ASSUME NEW q \in Request \ {r}
      PROVE  /\ pc'[q] = pc[q] /\ reply'[q] = reply[q]
             /\ listed'[q] = listed[q] /\ found'[q] = found[q]
  BY DEF Step, Create, Cancel, RefuseCaller, RefuseRange, Accept, GetRoom, ListRoom,
     RejectListed, GetBooking, Publish, StartInsert, FinishScan, RejectInsert, AbortDeadlocked,
     CommitInsert, RejectRoom, LoseCommit, Disconnect, DeleteBooking, LoseDelete
<1>3. ASSUME NEW q \in Request \ {r}
      PROVE  scanning'[q] = scanning[q] /\ inserted'[q] = inserted[q]
  <2>1. CASE UNCHANGED <<scanning, inserted>>
    BY <2>1
  <2>2. CASE StartInsert(r) \/ FinishScan(r)
    BY <2>2 DEF StartInsert, FinishScan, WriteTuple, PassExclusion
  <2>3. CASE \/ RejectInsert(r) \/ AbortDeadlocked(r) \/ RejectRoom(r) \/ Disconnect(r)
             \/ CommitInsert(r) \/ LoseCommit(r)
    BY <2>3 DEF RejectInsert, AbortDeadlocked, RejectRoom, Disconnect, CommitInsert, LoseCommit,
       Rollback, Commit, EndSession
  <2>. QED
    BY <2>1, <2>2, <2>3 DEF Step, Create, Cancel, RefuseCaller, RefuseRange, Accept, GetRoom,
       ListRoom, RejectListed, GetBooking, Publish, DeleteBooking, LoseDelete, DeleteRow, storeVars
<1>. QED  BY <1>1, <1>2, <1>3

\* Only a session that waits can be on a circle of waits.
LEMMA DeadlockedWaits ==
  ASSUME NEW s \in Session, InDeadlock(s)
  PROVE  scanning[s] \cup proposed[s] \cup inserted[s] # {}
<1>1. WaitsFor(s) # {}
  <2>1. {} \in SUBSET Session
    OBVIOUS
  <2>. QED  BY <2>1 DEF InDeadlock
<1>. QED  BY <1>1 DEF WaitsFor

\* The tuple a request holds stays the one it asks for.
LEMMA TupleKept ==
  ASSUME StoreInv, RequestInv, TupleInv, NEW r \in Request, Step(r) \/ Disconnect(r)
  PROVE  TupleInv'
<1>. USE DEF At, Goto, Answer, Asked
<1>0. /\ r \in Session /\ call' = call
      /\ StoreTypeOK /\ RequestTypeOK
  BY CallShape, OthersKept DEF StoreInv, RequestInv
<1>1. SUFFICES
        /\ \A b \in scanning'[r] \cup inserted'[r] : Asked(r, b)
        /\ IF pc'[r] = "insert" THEN \E b \in scanning'[r] : scanning'[r] = {b} ELSE scanning'[r] = {}
        /\ IF pc'[r] = "foreign_key" THEN \E b \in inserted'[r] : inserted'[r] = {b} ELSE inserted'[r] = {}
        /\ pc'[r] = "compare" => \A b \in listed'[r] : b.room = call[r].room
  BY <1>0, OthersKept DEF TupleInv
<1>2. CASE \/ RefuseCaller(r) \/ RefuseRange(r) \/ Accept(r) \/ GetRoom(r) \/ ListRoom(r)
           \/ RejectListed(r) \/ GetBooking(r) \/ Publish(r) \/ DeleteBooking(r) \/ LoseDelete(r)
  <2>1. UNCHANGED <<scanning, inserted>>
    BY <1>2 DEF RefuseCaller, RefuseRange, Accept, GetRoom, ListRoom, RejectListed, GetBooking,
       Publish, DeleteBooking, LoseDelete, DeleteRow, storeVars
  <2>2. pc[r] \notin {"insert", "foreign_key"} /\ pc'[r] \notin {"insert", "foreign_key"}
    BY <1>0, <1>2 DEF RequestTypeOK, RefuseCaller, RefuseRange, Accept, GetRoom, ListRoom,
       RejectListed, GetBooking, Publish, DeleteBooking, LoseDelete
  <2>3. ASSUME pc'[r] = "compare" PROVE \A b \in listed'[r] : b.room = call[r].room
    <3>1. ListRoom(r)
      BY <1>0, <1>2, <2>3 DEF RequestTypeOK, RefuseCaller, RefuseRange, Accept, GetRoom, ListRoom,
         RejectListed, GetBooking, Publish, DeleteBooking, LoseDelete
    <3>. QED  BY <1>0, <3>1 DEF ListRoom, RequestTypeOK
  <2>. QED  BY <2>1, <2>2, <2>3 DEF TupleInv
<1>3. CASE StartInsert(r)
  <2>1. scanning' = [scanning EXCEPT ![r] = {NewBooking(r)}] /\ inserted' = inserted
    BY <1>3 DEF StartInsert, WriteTuple
  <2>2. pc[r] = "compare" /\ pc'[r] = "insert"
    BY <1>0, <1>3 DEF StartInsert, RequestTypeOK
  <2>3. scanning'[r] = {NewBooking(r)} /\ inserted'[r] = {}
    BY <1>0, <2>1, <2>2 DEF StoreTypeOK, TupleInv
  <2>4. Asked(r, NewBooking(r))
    BY DEF NewBooking
  <2>. HIDE DEF Asked
  <2>. QED  BY <2>2, <2>3, <2>4
<1>4. CASE FinishScan(r)
  <2>1. /\ scanning' = [scanning EXCEPT ![r] = {}]
        /\ inserted' = [inserted EXCEPT ![r] = @ \cup scanning[r]]
    BY <1>4 DEF FinishScan, PassExclusion
  <2>2. pc[r] = "insert" /\ pc'[r] = "foreign_key"
    BY <1>0, <1>4 DEF FinishScan, RequestTypeOK
  <2>3. scanning'[r] = {} /\ inserted'[r] = scanning[r]
    BY <1>0, <2>1, <2>2 DEF StoreTypeOK, TupleInv
  <2>4. \E b \in scanning[r] : scanning[r] = {b}
    BY <2>2 DEF TupleInv
  <2>5. \A b \in scanning[r] : Asked(r, b)
    BY DEF TupleInv
  <2>. HIDE DEF Asked
  <2>. QED  BY <2>2, <2>3, <2>4, <2>5
<1>5. CASE \/ RejectInsert(r) \/ AbortDeadlocked(r) \/ RejectRoom(r) \/ Disconnect(r)
           \/ CommitInsert(r) \/ LoseCommit(r)
  <2>1. scanning' = [scanning EXCEPT ![r] = {}] /\ inserted' = [inserted EXCEPT ![r] = {}]
    BY <1>5 DEF RejectInsert, AbortDeadlocked, RejectRoom, Disconnect, CommitInsert, LoseCommit,
       Rollback, Commit, EndSession
  <2>2. scanning'[r] = {} /\ inserted'[r] = {}
    BY <1>0, <2>1 DEF StoreTypeOK
  <2>3. pc'[r] \in {"publish", "done"}
    BY <1>0, <1>5 DEF RejectInsert, AbortDeadlocked, RejectRoom, Disconnect, CommitInsert,
       LoseCommit, RequestTypeOK
  <2>. QED  BY <2>2, <2>3
<1>. QED  BY <1>2, <1>3, <1>4, <1>5 DEF Step, Create, Cancel

\* A request that is turned down for a conflict has met it in this very step.
LEMMA ConflictMet ==
  ASSUME StoreInv, RequestInv, TupleInv, NEW r \in Request, Step(r) \/ Disconnect(r),
         \/ pc'[r] = "compare" /\ \E b \in listed'[r] : Overlaps(call[r], b)
         \/ reply'[r] = "conflict" /\ reply[r] # "conflict" /\ pc[r] # "compare"
  PROVE  /\ pc[r] # "done" /\ pc'[r] # "idle" /\ bookings' = bookings
         /\ \E c \in bookings : ConflictsWith(r, c)
<1>. USE DEF At, Goto, Answer
<1>0. r \in Session /\ RequestTypeOK /\ StoreTypeOK /\ PhaseInv
  BY CallShape DEF StoreInv, RequestInv
<1>1. ListRoom(r) \/ RejectInsert(r)
  BY <1>0 DEF RequestTypeOK, Step, Create, Cancel, RefuseCaller, RefuseRange, Accept, GetRoom,
     ListRoom, RejectListed, GetBooking, Publish, StartInsert, FinishScan, RejectInsert,
     AbortDeadlocked, CommitInsert, RejectRoom, LoseCommit, Disconnect, DeleteBooking, LoseDelete,
     Outcome
<1>2. CASE ListRoom(r)
  <2>1. pc[r] = "list" /\ pc'[r] = "compare" /\ bookings' = bookings /\ Creating(r)
    BY <1>0, <1>2 DEF ListRoom, RequestTypeOK, storeVars, PhaseInv, Creating
  <2>2. reply' = reply
    BY <1>2 DEF ListRoom
  <2>3. listed'[r] = {b \in bookings : b.room = call[r].room}
    BY <1>0, <1>2 DEF ListRoom, RequestTypeOK
  <2>. QED  BY <2>1, <2>2, <2>3 DEF ConflictsWith, Conflicts
<1>3. CASE RejectInsert(r)
  <2>1. pc[r] = "insert" /\ pc'[r] = "done" /\ bookings' = bookings /\ Creating(r)
    BY <1>0, <1>3 DEF RejectInsert, Rollback, RequestTypeOK, PhaseInv, Creating
  <2>2. PICK b \in scanning[r] : Excluded(r, b)
    BY <1>3 DEF RejectInsert
  <2>3. inserted[r] = {} /\ Asked(r, b)
    BY <2>1 DEF TupleInv
  <2>4. PICK c \in bookings : Conflicts(b, c)
    BY <2>2, <2>3 DEF Excluded
  <2>5. Conflicts(call[r], c)
    BY <2>3, <2>4 DEF Asked, Conflicts, Overlaps
  <2>. QED  BY <2>1, <2>4, <2>5 DEF ConflictsWith
<1>. QED  BY <1>1, <1>2, <1>3

\* No request is told of a conflict that was not there.
LEMMA ConflictKept ==
  ASSUME StoreInv, RequestInv, TupleInv, ConflictInv, contested \in [Request -> BOOLEAN],
         NEW r \in Request, Step(r) \/ Disconnect(r), Witness
  PROVE  ConflictInv'
<1>1. call' = call
  BY OthersKept
<1>2. \A q \in Request : contested[q] => contested'[q]
  BY DEF Witness
<1>3. ASSUME NEW q \in Request \ {r},
             \/ reply'[q] = "conflict"
             \/ pc'[q] = "compare" /\ \E b \in listed'[q] : Overlaps(call[q], b)
      PROVE  contested'[q]
  BY <1>2, <1>3, OthersKept DEF ConflictInv
<1>4. ASSUME \/ reply'[r] = "conflict"
             \/ pc'[r] = "compare" /\ \E b \in listed'[r] : Overlaps(call[r], b)
      PROVE  contested'[r]
  <2>1. CASE reply[r] = "conflict"
    BY <1>2, <2>1 DEF ConflictInv
  <2>2. CASE pc[r] = "compare" /\ reply'[r] = "conflict" /\ reply[r] # "conflict"
    <3>1. RejectListed(r)
      BY <2>2 DEF Step, Create, Cancel, RefuseCaller, RefuseRange, Accept, GetRoom,
         ListRoom, RejectListed, GetBooking, Publish, StartInsert, FinishScan, RejectInsert,
         AbortDeadlocked, CommitInsert, RejectRoom, LoseCommit, Disconnect, DeleteBooking,
         LoseDelete, At, Goto, Answer, RequestInv, RequestTypeOK
    <3>. QED  BY <1>2, <2>2, <3>1 DEF ConflictInv, RejectListed
  <2>3. CASE ~(pc[r] = "compare" /\ reply'[r] = "conflict") /\ reply[r] # "conflict"
    <3>1. /\ pc[r] # "done" /\ pc'[r] # "idle" /\ bookings' = bookings
          /\ \E c \in bookings : ConflictsWith(r, c)
      BY <1>4, <2>3, ConflictMet
    <3>2. \E c \in bookings' : ConflictsWith(r, c)'
      BY <1>1, <3>1 DEF ConflictsWith, Creating
    <3>. QED  BY <3>1, <3>2 DEF Witness, ConflictsWith, Creating
  <2>. QED  BY <2>1, <2>2, <2>3
<1>. QED  BY <1>1, <1>3, <1>4 DEF ConflictInv

-----------------------------------------------------------------------------

\* What no step of a session does: give an id again, or bring a row back.
Fresh ==
  /\ nextId \in Nat /\ nextId' \in Nat /\ nextId <= nextId'
  /\ \A b \in bookings' : b \in bookings \/ \E s \in Session : b \in OpenRows(s)
  /\ \A s \in Session : \A b \in OpenRows(s)' : b \in OpenRows(s) \/ b.id = nextId

\* Steps of requests keep to it.
LEMMA RequestFresh ==
  ASSUME StoreInv, RequestInv, NEW r \in Request, Step(r) \/ Disconnect(r)
  PROVE  Fresh
<1>0. /\ r \in Session /\ nextId \in Nat
      /\ StoreTypeOK /\ RequestTypeOK /\ PhaseInv
  BY CallShape DEF StoreInv, StoreTypeOK, RequestInv
<1>1. CASE UNCHANGED storeVars
  BY <1>0, <1>1 DEF Fresh, OpenRows, storeVars
<1>2. CASE StartInsert(r)
  <2>1. NewBooking(r).id = nextId
    BY DEF NewBooking
  <2>2. /\ nextId' = nextId + 1 /\ bookings' = bookings
        /\ \A s \in Session : \A b \in OpenRows(s)' : b \in OpenRows(s) \/ b.id = nextId
    BY <1>0, <1>2, <2>1 DEF StartInsert, WriteTuple, OpenRows, StoreTypeOK
  <2>. QED  BY <1>0, <2>2 DEF Fresh
<1>3. CASE FinishScan(r)
  <2>1. \A s \in Session : OpenRows(s)' \subseteq OpenRows(s)
    BY <1>0, <1>3 DEF FinishScan, PassExclusion, OpenRows, StoreTypeOK
  <2>2. bookings' = bookings /\ nextId' = nextId
    BY <1>3 DEF FinishScan, PassExclusion
  <2>. QED  BY <1>0, <2>1, <2>2 DEF Fresh
<1>4. CASE Rollback(r)
  <2>1. \A s \in Session : OpenRows(s)' \subseteq OpenRows(s)
    BY <1>0, <1>4 DEF Rollback, EndSession, OpenRows, StoreTypeOK
  <2>2. bookings' = bookings /\ nextId' = nextId
    BY <1>4 DEF Rollback
  <2>. QED  BY <1>0, <2>1, <2>2 DEF Fresh
<1>5. CASE Commit(r)
  <2>1. \A s \in Session : OpenRows(s)' \subseteq OpenRows(s)
    BY <1>0, <1>5 DEF Commit, EndSession, OpenRows, StoreTypeOK
  <2>2. bookings' \subseteq bookings \cup OpenRows(r) /\ nextId' = nextId
    BY <1>5 DEF Commit, OpenRows
  <2>. QED  BY <1>0, <2>1, <2>2 DEF Fresh
<1>6. CASE DeleteRow(call[r].id)
  BY <1>0, <1>6 DEF Fresh, DeleteRow, OpenRows
<1>. QED
  BY <1>1, <1>2, <1>3, <1>4, <1>5, <1>6 DEF Step, Create, Cancel, RefuseCaller, RefuseRange, Accept,
     GetRoom, ListRoom, RejectListed, GetBooking, Publish, RejectInsert, AbortDeadlocked,
     CommitInsert, RejectRoom, LoseCommit, Disconnect, DeleteBooking, LoseDelete

\* What is settled stays settled, and what is gone stays gone.
LEMMA SettledKept ==
  ASSUME Fresh, NEW id \in Nat
  PROVE  /\ Settled(id) => Settled(id)'
         /\ Gone(id) => Gone(id)'
<1>1. Settled(id) => Settled(id)'
  BY DEF Fresh, Settled
<1>. QED  BY <1>1 DEF Fresh, Settled, Gone

\* A commit settles the rows it publishes.
LEMMA CommitSettles ==
  ASSUME StoreInv, NEW s \in Session, Commit(s), NEW b \in inserted[s]
  PROVE  Settled(b.id)'
<1>1. StoreInv'
  BY CommitInv
<1>2. b \in bookings'
  BY DEF Commit
<1>. QED  BY <1>1, <1>2 DEF StoreInv, UniqueIds, Settled

\* The ids of rows and events are numbers.
LEMMA IdsAreNumbers ==
  ASSUME StoreTypeOK, RequestTypeOK
  PROVE  /\ \A b \in bookings : b.id \in Nat
         /\ \A s \in Session : \A b \in OpenRows(s) : b.id \in Nat
         /\ \A r \in Request : \A b \in found[r] : b.id \in Nat
         /\ \A i \in DOMAIN events : events[i] \in Event /\ events[i].id \in Nat
<1>1. \A b \in Booking : b.id \in Nat
  BY DEF Booking
<1>2. \A s \in Session : OpenRows(s) \subseteq Booking
  BY DEF StoreTypeOK, OpenRows
<1>3. \A r \in Request : found[r] \subseteq Booking
  BY DEF RequestTypeOK
<1>4. ASSUME NEW i \in DOMAIN events PROVE events[i] \in Event /\ events[i].id \in Nat
  <2>1. events[i] \in Event
    BY DEF RequestTypeOK
  <2>. QED  BY <2>1 DEF Event
<1>. QED  BY <1>1, <1>2, <1>3, <1>4 DEF StoreTypeOK

-----------------------------------------------------------------------------

\* Steps that neither announce anything nor have something new to announce.
LEMMA EventsUntouched ==
  ASSUME StoreTypeOK, RequestTypeOK, EventInv, Fresh, UNCHANGED <<call, events>>,
         \A q \in Request : pc'[q] = "publish" => pc[q] = "publish" /\ found'[q] = found[q],
         \A q \in Request : pc'[q] = "delete" => \A b \in found'[q] : b.id = call[q].id
  PROVE  EventInv'
<1>1. EventsSettled'
  BY IdsAreNumbers, SettledKept DEF EventInv, EventsSettled
<1>2. EventsDiffer'
  BY DEF EventInv, EventsDiffer
<1>3. ASSUME NEW q \in Request, pc'[q] = "publish", NEW b \in found'[q]
      PROVE  Reportable(q, b)'
  <2>1. pc[q] = "publish" /\ b \in found[q] /\ b.id \in Nat
    BY <1>3, IdsAreNumbers
  <2>2. Reportable(q, b)
    BY <2>1 DEF EventInv, ReportInv
  <2>3. Settled(b.id)' /\ (~Creating(q)' => Gone(b.id)')
    BY <2>1, <2>2, SettledKept DEF Reportable, Creating
  <2>. QED  BY <2>2, <2>3 DEF Reportable, Announcement, Outcome, Creating
<1>4. ReportInv'
  BY <1>3 DEF ReportInv
<1>. QED  BY <1>1, <1>2, <1>4 DEF EventInv

\* A request has something to announce: r, about the rows found'[r].
LEMMA EventsAwaited ==
  ASSUME StoreTypeOK, RequestTypeOK, EventInv, Fresh, UNCHANGED <<call, events>>,
         NEW r \in Request, pc'[r] = "publish",
         \A q \in Request \ {r} : pc'[q] = pc[q] /\ found'[q] = found[q],
         \A b \in found'[r] :
           /\ Settled(b.id)' /\ (~Creating(r) => Gone(b.id)')
           /\ \A i \in DOMAIN events : events[i] # Announcement(r, b)
           /\ \A q \in Request \ {r} : pc[q] = "publish" =>
                \A c \in found[q] : Announcement(r, b) # Announcement(q, c)
  PROVE  EventInv'
<1>1. EventsSettled'
  BY IdsAreNumbers, SettledKept DEF EventInv, EventsSettled
<1>2. EventsDiffer'
  BY DEF EventInv, EventsDiffer
<1>a. \A q \in Request : \A b : Announcement(q, b)' = Announcement(q, b) /\ Creating(q)' = Creating(q)
  BY DEF Announcement, Outcome, Creating
<1>3. ASSUME NEW b \in found'[r] PROVE Reportable(r, b)'
  BY <1>3, <1>a DEF Reportable
<1>4. ASSUME NEW q \in Request \ {r}, pc'[q] = "publish", NEW b \in found'[q]
      PROVE  Reportable(q, b)'
  <2>1. pc[q] = "publish" /\ b \in found[q] /\ b.id \in Nat
    BY <1>4, IdsAreNumbers
  <2>2. Reportable(q, b)
    BY <2>1 DEF EventInv, ReportInv
  <2>3. Settled(b.id)' /\ (~Creating(q)' => Gone(b.id)')
    BY <1>a, <2>1, <2>2, SettledKept DEF Reportable
  <2>4. \A c \in found'[r] : Announcement(q, b) # Announcement(r, c)
    BY <2>1
  <2>. QED  BY <1>a, <2>2, <2>3, <2>4 DEF Reportable
<1>5. ReportInv'
  BY <1>3, <1>4 DEF ReportInv, EventInv
<1>. QED  BY <1>1, <1>2, <1>5 DEF EventInv

\* The event of a request that has something to announce.
LEMMA EventAnnounced ==
  ASSUME StoreTypeOK, RequestTypeOK, EventInv, NEW r \in Request, Publish(r)
  PROVE  EventInv'
<1>0. /\ UNCHANGED <<storeVars, call, found>>
      /\ pc[r] = "publish" /\ pc' = [pc EXCEPT ![r] = "done"]
  BY DEF Publish, At, Answer
<1>a. /\ \A id : Settled(id)' <=> Settled(id)
      /\ \A id : Gone(id)' <=> Gone(id)
  BY <1>0 DEF Settled, Gone, OpenRows, storeVars
<1>b. \A q \in Request : \A b : Announcement(q, b)' = Announcement(q, b) /\ Creating(q)' = Creating(q)
  BY <1>0 DEF Announcement, Outcome, Creating
<1>c. \A q \in Request : pc'[q] = "publish" => q # r /\ pc[q] = "publish"
  BY <1>0 DEF RequestTypeOK
<1>d. \A q \in Request : pc'[q] = "delete" => pc[q] = "delete"
  BY <1>0 DEF RequestTypeOK
<1>1. CASE UNCHANGED events
  <2>1. \A q \in Request : \A b : pc'[q] = "publish" /\ Reportable(q, b) => Reportable(q, b)'
    BY <1>0, <1>1, <1>a, <1>b, <1>c DEF Reportable
  <2>2. ReportInv'
    BY <1>0, <1>c, <1>d, <2>1 DEF EventInv, ReportInv
  <2>. QED  BY <1>1, <1>a, <2>2 DEF EventInv, EventsSettled, EventsDiffer
<1>2. ASSUME NEW b \in found[r], events' = Append(events, Announcement(r, b))
      PROVE  EventInv'
  <2>1. Reportable(r, b)
    BY <1>0 DEF EventInv, ReportInv
  <2>2. /\ \A i \in DOMAIN events' : i \in DOMAIN events \/ i = Len(events) + 1
        /\ \A i \in DOMAIN events : events'[i] = events[i]
        /\ events'[Len(events) + 1] = Announcement(r, b)
    BY <1>2 DEF RequestTypeOK
  <2>3. \A i \in DOMAIN events' :
          \/ i \in DOMAIN events /\ events'[i] = events[i]
          \/ i = Len(events) + 1 /\ events'[i] = Announcement(r, b)
    BY <2>2
  <2>4. EventsSettled'
    <3>1. /\ Announcement(r, b).id = b.id
          /\ Announcement(r, b).type = "cancelled" => ~Creating(r)
      BY DEF Announcement, Outcome
    <3>. QED  BY <1>a, <2>1, <2>3, <3>1 DEF EventInv, EventsSettled, Reportable
  <2>5. EventsDiffer'
    BY <2>1, <2>3 DEF EventInv, EventsDiffer, Reportable
  <2>6. ASSUME NEW q \in Request, pc'[q] = "publish", NEW c \in found'[q]
        PROVE  Reportable(q, c)'
    <3>1. q # r /\ pc[q] = "publish" /\ c \in found[q]
      BY <1>0, <1>c, <2>6
    <3>2. Reportable(q, c)
      BY <3>1 DEF EventInv, ReportInv
    <3>3. Announcement(q, c) # Announcement(r, b)
      BY <1>0, <3>1, <3>2 DEF Reportable
    <3>. QED  BY <1>0, <1>a, <1>b, <1>c, <2>3, <3>2, <3>3 DEF Reportable
  <2>7. ReportInv'
    BY <1>0, <1>d, <2>6 DEF EventInv, ReportInv
  <2>. QED  BY <2>4, <2>5, <2>7 DEF EventInv
<1>. QED  BY <1>1, <1>2 DEF Publish, Announcement

\* Whatever a request does, no event lies and none comes twice.
LEMMA EventKept ==
  ASSUME StoreInv, RequestInv, TupleInv, EventInv, NEW r \in Request, Step(r) \/ Disconnect(r)
  PROVE  EventInv'
<1>. USE DEF At, Goto, Answer
<1>0. /\ r \in Session /\ StoreTypeOK /\ RequestTypeOK /\ PhaseInv /\ ClaimInv /\ UniqueIds
      /\ call' = call /\ Fresh
  BY CallShape, OthersKept, RequestFresh DEF StoreInv, RequestInv
<1>1. CASE Publish(r)
  BY <1>0, <1>1, EventAnnounced
<1>2. CASE CommitInsert(r)
  <2>1. Commit(r) /\ UNCHANGED events
    BY <1>2 DEF CommitInsert
  <2>2. Creating(r) /\ pc'[r] = "publish" /\ found'[r] = inserted[r]
    BY <1>0, <1>2 DEF CommitInsert, PhaseInv, Creating, RequestTypeOK
  <2>3. ASSUME NEW b \in inserted[r]
        PROVE  /\ Settled(b.id)'
               /\ \A i \in DOMAIN events : events[i] # Announcement(r, b)
               /\ \A q \in Request \ {r} : pc[q] = "publish" =>
                    \A c \in found[q] : Announcement(r, b) # Announcement(q, c)
    <3>1. Settled(b.id)'
      BY <1>0, <2>1, <2>3, CommitSettles
    <3>2. ~Settled(b.id)
      BY <1>0 DEF Settled, OpenRows
    <3>3. Announcement(r, b).id = b.id /\ \A q, c : Announcement(q, c).id = c.id
      BY DEF Announcement
    <3>4. \A i \in DOMAIN events : events[i] # Announcement(r, b)
      BY <3>2, <3>3 DEF EventInv, EventsSettled
    <3>5. ASSUME NEW q \in Request \ {r}, pc[q] = "publish", NEW c \in found[q]
          PROVE  Announcement(r, b) # Announcement(q, c)
      <4>1. Settled(c.id)
        BY <3>5 DEF EventInv, ReportInv, Reportable
      <4>. QED  BY <3>2, <3>3, <4>1
    <3>. QED  BY <3>1, <3>4, <3>5
  <2>. QED  BY <1>0, <2>1, <2>2, <2>3, OthersKept, EventsAwaited
<1>3. CASE DeleteBooking(r) /\ RowExists(r)
  <2>1. /\ DeleteRow(call[r].id) /\ UNCHANGED <<events, found>>
        /\ pc[r] = "delete" /\ pc'[r] = "publish" /\ ~Creating(r)
    BY <1>0, <1>3 DEF DeleteBooking, PhaseInv, Creating, RequestTypeOK
  <2>2. ASSUME NEW id, id = call[r].id PROVE Gone(id)'
    BY <1>0, <2>1, <2>2 DEF Gone, Settled, ClaimInv, DeleteRow, OpenRows
  <2>3. ~Gone(call[r].id)
    BY <1>3 DEF RowExists, Gone
  <2>4. ASSUME NEW b \in found'[r]
        PROVE  /\ Gone(b.id)'
               /\ \A i \in DOMAIN events : events[i] # Announcement(r, b)
               /\ \A q \in Request \ {r} : pc[q] = "publish" =>
                    \A c \in found[q] : Announcement(r, b) # Announcement(q, c)
    <3>1. b.id = call[r].id
      BY <2>1 DEF EventInv, ReportInv
    <3>2. Announcement(r, b).id = call[r].id /\ Announcement(r, b).type = "cancelled"
      BY <2>1, <3>1 DEF Announcement, Outcome
    <3>3. \A i \in DOMAIN events : events[i] # Announcement(r, b)
      BY <2>3, <3>2 DEF EventInv, EventsSettled
    <3>4. ASSUME NEW q \in Request \ {r}, pc[q] = "publish", NEW c \in found[q]
          PROVE  Announcement(r, b) # Announcement(q, c)
      <4>1. ~Creating(q) => Gone(c.id)
        BY <3>4 DEF EventInv, ReportInv, Reportable
      <4>2. /\ Announcement(q, c).id = c.id
            /\ Announcement(q, c).type = "cancelled" => ~Creating(q)
        BY DEF Announcement, Outcome
      <4>. QED  BY <2>3, <3>2, <4>1, <4>2
    <3>. QED  BY <2>2, <3>1, <3>3, <3>4
  <2>5. \A b \in found'[r] : Settled(b.id)'
    BY <2>4 DEF Gone
  <2>. QED  BY <1>0, <2>1, <2>4, <2>5, OthersKept, EventsAwaited
<1>4. CASE GetBooking(r)
  <2>1. /\ events' = events /\ pc'[r] \in {"delete", "done"}
        /\ \A b \in found'[r] : b.id = call[r].id
    BY <1>0, <1>4 DEF GetBooking, RequestTypeOK
  <2>2. \A q \in Request : pc'[q] = "publish" => pc[q] = "publish" /\ found'[q] = found[q]
    BY <2>1, OthersKept
  <2>3. \A q \in Request : pc'[q] = "delete" => \A b \in found'[q] : b.id = call[q].id
    BY <2>1, OthersKept DEF EventInv, ReportInv
  <2>. QED  BY <1>0, <2>1, <2>2, <2>3, EventsUntouched
<1>5. CASE \/ RefuseCaller(r) \/ RefuseRange(r) \/ Accept(r) \/ GetRoom(r) \/ ListRoom(r)
           \/ RejectListed(r) \/ StartInsert(r) \/ FinishScan(r) \/ RejectInsert(r)
           \/ AbortDeadlocked(r) \/ RejectRoom(r) \/ LoseCommit(r) \/ Disconnect(r)
           \/ LoseDelete(r)
           \/ DeleteBooking(r) /\ ~RowExists(r)
  <2>1. events' = events /\ found' = found /\ pc'[r] \notin {"delete", "publish"}
    BY <1>0, <1>5 DEF RefuseCaller, RefuseRange, Accept, GetRoom, ListRoom, RejectListed,
       StartInsert, FinishScan, RejectInsert, AbortDeadlocked, RejectRoom, LoseCommit, Disconnect,
       LoseDelete, DeleteBooking, RequestTypeOK
  <2>2. \A q \in Request : pc'[q] \in {"delete", "publish"} => pc'[q] = pc[q]
    BY <2>1, OthersKept
  <2>3. \A q \in Request : pc'[q] = "delete" => \A b \in found'[q] : b.id = call[q].id
    BY <2>1, <2>2 DEF EventInv, ReportInv
  <2>. QED  BY <1>0, <2>1, <2>2, <2>3, EventsUntouched
<1>. QED  BY <1>1, <1>2, <1>3, <1>4, <1>5 DEF Step, Create, Cancel

-----------------------------------------------------------------------------

\* Committed rows are remembered, and what was backed stays so.
LEMMA BackedKept ==
  ASSUME UNCHANGED call, Remember
  PROVE  /\ bookings' \subseteq made' /\ made \subseteq made'
         /\ \A r, b : Backed(r, b) => Backed(r, b)'
         /\ \A r, b : Announcement(r, b)' = Announcement(r, b)
BY DEF Remember, Backed, Creating, Asked, MayCancel, Announcement, Outcome

\* Whatever a request does, its events are of what it has committed.
LEMMA OriginKept ==
  ASSUME StoreInv, RequestInv, TupleInv, OriginInv, NEW r \in Request, Step(r) \/ Disconnect(r),
         Remember
  PROVE  OriginInv'
<1>. USE DEF At, Goto, Answer
<1>0. /\ r \in Session /\ StoreTypeOK /\ RequestTypeOK /\ PhaseInv
      /\ call' = call /\ Fresh
      /\ \A q \in Request \ {r} : pc'[q] = pc[q] /\ found'[q] = found[q]
  BY CallShape, OthersKept, RequestFresh DEF StoreInv, RequestInv
<1>a. /\ bookings' \subseteq made' /\ made \subseteq made'
      /\ \A q, b : Backed(q, b) => Backed(q, b)'
      /\ \A q, b : Announcement(q, b)' = Announcement(q, b)
  BY <1>0, BackedKept
<1>1. LaterRows'
  BY <1>0, StoreAssumption DEF Fresh, LaterRows, OriginInv
<1>2. ASSUME pc'[r] \in {"delete", "publish"}, NEW b \in found'[r]
      PROVE  Backed(r, b)'
  <2>1. CASE CommitInsert(r)
    <3>1. Commit(r) /\ b \in inserted[r] /\ pc[r] = "foreign_key"
      BY <1>0, <1>2, <2>1 DEF CommitInsert, RequestTypeOK
    <3>2. Creating(r) /\ Creating(r)' /\ Asked(r, b) /\ Asked(r, b)'
      BY <1>0, <3>1 DEF PhaseInv, Creating, TupleInv, Asked
    <3>3. b \in made'
      BY <1>a, <3>1 DEF Commit
    <3>4. b \notin InitialBookings
      <4>1. b.id >= FirstId /\ b.id \in Nat
        BY <1>0, <3>1 DEF OriginInv, LaterRows, OpenRows, StoreTypeOK, Booking
      <4>2. \A c \in InitialBookings : c.id < FirstId /\ c.id \in Nat
        BY StoreAssumption DEF Booking
      <4>. QED  BY <4>1, <4>2, StoreAssumption
    <3>. QED  BY <3>2, <3>3, <3>4 DEF Backed
  <2>2. CASE GetBooking(r)
    <3>1. /\ pc[r] = "get_booking" /\ bookings' = bookings
          /\ b \in bookings /\ b.id = call[r].id
          /\ MayCancel(call[r].caller, b)
      BY <1>0, <1>2, <2>2 DEF GetBooking, RequestTypeOK, storeVars, StoreInv, UniqueIds
    <3>2. ~Creating(r)
      BY <1>0, <3>1 DEF PhaseInv, Creating
    <3>. QED  BY <1>0, <1>a, <3>1, <3>2 DEF Backed, Creating, MayCancel
  <2>3. CASE DeleteBooking(r)
    <3>1. pc[r] = "delete" /\ found' = found
      BY <2>3 DEF DeleteBooking
    <3>. QED  BY <1>2, <1>a, <3>1 DEF OriginInv
  <2>. QED
    BY <1>0, <1>2, <2>1, <2>2, <2>3 DEF Step, Create, Cancel, RefuseCaller, RefuseRange, Accept,
       GetRoom, ListRoom, RejectListed, Publish, StartInsert, FinishScan, RejectInsert,
       AbortDeadlocked, RejectRoom, LoseCommit, Disconnect, LoseDelete, RequestTypeOK
<1>3. \A q \in Request : pc'[q] \in {"delete", "publish"} => \A b \in found'[q] : Backed(q, b)'
  BY <1>0, <1>2, <1>a DEF OriginInv
<1>4. ASSUME NEW i \in DOMAIN events'
      PROVE  \E q \in Request, b \in made' : events'[i] = Announcement(q, b)' /\ Backed(q, b)'
  <2>1. CASE i \in DOMAIN events /\ events'[i] = events[i]
    <3>1. PICK q \in Request, b \in made : events[i] = Announcement(q, b) /\ Backed(q, b)
      BY <2>1 DEF OriginInv
    <3>. QED  BY <1>a, <2>1, <3>1
  <2>2. CASE ~(i \in DOMAIN events /\ events'[i] = events[i])
    <3>1. Publish(r)
      BY <2>2 DEF Step, Create, Cancel, RefuseCaller, RefuseRange, Accept, GetRoom, ListRoom,
         RejectListed, GetBooking, StartInsert, FinishScan, RejectInsert, AbortDeadlocked,
         CommitInsert, RejectRoom, LoseCommit, Disconnect, DeleteBooking, LoseDelete
    <3>2. PICK b \in found[r] : events' = Append(events, Announcement(r, b))
      BY <2>2, <3>1 DEF Publish, Announcement
    <3>3. events'[i] = Announcement(r, b)
      BY <1>0, <2>2, <3>2 DEF RequestTypeOK
    <3>4. Backed(r, b)
      BY <3>1 DEF Publish, OriginInv
    <3>. QED  BY <1>a, <3>3, <3>4 DEF Backed
  <2>. QED  BY <2>1, <2>2
<1>. QED  BY <1>1, <1>3, <1>4, <1>a DEF OriginInv

-----------------------------------------------------------------------------

AnswerInv == ServiceInv /\ TupleInv /\ ConflictInv /\ EventInv /\ OriginInv

\* No request has a tuple, an answer or an event at first.
LEMMA AnswerInitInv == Init => AnswerInv
<1>. SUFFICES ASSUME Init PROVE AnswerInv
  OBVIOUS
<1>1. ServiceInv
  BY ServiceInitInv
<1>2. TupleInv
  BY ServiceAssumption DEF Init, StoreInit, TupleInv
<1>3. ConflictInv
  BY DEF Init, ConflictInv
<1>4. EventInv
  BY DEF Init, EventInv, EventsSettled, EventsDiffer, ReportInv
<1>5. OriginInv
  BY StoreAssumption DEF Init, StoreInit, OriginInv, LaterRows, OpenRows
<1>. QED  BY <1>1, <1>2, <1>3, <1>4, <1>5 DEF AnswerInv

\* Every step keeps what the answers and the events rest on.
LEMMA AnswerNextInv == AnswerInv /\ [Next]_vars => AnswerInv'
<1>. SUFFICES ASSUME AnswerInv, [Next]_vars PROVE AnswerInv'
  OBVIOUS
<1>0. ServiceInv'
  BY ServiceNextInv DEF AnswerInv
<1>1. CASE Next
  <2>1. PICK r \in Request : Step(r) \/ Disconnect(r)
    BY <1>1 DEF Next
  <2>2. TupleInv' /\ EventInv'
    BY <2>1, TupleKept, EventKept DEF AnswerInv, ServiceInv
  <2>3. ConflictInv'
    BY <1>1, <2>1, ConflictKept DEF AnswerInv, ServiceInv, Next, Histories
  <2>4. OriginInv'
    BY <1>1, <2>1, OriginKept DEF AnswerInv, ServiceInv, Next, Histories
  <2>. QED  BY <1>0, <2>2, <2>3, <2>4 DEF AnswerInv
<1>2. CASE UNCHANGED vars
  <2>1. /\ UNCHANGED <<call, pc, listed, found, reply, events, contested, made>>
        /\ UNCHANGED <<bookings, nextId, scanning, inserted>>
        /\ \A s \in Session : OpenRows(s)' = OpenRows(s)
    BY <1>2 DEF vars, storeVars, requestVars, OpenRows
  <2>2. TupleInv' /\ ConflictInv'
    BY <2>1 DEF AnswerInv, TupleInv, Asked, ConflictInv
  <2>a. /\ \A id : Settled(id)' <=> Settled(id)
        /\ \A id : Gone(id)' <=> Gone(id)
    BY <2>1 DEF Settled, Gone
  <2>3. EventsSettled' /\ EventsDiffer'
    BY <2>1, <2>a DEF AnswerInv, EventInv, EventsSettled, EventsDiffer
  <2>4. ReportInv'
    BY <2>1, <2>a DEF AnswerInv, EventInv, ReportInv, Reportable, Announcement, Outcome, Creating
  <2>5. OriginInv'
    BY <2>1 DEF AnswerInv, OriginInv, LaterRows, Backed, Announcement, Outcome, Creating, Asked,
       MayCancel
  <2>. QED  BY <1>0, <2>2, <2>3, <2>4, <2>5 DEF AnswerInv, EventInv
<1>. QED  BY <1>1, <1>2

\* The invariant holds in every reachable state.
LEMMA AnswerInvariant == Spec => []AnswerInv
<1>. QED  BY AnswerInitInv, AnswerNextInv, PTL DEF Spec

\* A 409 is justified: a conflicting booking was committed at some moment of
\* the call, although the row that stopped the insert was read under no lock.
THEOREM ConflictsAreJustified == Spec => []ConflictJustified
<1>1. AnswerInv => ConflictJustified
  BY DEF AnswerInv, ConflictInv, ConflictJustified
<1>. QED  BY <1>1, AnswerInvariant, PTL

\* What the invariant says of the events is what a subscriber may rely on.
LEMMA TruthfulEvents == AnswerInv => EventsTruthful
<1>. SUFFICES ASSUME AnswerInv, NEW i \in DOMAIN events
              PROVE  /\ \E b \in made : events[i].id = b.id /\ \E r \in Request :
                          /\ events[i].type = Outcome(r)
                          /\ IF Creating(r) THEN b \notin InitialBookings /\ Asked(r, b)
                             ELSE /\ b \notin bookings
                                  /\ call[r].id = b.id /\ MayCancel(call[r].caller, b)
                     /\ \A j \in DOMAIN events : i # j => events[i] # events[j]
  BY DEF EventsTruthful
<1>1. Settled(events[i].id) /\ (events[i].type = "cancelled" => Gone(events[i].id))
  BY DEF AnswerInv, EventInv, EventsSettled
<1>2. \A j \in DOMAIN events : i # j => events[i] # events[j]
  BY DEF AnswerInv, EventInv, EventsDiffer
<1>3. PICK r \in Request, b \in made : events[i] = Announcement(r, b) /\ Backed(r, b)
  BY DEF AnswerInv, OriginInv
<1>4. events[i].id = b.id /\ events[i].type = Outcome(r)
  BY <1>3 DEF Announcement
<1>5. ~Creating(r) => b \notin bookings
  BY <1>1, <1>4 DEF Outcome, Gone
<1>. QED  BY <1>2, <1>3, <1>4, <1>5 DEF Backed

\* An event is of a row that was committed for a call that asked for it, or that
\* is gone for one entitled to that, and each is published once at most.
THEOREM EventsAreTruthful == Spec => []EventsTruthful
<1>. QED  BY TruthfulEvents, AnswerInvariant, PTL

-----------------------------------------------------------------------------
(***************************************************************************)
(* The service implements the calendar: the step that decides a request is *)
(* one step of the calendar, every other step leaves the calendar alone.   *)
(***************************************************************************)

verdicts == [r \in Request |-> Verdict(r)]

\* A step of r moves no verdict but its own.
LEMMA VerdictMoves ==
  ASSUME StoreInv, RequestInv, NEW r \in Request, Step(r) \/ Disconnect(r)
  PROVE  /\ call' = call
         /\ verdicts' = [verdicts EXCEPT ![r] = Verdict(r)']
<1>1. call' = call
  BY OthersKept
<1>2. \A q \in Request \ {r} : Verdict(q)' = Verdict(q)
  <2>. TAKE q \in Request \ {r}
  <2>1. pc'[q] = pc[q] /\ reply'[q] = reply[q] /\ listed'[q] = listed[q]
    BY OthersKept
  <2>. QED  BY <1>1, <2>1 DEF Verdict, At, Outcome, Creating
<1>. QED  BY <1>1, <1>2 DEF verdicts

\* The outcome of a request as the calendar records it.
LEMMA Decided ==
  ASSUME StoreInv, RequestInv, NEW r \in Request, Step(r) \/ Disconnect(r),
         NEW outcome, Verdict(r)' = outcome
  PROVE  Promise!Decide(r, outcome)
BY VerdictMoves DEF Promise!Decide, verdicts

\* Two names for the same conditions, in the service and in the calendar.
LEMMA SameWords ==
  /\ \A a, b : Promise!Clash(a, b) <=> Conflicts(a, b)
  /\ \A caller, b : Promise!Entitled(caller, b) <=> MayCancel(caller, b)
BY DEF Promise!Clash, Conflicts, Promise!Entitled, MayCancel, Promise!Overlaps, Overlaps,
   Promise!CanCancelOther, CanCancelOther, Promise!IsKnown, IsKnown, Promise!Rank, Rank

\* Steps that decide nothing: waiting, and the answer to what is decided.
LEMMA Undecided ==
  ASSUME StoreInv, RequestInv, NEW r \in Request, Step(r) \/ Disconnect(r),
         Verdict(r)' = Verdict(r), bookings' = bookings
  PROVE  UNCHANGED Promise!calendarVars
<1>1. verdicts' = verdicts /\ call' = call
  BY VerdictMoves DEF verdicts
<1>. QED  BY <1>1 DEF Promise!calendarVars, verdicts

\* Checks made before the first statement.
LEMMA CheckPromised ==
  ASSUME StoreInv, RequestInv, NEW r \in Request,
         RefuseCaller(r) \/ RefuseRange(r) \/ Accept(r)
  PROVE  Promise!Next
<1>. USE DEF At, Goto, Answer, Promise!IsKnown, IsKnown, Promise!Rank, Rank,
             Promise!ValidTimeRange, ValidTimeRange
<1>0. /\ RequestTypeOK /\ PhaseInv /\ call[r].op \in {"create", "cancel"}
      /\ Step(r) \/ Disconnect(r)
  BY CallShape DEF RequestInv, CreateCall, CancelCall, Step, Create
<1>1. verdicts[r] = "none" /\ bookings' = bookings
  BY DEF verdicts, Verdict, RefuseCaller, RefuseRange, Accept, storeVars
<1>2. CASE RefuseCaller(r)
  <2>1. Verdict(r)' = "forbidden"
    BY <1>0, <1>2 DEF RefuseCaller, Verdict, RequestTypeOK
  <2>2. Promise!Dismiss(r)
    BY <1>0, <1>1, <1>2, <2>1, Decided DEF Promise!Dismiss, RefuseCaller, verdicts
  <2>. QED  BY <2>2 DEF Promise!Next
<1>3. CASE RefuseRange(r)
  <2>1. Verdict(r)' = "invalid_range"
    BY <1>0, <1>3 DEF RefuseRange, Verdict, RequestTypeOK
  <2>2. Promise!Dismiss(r)
    BY <1>0, <1>1, <1>3, <2>1, Decided DEF Promise!Dismiss, RefuseRange, Creating, verdicts
  <2>. QED  BY <2>2 DEF Promise!Next
<1>4. CASE Accept(r)
  <2>1. Verdict(r)' = "pending"
    BY <1>0, <1>4 DEF Accept, Verdict, RequestTypeOK
  <2>2. Promise!Arrive(r)
    BY <1>0, <1>1, <2>1, Decided DEF Promise!Arrive, verdicts
  <2>. QED  BY <2>2 DEF Promise!Next
<1>. QED  BY <1>2, <1>3, <1>4

\* A request that is turned down for a conflict: when the list shows it, or
\* when the insert runs into it.
LEMMA TurnedDown ==
  ASSUME StoreInv, RequestInv, TupleInv, NEW r \in Request, Step(r) \/ Disconnect(r),
         Verdict(r) = "pending", Verdict(r)' = "conflict",
         bookings' = bookings, \E c \in bookings : ConflictsWith(r, c)
  PROVE  Promise!Next
<1>1. verdicts[r] = "pending" /\ Promise!Decide(r, "conflict")
  BY Decided DEF verdicts
<1>2. call[r].op = "create" /\ \E c \in bookings : Promise!Clash(call[r], c)
  BY SameWords DEF ConflictsWith, Creating
<1>3. Promise!TurnDown(r)
  BY <1>1, <1>2 DEF Promise!TurnDown, verdicts
<1>. QED  BY <1>3 DEF Promise!Next

\* A request that is given up without an effect.
LEMMA GivenUp ==
  ASSUME StoreInv, RequestInv, NEW r \in Request, Step(r) \/ Disconnect(r),
         Verdict(r) = "pending", Verdict(r)' \in {"internal", "gone", "room_not_found"},
         bookings' = bookings
  PROVE  Promise!Next
<1>1. verdicts[r] = "pending"
  BY DEF verdicts
<1>2. \E outcome \in {"internal", "gone", "room_not_found"} : Promise!Decide(r, outcome)
  BY Decided
<1>3. Promise!GiveUp(r)
  BY <1>1, <1>2 DEF Promise!GiveUp, verdicts
<1>. QED  BY <1>3 DEF Promise!Next

\* The statements of CreateBooking before the commit.
LEMMA CreatePromised ==
  ASSUME StoreInv, RequestInv, TupleInv, NEW r \in Request,
         \/ GetRoom(r) \/ ListRoom(r) \/ RejectListed(r) \/ StartInsert(r) \/ FinishScan(r)
         \/ RejectInsert(r) \/ AbortDeadlocked(r) \/ RejectRoom(r) \/ Disconnect(r)
  PROVE  Promise!Next \/ UNCHANGED Promise!calendarVars
<1>. USE DEF At, Goto, Answer
<1>0. /\ RequestTypeOK /\ PhaseInv /\ r \in Session
      /\ Step(r) \/ Disconnect(r)
  BY CallShape DEF RequestInv, Step, Create
<1>1. CASE GetRoom(r)
  <2>1. /\ Verdict(r) = "pending" /\ bookings' = bookings
        /\ Verdict(r)' \in {"pending", "room_not_found"}
    BY <1>0, <1>1 DEF GetRoom, Verdict, RequestTypeOK, storeVars
  <2>. QED  BY <1>0, <2>1, Undecided, GivenUp
<1>2. CASE ListRoom(r)
  <2>1. Verdict(r) = "pending" /\ bookings' = bookings /\ pc'[r] = "compare" /\ call' = call
    BY <1>0, <1>2 DEF ListRoom, Verdict, RequestTypeOK, storeVars
  <2>2. CASE \E b \in listed'[r] : Overlaps(call[r], b)
    <3>1. Verdict(r)' = "conflict"
      BY <2>1, <2>2 DEF Verdict
    <3>2. \E c \in bookings : ConflictsWith(r, c)
      BY <1>0, <2>1, <2>2, ConflictMet
    <3>. QED  BY <1>0, <2>1, <3>1, <3>2, TurnedDown
  <2>3. CASE ~\E b \in listed'[r] : Overlaps(call[r], b)
    <3>1. Verdict(r)' = "pending"
      BY <2>1, <2>3 DEF Verdict
    <3>. QED  BY <1>0, <2>1, <3>1, Undecided
  <2>. QED  BY <2>2, <2>3
<1>3. CASE RejectListed(r)
  <2>1. Verdict(r) = "conflict" /\ Verdict(r)' = "conflict" /\ bookings' = bookings
    BY <1>0, <1>3 DEF RejectListed, Verdict, RequestTypeOK, storeVars
  <2>. QED  BY <1>0, <2>1, Undecided
<1>4. CASE StartInsert(r) \/ FinishScan(r)
  <2>1. Verdict(r) = "pending" /\ Verdict(r)' = "pending" /\ bookings' = bookings
    BY <1>0, <1>4 DEF StartInsert, FinishScan, WriteTuple, PassExclusion, Verdict, RequestTypeOK
  <2>. QED  BY <1>0, <2>1, Undecided
<1>5. CASE RejectInsert(r)
  <2>1. Verdict(r) = "pending" /\ Verdict(r)' = "conflict" /\ bookings' = bookings
    BY <1>0, <1>5 DEF RejectInsert, Rollback, Verdict, RequestTypeOK
  <2>2. pc[r] = "insert" /\ reply'[r] = "conflict"
    BY <1>0, <1>5 DEF RejectInsert, RequestTypeOK
  <2>3. \E c \in bookings : ConflictsWith(r, c)
    <3>1. PICK b \in scanning[r] : Excluded(r, b)
      BY <1>5 DEF RejectInsert
    <3>2. inserted[r] = {} /\ Asked(r, b) /\ Creating(r)
      BY <1>0, <2>2 DEF TupleInv, PhaseInv, Creating
    <3>3. PICK c \in bookings : Conflicts(b, c)
      BY <3>1, <3>2 DEF Excluded
    <3>. QED  BY <3>2, <3>3 DEF Asked, Conflicts, Overlaps, ConflictsWith
  <2>. QED  BY <1>0, <2>1, <2>3, TurnedDown
<1>6. CASE AbortDeadlocked(r) \/ RejectRoom(r)
  <2>1. pc[r] \in {"insert", "foreign_key"}
    BY <1>0, <1>6, DeadlockedWaits DEF AbortDeadlocked, RejectRoom, TupleInv, PhaseInv
  <2>2. Verdict(r) = "pending" /\ Verdict(r)' = "internal" /\ bookings' = bookings
    BY <1>0, <1>6, <2>1 DEF AbortDeadlocked, RejectRoom, Rollback, Verdict, RequestTypeOK
  <2>. QED  BY <1>0, <2>2, GivenUp
<1>7. CASE Disconnect(r)
  <2>1. Verdict(r) = "pending" /\ Verdict(r)' = "gone" /\ bookings' = bookings
    BY <1>0, <1>7 DEF Disconnect, Rollback, Verdict, RequestTypeOK
  <2>. QED  BY <1>0, <2>1, GivenUp
<1>. QED  BY <1>1, <1>2, <1>3, <1>4, <1>5, <1>6, <1>7

\* The commit of an insert is the reservation.
LEMMA CommitPromised ==
  ASSUME StoreInv, RequestInv, TupleInv, NEW r \in Request, CommitInsert(r) \/ LoseCommit(r)
  PROVE  Promise!Next
<1>. USE DEF At, Goto, Answer
<1>0. /\ RequestTypeOK /\ PhaseInv /\ r \in Session /\ StoreTypeOK
      /\ Step(r) \/ Disconnect(r)
  BY CallShape DEF RequestInv, StoreInv, Step, Create
<1>1. /\ Commit(r) /\ pc[r] = "foreign_key" /\ call' = call
      /\ call[r].op = "create" /\ deleted[r] = {}
  BY <1>0 DEF CommitInsert, LoseCommit, PhaseInv
<1>2. Verdict(r) = "pending" /\ verdicts[r] = "pending"
  BY <1>1 DEF verdicts, Verdict, At
<1>3. Verdict(r)' \in {"created", "gone"}
  BY <1>0, <1>1 DEF CommitInsert, LoseCommit, Verdict, Outcome, Creating, RequestTypeOK
<1>4. Promise!Decide(r, "created") \/ Promise!Decide(r, "gone")
  BY <1>0, <1>3, Decided
<1>5. PICK b \in inserted[r] : inserted[r] = {b}
  BY <1>1 DEF TupleInv
<1>6. bookings' = bookings \cup {b}
  BY <1>1, <1>5 DEF Commit
<1>7. \A c \in bookings : b.id # c.id /\ ~Conflicts(b, c)
  BY <1>0, <1>1 DEF StoreInv, UniqueIds, NoOpenConflict, OpenRows
<1>8. b \in bookings' \ bookings
  BY <1>6, <1>7
<1>9. Asked(r, b)
  BY DEF TupleInv
<1>10. Promise!Reserve(r)
  BY <1>1, <1>2, <1>4, <1>6, <1>7, <1>8, <1>9, SameWords DEF Promise!Reserve, Asked, verdicts
<1>. QED  BY <1>10 DEF Promise!Next

\* The deletion is the release, and a read that finds no row, or a row that the
\* caller may not cancel, is the refusal.
LEMMA CancelPromised ==
  ASSUME StoreInv, RequestInv, NEW r \in Request, Cancel(r)
  PROVE  Promise!Next \/ UNCHANGED Promise!calendarVars
<1>. USE DEF At, Goto, Answer
<1>0. /\ RequestTypeOK /\ PhaseInv /\ ClaimInv /\ UniqueIds
      /\ Step(r) \/ Disconnect(r)
  BY DEF RequestInv, StoreInv, Step
<1>1. /\ pc[r] \in {"get_booking", "delete"} /\ call[r].op = "cancel"
      /\ Verdict(r) = "pending" /\ verdicts[r] = "pending"
  BY <1>0 DEF Cancel, GetBooking, DeleteBooking, LoseDelete, PhaseInv, Verdict, verdicts
<1>a. Promise!Named(r) = {b \in bookings : b.id = call[r].id}
  BY DEF Promise!Named
<1>2. CASE GetBooking(r)
  <2>1. bookings' = bookings
    BY <1>2 DEF GetBooking, storeVars
  <2>2. CASE Promise!Named(r) = {}
    <3>1. Verdict(r)' = "booking_not_found"
      BY <1>0, <1>2, <1>a, <2>2 DEF GetBooking, Verdict, RequestTypeOK
    <3>2. Promise!Deny(r)
      BY <1>0, <1>1, <2>1, <2>2, <3>1, Decided DEF Promise!Deny, verdicts
    <3>. QED  BY <3>2 DEF Promise!Next
  <2>3. CASE \E b \in Promise!Named(r) : MayCancel(call[r].caller, b)
    <3>1. Verdict(r)' = "pending"
      BY <1>0, <1>2, <1>a, <2>3 DEF GetBooking, Verdict, RequestTypeOK
    <3>. QED  BY <1>0, <1>1, <2>1, <3>1, Undecided
  <2>4. CASE Promise!Named(r) # {} /\ \A b \in Promise!Named(r) : ~MayCancel(call[r].caller, b)
    <3>1. Verdict(r)' = "forbidden"
      BY <1>0, <1>2, <1>a, <2>4 DEF GetBooking, Verdict, RequestTypeOK
    <3>2. Promise!Deny(r)
      BY <1>0, <1>1, <2>1, <2>4, <3>1, Decided, SameWords DEF Promise!Deny, verdicts
    <3>. QED  BY <3>2 DEF Promise!Next
  <2>. QED  BY <2>2, <2>3, <2>4
<1>3. CASE (DeleteBooking(r) \/ LoseDelete(r)) /\ RowExists(r)
  <2>1. Verdict(r)' \in {"cancelled", "gone"}
    BY <1>0, <1>1, <1>3 DEF DeleteBooking, LoseDelete, Verdict, Outcome, Creating, RequestTypeOK
  <2>2. Promise!Decide(r, "cancelled") \/ Promise!Decide(r, "gone")
    BY <1>0, <2>1, Decided
  <2>3. bookings' = bookings \ Promise!Named(r)
    BY <1>3, <1>a DEF DeleteBooking, LoseDelete, DeleteRow
  <2>4. \E b \in Promise!Named(r) : Promise!Entitled(call[r].caller, b)
    BY <1>0, <1>3, <1>a, SameWords DEF DeleteBooking, LoseDelete, RowExists, ClaimInv
  <2>5. Promise!Release(r)
    BY <1>1, <2>2, <2>3, <2>4 DEF Promise!Release, verdicts
  <2>. QED  BY <2>5 DEF Promise!Next
<1>4. CASE DeleteBooking(r) /\ ~RowExists(r)
  <2>1. Verdict(r)' = "booking_not_found"
    BY <1>0, <1>4 DEF DeleteBooking, Verdict, RequestTypeOK
  <2>2. Promise!Named(r) = {} /\ bookings' = bookings
    BY <1>4, <1>a DEF DeleteBooking, DeleteRow, RowExists
  <2>3. Promise!Deny(r)
    BY <1>0, <1>1, <2>1, <2>2, Decided DEF Promise!Deny, verdicts
  <2>. QED  BY <2>3 DEF Promise!Next
<1>. QED  BY <1>2, <1>3, <1>4 DEF Cancel, LoseDelete

\* Every step of a request is one step of the calendar, or none.
LEMMA StepPromised ==
  ASSUME StoreInv, RequestInv, TupleInv, NEW r \in Request, Step(r) \/ Disconnect(r)
  PROVE  Promise!Next \/ UNCHANGED Promise!calendarVars
<1>1. CASE Publish(r)
  <2>1. RequestTypeOK /\ bookings' = bookings
    BY <1>1 DEF RequestInv, Publish, storeVars
  <2>2. Verdict(r)' = Verdict(r)
    BY <1>1, <2>1 DEF Publish, Verdict, Outcome, Creating, RequestTypeOK, At, Answer
  <2>. QED  BY <2>1, <2>2, Undecided
<1>. QED
  BY <1>1, CheckPromised, CreatePromised, CommitPromised, CancelPromised DEF Step, Create

\* Clients that watch the calendar cannot tell the service, with its separate
\* reads, inserts and waits, from one that decides every call in one step.
THEOREM ServiceImplementsCalendar == Spec => ImplementsCalendar
<1>1. Init => Promise!Init
  <2>. SUFFICES ASSUME Init PROVE Promise!Init
    OBVIOUS
  <2>1. \A r \in Request : Verdict(r) = "none"
    BY DEF Init, Verdict, At
  <2>. QED  BY <2>1 DEF Init, StoreInit, Promise!Init
<1>2. AnswerInv /\ [Next]_vars => [Promise!Next]_Promise!calendarVars
  <2>. SUFFICES ASSUME AnswerInv, [Next]_vars
                PROVE  Promise!Next \/ UNCHANGED Promise!calendarVars
    OBVIOUS
  <2>0. StoreInv /\ RequestInv /\ TupleInv
    BY DEF AnswerInv, ServiceInv
  <2>1. ASSUME NEW r \in Request, Step(r) \/ Disconnect(r)
        PROVE  Promise!Next \/ UNCHANGED Promise!calendarVars
    BY <2>0, <2>1, StepPromised
  <2>2. CASE UNCHANGED vars
    BY <2>2 DEF vars, storeVars, requestVars, Promise!calendarVars, Verdict, At, Outcome, Creating
  <2>. QED  BY <2>1, <2>2 DEF Next
<1>. QED  BY <1>1, <1>2, AnswerInvariant, PTL DEF Spec, ImplementsCalendar, Promise!Spec

-----------------------------------------------------------------------------
\* The service beside imports.

\* The stages between the deletion of the old timetable and the commit.
Emptied == {"find_rooms", "delete_rooms", "upsert_rooms", "propose", "place"}
ImportStage == {"idle", "delete_rows", "committed", "failed"} \cup Emptied

ImportTypeOK ==
  /\ stage \in [Importer -> ImportStage]
  /\ unused \in [Importer -> SUBSET RoomId]
  /\ next \in [Importer -> Nat \ {0}]
  /\ skipped \in [Importer -> SUBSET (Nat \X Booking)]

\* What an import holds open at each stage: lessons, and nothing but lessons.
LessonInv ==
  \A i \in Importer :
    /\ scanning[i] = {}
    /\ \A a, b \in proposed[i] : a = b
    /\ \A b \in proposed[i] \cup inserted[i] : IsParsed(b) /\ b.room \in ImportedRoom
    /\ \A b \in deleted[i] : IsParsed(b)
    /\ stage[i] # "place" => proposed[i] = {}
    /\ stage[i] \notin {"propose", "place"} => inserted[i] = {}
    /\ stage[i] \notin Emptied => deleted[i] = {}

\* No committed booking loses its room to an open deletion, and the rooms an
\* import is about to use are there, or come with it.
RoomInv ==
  /\ NoOrphanBooking
  /\ \A r \in Request : roomsInserted[r] = {} /\ roomsDeleted[r] = {}
  /\ \A i \in Importer :
       /\ unused[i] \subseteq StaleRoom /\ roomsDeleted[i] \subseteq StaleRoom
       /\ roomsInserted[i] \subseteq ImportedRoom
       /\ \A b \in bookings \ deleted[i] : b.room \notin roomsDeleted[i]
       /\ stage[i] \in {"propose", "place"} => ImportedRoom \subseteq rooms \cup roomsInserted[i]

\* An import that has cleared the old timetable meets only later rows.
SkipInv ==
  /\ LaterRows
  /\ \A i \in Importer :
       /\ stage[i] \in Emptied => \A b \in Parsed \ deleted[i] : b.id >= FirstId
       /\ stage[i] \in {"idle", "delete_rows"} => skipped[i] = {}
  /\ SkippedForGoodReason

ImportInv == ImportTypeOK /\ LessonInv /\ RoomInv /\ SkipInv

SystemInv == AnswerInv /\ ImportInv

-----------------------------------------------------------------------------
(***************************************************************************)
(* What a request does to the import.                                      *)
(***************************************************************************)

\* A request touches no other session and no room, and what it adds is its own.
LEMMA RequestEffect ==
  ASSUME StoreInv, RequestInv, TupleInv, RoomInv, NEW r \in Request, Step(r) \/ Disconnect(r)
  PROVE  /\ \A s \in Session \ {r} :
              /\ scanning'[s] = scanning[s] /\ proposed'[s] = proposed[s]
              /\ inserted'[s] = inserted[s] /\ deleted'[s] = deleted[s]
         /\ rooms' = rooms
         /\ \A s \in Session : roomsInserted'[s] = roomsInserted[s] /\ roomsDeleted'[s] = roomsDeleted[s]
         /\ \A b \in bookings' \ bookings :
              /\ ~IsParsed(b)
              /\ b.room \in rooms
              /\ \A s \in Session : b.room \notin roomsDeleted[s]
<1>0. /\ r \in Session /\ StoreTypeOK /\ RequestTypeOK /\ PhaseInv
      /\ deleted[r] = {} /\ proposed[r] = {} /\ roomsInserted[r] = {} /\ roomsDeleted[r] = {}
  BY CallShape DEF StoreInv, RequestInv, PhaseInv, RoomInv
<1>1. CASE UNCHANGED storeVars
  BY <1>1 DEF storeVars
<1>2. CASE StartInsert(r) \/ FinishScan(r)
  BY <1>0, <1>2 DEF StartInsert, FinishScan, WriteTuple, PassExclusion, StoreTypeOK
<1>3. CASE Rollback(r)
  BY <1>0, <1>3 DEF Rollback, EndSession, StoreTypeOK
<1>4. CASE DeleteRow(call[r].id)
  BY <1>4 DEF DeleteRow
<1>5. CASE CommitInsert(r) \/ LoseCommit(r)
  <2>1. /\ Commit(r) /\ RoomSettled(r)
        /\ pc[r] = "foreign_key" /\ call[r].op = "create" /\ call[r].room \in rooms
    BY <1>0, <1>5 DEF CommitInsert, LoseCommit, At, PhaseInv
  <2>2. /\ rooms' = rooms
        /\ \A s \in Session \ {r} :
              /\ scanning'[s] = scanning[s] /\ proposed'[s] = proposed[s]
              /\ inserted'[s] = inserted[s] /\ deleted'[s] = deleted[s]
    BY <1>0, <2>1 DEF Commit, EndSession, StoreTypeOK
  <2>3. \A s \in Session : roomsInserted'[s] = roomsInserted[s] /\ roomsDeleted'[s] = roomsDeleted[s]
    BY <1>0, <2>1 DEF Commit, EndSession, StoreTypeOK
  <2>4. ASSUME NEW b \in bookings' \ bookings
        PROVE  /\ ~IsParsed(b)
               /\ b.room \in rooms
               /\ \A s \in Session : b.room \notin roomsDeleted[s]
    <3>1. Asked(r, b)
      BY <2>1, <2>4 DEF Commit, TupleInv
    <3>2. b.room = call[r].room /\ b.user \in UserId
      BY <1>0, <2>1, <3>1, CallShape DEF Asked, CreateCall, Caller
    <3>3. b.user # ParserUser
      BY <3>2, StoreAssumption
    <3>. QED  BY <1>0, <2>1, <3>2, <3>3 DEF IsParsed, RoomSettled
  <2>. QED  BY <2>2, <2>3, <2>4
<1>. QED
  BY <1>1, <1>2, <1>3, <1>4, <1>5 DEF Step, Create, Cancel, RefuseCaller, RefuseRange, Accept,
     GetRoom, ListRoom, RejectListed, GetBooking, Publish, RejectInsert, AbortDeadlocked,
     RejectRoom, Disconnect, DeleteBooking, LoseDelete

\* Requests keep what the import rests on.
LEMMA RequestKeepsImport ==
  ASSUME StoreInv, RequestInv, TupleInv, ImportInv, NEW r \in Request,
         Step(r) \/ Disconnect(r), UNCHANGED importVars
  PROVE  ImportInv'
<1>0. /\ UNCHANGED <<stage, unused, next, skipped>>
      /\ Fresh /\ r \in Session
      /\ \A i \in Importer : i \in Session \ {r}
      /\ ImportTypeOK /\ LessonInv /\ RoomInv /\ SkipInv
  BY RequestFresh, CallShape, SystemAssumption, ImportAssumption DEF importVars, ImportInv, RequestInv
<1>a. /\ \A i \in Importer :
              /\ scanning'[i] = scanning[i] /\ proposed'[i] = proposed[i]
              /\ inserted'[i] = inserted[i] /\ deleted'[i] = deleted[i]
      /\ rooms' = rooms
      /\ \A s \in Session : roomsInserted'[s] = roomsInserted[s] /\ roomsDeleted'[s] = roomsDeleted[s]
      /\ \A b \in bookings' \ bookings :
              /\ ~IsParsed(b)
              /\ b.room \in rooms
              /\ \A s \in Session : b.room \notin roomsDeleted[s]
  BY <1>0, RequestEffect
<1>1. ImportTypeOK'
  BY <1>0 DEF ImportTypeOK
<1>2. LessonInv'
  BY <1>0, <1>a DEF LessonInv, IsParsed
<1>3. RoomInv'
  <2>1. NoOrphanBooking'
    BY <1>0, <1>a DEF RoomInv, NoOrphanBooking
  <2>2. \A q \in Request : roomsInserted'[q] = {} /\ roomsDeleted'[q] = {}
    BY <1>0, <1>a, ServiceAssumption DEF RoomInv
  <2>3. ASSUME NEW i \in Importer, NEW b \in bookings' \ deleted'[i]
        PROVE  b.room \notin roomsDeleted'[i]
    BY <1>0, <1>a DEF RoomInv
  <2>. QED  BY <1>0, <1>a, <2>1, <2>2, <2>3 DEF RoomInv
<1>4. SkipInv'
  <2>1. LaterRows'
    BY <1>0, StoreAssumption DEF Fresh, SkipInv, LaterRows
  <2>2. ASSUME NEW i \in Importer, stage'[i] \in Emptied, NEW b \in Parsed' \ deleted'[i]
        PROVE  b.id >= FirstId
    <3>1. b \in Parsed \ deleted[i]
      BY <1>a, <2>2 DEF Parsed
    <3>. QED  BY <1>0, <2>2, <3>1 DEF SkipInv
  <2>3. SkippedForGoodReason'
    BY <1>0, <1>a DEF SkipInv, SkippedForGoodReason, IsParsed
  <2>. QED  BY <1>0, <2>1, <2>2, <2>3 DEF SkipInv
<1>. QED  BY <1>1, <1>2, <1>3, <1>4 DEF ImportInv

-----------------------------------------------------------------------------
(***************************************************************************)
(* What an import does.                                                    *)
(***************************************************************************)

\* An import touches no other session and no other import.
LEMMA ImportFrame ==
  ASSUME StoreTypeOK, ImportTypeOK, NEW i \in Importer, ImportStep(i) \/ FailImport(i)
  PROVE  /\ i \in Session
         /\ \A s \in Session \ {i} :
              /\ scanning'[s] = scanning[s] /\ proposed'[s] = proposed[s]
              /\ inserted'[s] = inserted[s] /\ deleted'[s] = deleted[s]
              /\ roomsInserted'[s] = roomsInserted[s] /\ roomsDeleted'[s] = roomsDeleted[s]
         /\ \A j \in Importer \ {i} :
              /\ stage'[j] = stage[j] /\ unused'[j] = unused[j] /\ skipped'[j] = skipped[j]
              /\ next'[j] = next[j]
<1>. USE ImportAssumption DEF StoreTypeOK, ImportTypeOK, Proceed
<1>1. CASE Begin(i) \/ FindStaleRooms(i)
  BY <1>1 DEF Begin, FindStaleRooms, storeVars
<1>2. CASE DeleteParsed(i) \/ DeleteStaleRooms(i) \/ UpsertRooms(i)
  BY <1>2 DEF DeleteParsed, DeleteStaleRooms, UpsertRooms
<1>3. CASE ProposeLesson(i) \/ PlaceLesson(i) \/ SkipLesson(i)
  BY <1>3 DEF ProposeLesson, PlaceLesson, SkipLesson, Propose, PlaceProposed, DropProposed,
     NextLesson
<1>4. CASE CommitImport(i)
  BY <1>4 DEF CommitImport, Commit, EndSession
<1>5. CASE RestrictRooms(i) \/ FailImport(i)
  BY <1>5 DEF RestrictRooms, FailImport, Rollback, EndSession
<1>. QED  BY <1>1, <1>2, <1>3, <1>4, <1>5 DEF ImportStep, AbortImport

\* The types of what an import keeps.
LEMMA ImportTypeKept ==
  ASSUME StoreTypeOK, ImportTypeOK, NEW i \in Importer, ImportStep(i) \/ FailImport(i)
  PROVE  ImportTypeOK'
<1>. USE DEF ImportTypeOK, ImportStage, Emptied, Proceed
<1>1. CASE Begin(i) \/ DeleteParsed(i) \/ DeleteStaleRooms(i) \/ UpsertRooms(i) \/ ProposeLesson(i)
           \/ CommitImport(i)
  BY <1>1 DEF Begin, DeleteParsed, DeleteStaleRooms, UpsertRooms, ProposeLesson, CommitImport
<1>2. CASE FindStaleRooms(i)
  BY <1>2, ImportAssumption DEF FindStaleRooms
<1>3. CASE PlaceLesson(i)
  BY <1>3 DEF PlaceLesson, NextLesson
<1>4. CASE SkipLesson(i)
  <2>1. PICK c \in bookings \cup inserted[i] :
               skipped' = [skipped EXCEPT ![i] = @ \cup {<<next[i], c>>}]
    BY <1>4 DEF SkipLesson
  <2>2. c \in Booking
    BY ImportAssumption DEF StoreTypeOK
  <2>3. skipped' \in [Importer -> SUBSET (Nat \X Booking)]
    BY <2>1, <2>2
  <2>. QED  BY <1>4, <2>3 DEF SkipLesson, NextLesson
<1>5. CASE RestrictRooms(i) \/ FailImport(i)
  BY <1>5 DEF RestrictRooms, FailImport
<1>. QED  BY <1>1, <1>2, <1>3, <1>4, <1>5 DEF ImportStep, AbortImport

\* The row of a lesson is one the table accepts.
LEMMA LessonRowType ==
  ASSUME StoreTypeOK, NEW k \in DOMAIN Lessons
  PROVE  /\ LessonRow(k) \in Booking
         /\ LessonRow(k).id = nextId /\ IsParsed(LessonRow(k)) /\ LessonRow(k).room \in ImportedRoom
<1>1. Lessons[k] \in Lesson /\ Lessons[k].room \in ImportedRoom
  BY ImportAssumption
<1>. QED  BY <1>1 DEF LessonRow, Lesson, Booking, KnownRole, StoreTypeOK, IsParsed

\* The deletion of the old timetable takes no row that another import holds.
LEMMA DeleteParsedInv ==
  ASSUME StoreInv, LessonInv, NEW i \in Importer, DeleteParsed(i)
  PROVE  StoreInv'
<1>. USE DEF StoreInv
<1>1. /\ i \in Session /\ inserted[i] = {}
      /\ UNCHANGED <<rooms, bookings, nextId, scanning, proposed, inserted,
                     roomsInserted, roomsDeleted>>
      /\ deleted' = [deleted EXCEPT ![i] = Parsed] /\ Parsed \subseteq bookings
      /\ \A t \in Session \ {i} : deleted[t] = {}
  BY ImportAssumption DEF LessonInv, DeleteParsed, Proceed, Parsed
<1>2. \A t \in Session : deleted'[t] = IF t = i THEN Parsed ELSE {}
  BY <1>1 DEF StoreTypeOK
<1>3. StoreTypeOK'
  BY <1>1 DEF StoreTypeOK
<1>4. UniqueIds'
  BY <1>1 DEF UniqueIds, OpenRows
<1>5. ExclusiveDeletes'
  BY <1>1, <1>2 DEF ExclusiveDeletes
<1>6. NoConflictIn(bookings)'
  BY <1>1 DEF NoConflictIn
<1>7. NoOpenConflict'
  BY <1>1, <1>2 DEF NoOpenConflict
<1>. QED  BY <1>3, <1>4, <1>5, <1>6, <1>7

\* Every statement of an import keeps the tables consistent.
LEMMA ImportStoreInv ==
  ASSUME StoreInv, ImportTypeOK, LessonInv, NEW i \in Importer, ImportStep(i) \/ FailImport(i)
  PROVE  StoreInv'
<1>0. i \in Session /\ StoreTypeOK
  BY ImportAssumption DEF StoreInv
<1>1. CASE Begin(i) \/ FindStaleRooms(i)
  BY <1>1, StoreUnchanged DEF Begin, FindStaleRooms
<1>2. CASE DeleteParsed(i)
  BY <1>2, DeleteParsedInv
<1>3. CASE DeleteStaleRooms(i) \/ UpsertRooms(i)
  <2>1. /\ UNCHANGED <<rooms, bookings, nextId, scanning, proposed, inserted, deleted>>
        /\ roomsInserted' \in [Session -> SUBSET RoomId]
        /\ roomsDeleted' \in [Session -> SUBSET RoomId]
    BY <1>0, <1>3, ImportAssumption DEF DeleteStaleRooms, UpsertRooms, StoreTypeOK
  <2>. QED  BY <2>1 DEF StoreInv, StoreTypeOK, UniqueIds, OpenRows, ExclusiveDeletes, NoConflictIn,
               NoOpenConflict
<1>4. CASE ProposeLesson(i)
  <2>1. next[i] \in DOMAIN Lessons /\ Propose(i, LessonRow(next[i]))
    BY <1>4, ImportAssumption DEF ProposeLesson, ImportTypeOK
  <2>. QED  BY <1>0, <2>1, LessonRowType, ProposeInv
<1>5. CASE PlaceLesson(i)
  BY <1>0, <1>5, PlaceProposedInv DEF PlaceLesson, LessonInv
<1>6. CASE SkipLesson(i)
  BY <1>0, <1>6, DropProposedInv DEF SkipLesson
<1>7. CASE CommitImport(i)
  BY <1>0, <1>7, CommitInv DEF CommitImport
<1>8. CASE RestrictRooms(i) \/ FailImport(i)
  BY <1>0, <1>8, RollbackInv DEF RestrictRooms, FailImport
<1>. QED  BY <1>1, <1>2, <1>3, <1>4, <1>5, <1>6, <1>7, <1>8 DEF ImportStep, AbortImport

\* An import gives no id again and brings no row back.
LEMMA ImportFresh ==
  ASSUME StoreInv, ImportTypeOK, NEW i \in Importer, ImportStep(i) \/ FailImport(i)
  PROVE  Fresh
<1>0. i \in Session /\ StoreTypeOK /\ nextId \in Nat
  BY ImportAssumption DEF StoreInv, StoreTypeOK
<1>1. CASE UNCHANGED <<bookings, nextId, scanning, proposed, inserted>>
  BY <1>0, <1>1 DEF Fresh, OpenRows
<1>2. CASE ProposeLesson(i)
  <2>1. next[i] \in DOMAIN Lessons /\ Propose(i, LessonRow(next[i]))
    BY <1>2, ImportAssumption DEF ProposeLesson, ImportTypeOK
  <2>2. LessonRow(next[i]).id = nextId
    BY DEF LessonRow
  <2>3. /\ nextId' = nextId + 1 /\ bookings' = bookings
        /\ \A s \in Session : \A b \in OpenRows(s)' : b \in OpenRows(s) \/ b.id = nextId
    BY <1>0, <2>1, <2>2 DEF Propose, OpenRows, StoreTypeOK
  <2>. QED  BY <1>0, <2>3 DEF Fresh
<1>3. CASE PlaceLesson(i) \/ SkipLesson(i) \/ CommitImport(i) \/ RestrictRooms(i) \/ FailImport(i)
  <2>1. PlaceProposed(i) \/ DropProposed(i) \/ Commit(i) \/ Rollback(i)
    BY <1>3 DEF PlaceLesson, SkipLesson, CommitImport, RestrictRooms, FailImport
  <2>2. \A s \in Session : OpenRows(s)' \subseteq OpenRows(s)
    BY <1>0, <2>1 DEF PlaceProposed, DropProposed, Commit, Rollback, EndSession, OpenRows, StoreTypeOK
  <2>3. bookings' \subseteq bookings \cup OpenRows(i) /\ nextId' = nextId
    BY <2>1 DEF PlaceProposed, DropProposed, Commit, Rollback, OpenRows
  <2>. QED  BY <1>0, <2>2, <2>3 DEF Fresh
<1>. QED
  BY <1>1, <1>2, <1>3 DEF ImportStep, AbortImport, Begin, DeleteParsed, FindStaleRooms,
     DeleteStaleRooms, UpsertRooms, storeVars

\* What the answers of the requests rest on survives the import.
LEMMA ImportKeepsAnswers ==
  ASSUME AnswerInv, ImportInv, NEW i \in Importer, ImportStep(i) \/ FailImport(i),
         UNCHANGED requestVars, Histories
  PROVE  AnswerInv'
<1>0. /\ UNCHANGED <<call, pc, listed, found, reply, events>>
      /\ StoreInv /\ StoreTypeOK /\ RequestInv /\ RequestTypeOK /\ PhaseInv /\ ClaimInv
      /\ TupleInv /\ ConflictInv /\ EventInv /\ ImportTypeOK /\ LessonInv
  BY DEF requestVars, AnswerInv, ServiceInv, StoreInv, RequestInv, ImportInv
<1>1. StoreInv' /\ Fresh
  BY <1>0, ImportStoreInv, ImportFresh
<1>2. \A r \in Request :
        /\ scanning'[r] = scanning[r] /\ proposed'[r] = proposed[r]
        /\ inserted'[r] = inserted[r] /\ deleted'[r] = deleted[r]
  BY <1>0, ImportFrame, ServiceAssumption, SystemAssumption
<1>3. RequestInv'
  <2>1. RequestTypeOK'
    BY <1>0 DEF RequestTypeOK
  <2>2. PhaseInv'
    BY <1>0, <1>2 DEF PhaseInv
  <2>3. ClaimInv'
    BY <1>0, <1>1, ClaimKept DEF Fresh
  <2>. QED  BY <2>1, <2>2, <2>3 DEF RequestInv
<1>4. contested' \in [Request -> BOOLEAN] /\ made' \subseteq Booking
  BY <1>1 DEF Histories, Witness, Remember, AnswerInv, ServiceInv, StoreInv, StoreTypeOK
<1>5. TupleInv'
  BY <1>0, <1>2 DEF TupleInv, Asked
<1>6. ConflictInv'
  BY <1>0 DEF ConflictInv, Histories, Witness
<1>7. EventInv'
  <2>1. \A q \in Request : pc'[q] = "delete" => \A b \in found'[q] : b.id = call[q].id
    BY <1>0 DEF EventInv, ReportInv
  <2>. QED  BY <1>0, <1>1, <2>1, EventsUntouched
<1>8. OriginInv'
  <2>1. LaterRows'
    BY <1>1, StoreAssumption DEF Fresh, LaterRows, AnswerInv, OriginInv
  <2>2. /\ bookings' \subseteq made' /\ made \subseteq made'
        /\ \A r, b : Backed(r, b) => Backed(r, b)'
        /\ \A r, b : Announcement(r, b)' = Announcement(r, b)
    BY <1>0, BackedKept DEF Histories
  <2>. QED  BY <1>0, <2>1, <2>2 DEF AnswerInv, OriginInv
<1>. QED  BY <1>1, <1>3, <1>4, <1>5, <1>6, <1>7, <1>8 DEF AnswerInv, ServiceInv

\* What an import adds to its rows at each statement, and when it gives up all.
LEMMA LessonKept ==
  ASSUME StoreTypeOK, ImportTypeOK, LessonInv, NEW i \in Importer, ImportStep(i) \/ FailImport(i)
  PROVE  LessonInv'
<1>0. i \in Session /\ \A j \in Importer \ {i} : j \in Session \ {i}
  BY ImportAssumption
<1>. DEFINE Mine ==
       /\ scanning'[i] = {}
       /\ \A a, b \in proposed'[i] : a = b
       /\ \A b \in proposed'[i] \cup inserted'[i] : IsParsed(b) /\ b.room \in ImportedRoom
       /\ \A b \in deleted'[i] : IsParsed(b)
       /\ stage'[i] # "place" => proposed'[i] = {}
       /\ stage'[i] \notin {"propose", "place"} => inserted'[i] = {}
       /\ stage'[i] \notin Emptied => deleted'[i] = {}
<1>1. Mine => LessonInv'
  BY <1>0, ImportFrame DEF LessonInv, IsParsed
<1>. SUFFICES Mine
  BY <1>1
<1>. USE <1>0 DEF LessonInv, StoreTypeOK, ImportTypeOK, Proceed, Emptied
<1>2. CASE Begin(i)
  BY <1>2 DEF Begin, storeVars
<1>3. CASE DeleteParsed(i)
  BY <1>3 DEF DeleteParsed, Parsed
<1>4. CASE FindStaleRooms(i) \/ DeleteStaleRooms(i) \/ UpsertRooms(i)
  BY <1>4 DEF FindStaleRooms, DeleteStaleRooms, UpsertRooms, storeVars
<1>5. CASE ProposeLesson(i)
  <2>1. next[i] \in DOMAIN Lessons /\ Propose(i, LessonRow(next[i]))
    BY <1>5, ImportAssumption DEF ProposeLesson
  <2>2. IsParsed(LessonRow(next[i])) /\ LessonRow(next[i]).room \in ImportedRoom
    BY <2>1, LessonRowType
  <2>3. /\ proposed'[i] = {LessonRow(next[i])}
        /\ UNCHANGED <<scanning, inserted, deleted>>
    BY <2>1 DEF Propose
  <2>4. stage[i] = "propose" /\ stage'[i] = "place"
    BY <1>5 DEF ProposeLesson
  <2>. QED  BY <2>2, <2>3, <2>4
<1>6. CASE PlaceLesson(i)
  <2>1. stage[i] = "place" /\ stage'[i] = "propose"
    BY <1>6 DEF PlaceLesson
  <2>2. /\ proposed'[i] = {} /\ inserted'[i] = inserted[i] \cup proposed[i]
        /\ UNCHANGED <<scanning, deleted>>
    BY <1>6 DEF PlaceLesson, PlaceProposed
  <2>. QED  BY <2>1, <2>2
<1>7. CASE SkipLesson(i)
  BY <1>7 DEF SkipLesson, DropProposed
<1>8. CASE CommitImport(i)
  BY <1>8 DEF CommitImport, Commit, EndSession
<1>9. CASE RestrictRooms(i) \/ FailImport(i)
  BY <1>9 DEF RestrictRooms, FailImport, Rollback, EndSession
<1>. QED
  BY <1>2, <1>3, <1>4, <1>5, <1>6, <1>7, <1>8, <1>9 DEF ImportStep, AbortImport

\* How an import changes rooms and bookings: by its commit, or not at all.
LEMMA ImportEffect ==
  ASSUME StoreTypeOK, NEW i \in Importer, ImportStep(i) \/ FailImport(i)
  PROVE  \/ rooms' = rooms /\ bookings' = bookings
         \/ CommitImport(i)
BY DEF ImportStep, AbortImport, Begin, DeleteParsed, FindStaleRooms, DeleteStaleRooms,
   RestrictRooms, UpsertRooms, ProposeLesson, PlaceLesson, SkipLesson, FailImport, Propose,
   PlaceProposed, DropProposed, Rollback, storeVars

\* No import takes a room from under a booking.
LEMMA RoomKept ==
  ASSUME StoreTypeOK, ImportTypeOK, LessonInv, LessonInv', RoomInv, NEW i \in Importer,
         ImportStep(i) \/ FailImport(i)
  PROVE  RoomInv'
<1>0. /\ i \in Session /\ StaleRoom \cap ImportedRoom = {}
      /\ \A j \in Importer \ {i} : j \in Session \ {i}
  BY ImportAssumption
<1>1. \A r \in Request : roomsInserted'[r] = {} /\ roomsDeleted'[r] = {}
  BY ImportFrame, ServiceAssumption, SystemAssumption DEF RoomInv
<1>2. CASE CommitImport(i)
  <2>1. /\ rooms' = (rooms \ roomsDeleted[i]) \cup roomsInserted[i]
        /\ bookings' = (bookings \ deleted[i]) \cup inserted[i]
        /\ stage[i] = "propose" /\ stage'[i] = "committed" /\ unused' = unused
        /\ roomsInserted'[i] = {} /\ roomsDeleted'[i] = {}
    BY <1>0, <1>2 DEF CommitImport, Commit, EndSession, Proceed, StoreTypeOK, ImportTypeOK
  <2>2. ImportedRoom \subseteq rooms' /\ rooms \ StaleRoom \subseteq rooms'
    BY <1>0, <2>1 DEF RoomInv
  <2>3. \A b \in inserted[i] : b.room \in ImportedRoom
    BY DEF LessonInv
  <2>4. NoOrphanBooking'
    <3>1. ASSUME NEW b \in bookings' PROVE b.room \in rooms'
      BY <2>1, <2>2, <2>3 DEF RoomInv, NoOrphanBooking
    <3>. QED  BY <3>1 DEF NoOrphanBooking
  <2>5. ASSUME NEW j \in Importer \ {i}
        PROVE  /\ unused'[j] \subseteq StaleRoom /\ roomsDeleted'[j] \subseteq StaleRoom
               /\ roomsInserted'[j] \subseteq ImportedRoom
               /\ \A b \in bookings' \ deleted'[j] : b.room \notin roomsDeleted'[j]
               /\ stage'[j] \in {"propose", "place"} => ImportedRoom \subseteq rooms' \cup roomsInserted'[j]
    <3>1. /\ stage'[j] = stage[j] /\ unused'[j] = unused[j] /\ deleted'[j] = deleted[j]
          /\ roomsInserted'[j] = roomsInserted[j] /\ roomsDeleted'[j] = roomsDeleted[j]
      BY <1>0, ImportFrame
    <3>2. \A b \in bookings' \ deleted[j] : b.room \notin roomsDeleted[j]
      BY <1>0, <2>1, <2>3 DEF RoomInv
    <3>. QED  BY <2>2, <3>1, <3>2 DEF RoomInv
  <2>6. /\ unused'[i] \subseteq StaleRoom /\ roomsDeleted'[i] \subseteq StaleRoom
        /\ roomsInserted'[i] \subseteq ImportedRoom
        /\ \A b \in bookings' \ deleted'[i] : b.room \notin roomsDeleted'[i]
        /\ stage'[i] \notin {"propose", "place"}
    BY <2>1 DEF RoomInv
  <2>. QED  BY <1>1, <2>4, <2>5, <2>6 DEF RoomInv
<1>3. CASE rooms' = rooms /\ bookings' = bookings /\ ~CommitImport(i)
  <2>1. NoOrphanBooking'
    BY <1>3 DEF RoomInv, NoOrphanBooking
  <2>2. ASSUME NEW j \in Importer \ {i}
        PROVE  /\ unused'[j] \subseteq StaleRoom /\ roomsDeleted'[j] \subseteq StaleRoom
               /\ roomsInserted'[j] \subseteq ImportedRoom
               /\ \A b \in bookings' \ deleted'[j] : b.room \notin roomsDeleted'[j]
               /\ stage'[j] \in {"propose", "place"} => ImportedRoom \subseteq rooms' \cup roomsInserted'[j]
    <3>1. /\ stage'[j] = stage[j] /\ unused'[j] = unused[j] /\ deleted'[j] = deleted[j]
          /\ roomsInserted'[j] = roomsInserted[j] /\ roomsDeleted'[j] = roomsDeleted[j]
      BY <1>0, ImportFrame
    <3>. QED  BY <1>3, <3>1 DEF RoomInv
  <2>3. /\ unused'[i] \subseteq StaleRoom /\ roomsDeleted'[i] \subseteq StaleRoom
        /\ roomsInserted'[i] \subseteq ImportedRoom
        /\ \A b \in bookings' \ deleted'[i] : b.room \notin roomsDeleted'[i]
        /\ stage'[i] \in {"propose", "place"} => ImportedRoom \subseteq rooms' \cup roomsInserted'[i]
    <3>. USE <1>0, <1>3 DEF RoomInv, StoreTypeOK, ImportTypeOK, Proceed
    <3>1. CASE Begin(i)
      BY <3>1 DEF Begin, storeVars
    <3>2. CASE DeleteParsed(i)
      BY <3>2 DEF DeleteParsed, LessonInv, Emptied
    <3>3. CASE FindStaleRooms(i)
      BY <3>3 DEF FindStaleRooms, storeVars
    <3>4. CASE DeleteStaleRooms(i)
      BY <3>4 DEF DeleteStaleRooms, Referenced
    <3>5. CASE UpsertRooms(i)
      BY <3>5 DEF UpsertRooms
    <3>6. CASE ProposeLesson(i) \/ PlaceLesson(i) \/ SkipLesson(i)
      BY <3>6 DEF ProposeLesson, PlaceLesson, SkipLesson, Propose, PlaceProposed, DropProposed
    <3>7. CASE RestrictRooms(i) \/ FailImport(i)
      BY <3>7 DEF RestrictRooms, FailImport, Rollback, EndSession
    <3>. QED
      BY <3>1, <3>2, <3>3, <3>4, <3>5, <3>6, <3>7 DEF ImportStep, AbortImport
  <2>. QED  BY <1>1, <2>1, <2>2, <2>3 DEF RoomInv
<1>. QED  BY <1>2, <1>3, ImportEffect

\* A lesson is never skipped for a row of the timetable that is on its way out.
LEMMA SkipKept ==
  ASSUME StoreInv, ImportTypeOK, LessonInv, SkipInv, NEW i \in Importer,
         ImportStep(i) \/ FailImport(i)
  PROVE  SkipInv'
<1>0. /\ i \in Session /\ StoreTypeOK /\ Fresh
      /\ \A j \in Importer \ {i} : j \in Session \ {i}
      /\ FirstId \in Nat
  BY ImportFresh, ImportAssumption, StoreAssumption DEF StoreInv
<1>1. LaterRows'
  BY <1>0 DEF Fresh, SkipInv, LaterRows
<1>2. \A b \in bookings' \ bookings : b.id >= FirstId
  BY <1>0 DEF Fresh, SkipInv, LaterRows
<1>3. ASSUME NEW j \in Importer \ {i}
      PROVE  /\ stage'[j] \in Emptied => \A b \in Parsed' \ deleted'[j] : b.id >= FirstId
             /\ stage'[j] \in {"idle", "delete_rows"} => skipped'[j] = {}
             /\ \A pair \in skipped'[j] :
                  ~IsParsed(pair[2]) \/ (pair[2].id >= FirstId /\ pair[2] \notin deleted'[j])
  <2>1. stage'[j] = stage[j] /\ skipped'[j] = skipped[j] /\ deleted'[j] = deleted[j]
    BY <1>0, ImportFrame
  <2>. QED  BY <1>2, <2>1 DEF SkipInv, SkippedForGoodReason, Parsed, IsParsed
<1>. DEFINE Mine ==
       /\ stage'[i] \in Emptied => \A b \in Parsed' \ deleted'[i] : b.id >= FirstId
       /\ stage'[i] \in {"idle", "delete_rows"} => skipped'[i] = {}
       /\ \A pair \in skipped'[i] :
            ~IsParsed(pair[2]) \/ (pair[2].id >= FirstId /\ pair[2] \notin deleted'[i])
<1>4. Mine
  <2>. USE <1>0 DEF StoreTypeOK, ImportTypeOK, Proceed, Emptied
  <2>1. CASE Begin(i)
    BY <2>1 DEF Begin, storeVars, SkipInv, SkippedForGoodReason
  <2>2. CASE DeleteParsed(i)
    BY <2>2 DEF DeleteParsed, SkipInv, Parsed
  <2>3. CASE FindStaleRooms(i) \/ DeleteStaleRooms(i) \/ UpsertRooms(i) \/ ProposeLesson(i)
             \/ PlaceLesson(i)
    <3>1. /\ stage[i] \in Emptied /\ stage'[i] \in Emptied
          /\ UNCHANGED <<bookings, deleted, skipped>>
      BY <2>3 DEF FindStaleRooms, DeleteStaleRooms, UpsertRooms, ProposeLesson, PlaceLesson, Propose,
         PlaceProposed, storeVars
    <3>. QED  BY <3>1 DEF SkipInv, SkippedForGoodReason, Parsed, IsParsed
  <2>4. CASE SkipLesson(i)
    <3>1. /\ stage[i] \in Emptied /\ stage'[i] = "propose"
          /\ UNCHANGED <<bookings, deleted, inserted>>
      BY <2>4 DEF SkipLesson, DropProposed
    <3>2. PICK c \in bookings \cup inserted[i] :
            c \notin deleted[i] /\ skipped' = [skipped EXCEPT ![i] = @ \cup {<<next[i], c>>}]
      BY <2>4 DEF SkipLesson
    <3>3. ~IsParsed(c) \/ c.id >= FirstId
      BY <3>1, <3>2 DEF SkipInv, LaterRows, Parsed, OpenRows
    <3>4. \A pair \in skipped'[i] :
            pair \in skipped[i] \/ pair = <<next[i], c>>
      BY <3>2
    <3>5. ASSUME NEW pair \in skipped'[i]
          PROVE  ~IsParsed(pair[2]) \/ (pair[2].id >= FirstId /\ pair[2] \notin deleted'[i])
      <4>1. CASE pair \in skipped[i]
        BY <3>1, <4>1 DEF SkipInv, SkippedForGoodReason
      <4>2. CASE pair = <<next[i], c>>
        <5>1. pair[2] = c
          BY <4>2
        <5>. QED  BY <3>1, <3>2, <3>3, <5>1
      <4>. QED  BY <3>4, <4>1, <4>2
    <3>. QED  BY <3>1, <3>5 DEF SkipInv, Parsed
  <2>5. CASE CommitImport(i) \/ RestrictRooms(i) \/ FailImport(i)
    <3>1. /\ stage'[i] \in {"committed", "failed"} /\ deleted'[i] = {} /\ skipped' = skipped
      BY <2>5 DEF CommitImport, RestrictRooms, FailImport, Commit, Rollback, EndSession
    <3>. QED  BY <3>1 DEF SkipInv, SkippedForGoodReason
  <2>. QED
    BY <2>1, <2>2, <2>3, <2>4, <2>5 DEF ImportStep, AbortImport
<1>5. SkippedForGoodReason'
  BY <1>3, <1>4 DEF SkippedForGoodReason, IsParsed
<1>. QED  BY <1>1, <1>3, <1>4, <1>5 DEF SkipInv

-----------------------------------------------------------------------------

\* No import has begun at first.
LEMMA SystemInitInv == SystemInit => SystemInv
<1>. SUFFICES ASSUME SystemInit PROVE SystemInv
  OBVIOUS
<1>. USE DEF SystemInit, Init, StoreInit, ImportInit
<1>1. AnswerInv
  BY AnswerInitInv
<1>2. ImportTypeOK
  BY DEF ImportTypeOK, ImportStage
<1>3. LessonInv
  BY ImportAssumption DEF LessonInv
<1>4. RoomInv
  BY StoreAssumption, ImportAssumption, ServiceAssumption DEF RoomInv, NoOrphanBooking
<1>5. SkipInv
  BY StoreAssumption DEF SkipInv, LaterRows, OpenRows, Emptied, SkippedForGoodReason
<1>. QED  BY <1>1, <1>2, <1>3, <1>4, <1>5 DEF SystemInv, ImportInv

\* Every step of the composed system keeps the invariant.
LEMMA SystemNextInv == SystemInv /\ [SystemNext]_systemVars => SystemInv'
<1>. SUFFICES ASSUME SystemInv, [SystemNext]_systemVars PROVE SystemInv'
  OBVIOUS
<1>0. /\ AnswerInv /\ ImportInv /\ StoreInv /\ StoreTypeOK /\ RequestInv /\ TupleInv
      /\ ImportTypeOK /\ LessonInv /\ RoomInv /\ SkipInv
  BY DEF SystemInv, AnswerInv, ServiceInv, StoreInv, ImportInv
<1>1. ASSUME NEW r \in Request, Serve(r), Histories PROVE SystemInv'
  <2>1. AnswerInv'
    BY <1>0, <1>1, AnswerNextInv DEF Serve, Next
  <2>2. ImportInv'
    BY <1>0, <1>1, RequestKeepsImport DEF Serve
  <2>. QED  BY <2>1, <2>2 DEF SystemInv
<1>2. ASSUME NEW i \in Importer, Import(i), Histories PROVE SystemInv'
  <2>1. AnswerInv'
    BY <1>0, <1>2, ImportKeepsAnswers DEF Import
  <2>2. ImportTypeOK' /\ LessonInv'
    BY <1>0, <1>2, ImportTypeKept, LessonKept DEF Import
  <2>3. RoomInv' /\ SkipInv'
    BY <1>0, <1>2, <2>2, RoomKept, SkipKept DEF Import
  <2>. QED  BY <2>1, <2>2, <2>3 DEF SystemInv, ImportInv
<1>3. CASE UNCHANGED systemVars
  <2>1. UNCHANGED vars /\ UNCHANGED importVars
    BY <1>3 DEF systemVars, vars
  <2>2. AnswerInv'
    BY <1>0, <2>1, AnswerNextInv
  <2>3. ImportInv'
    BY <1>0, <2>1 DEF vars, storeVars, importVars, ImportInv, ImportTypeOK, LessonInv, RoomInv,
       NoOrphanBooking, SkipInv, LaterRows, OpenRows, Parsed, IsParsed, SkippedForGoodReason
  <2>. QED  BY <2>2, <2>3 DEF SystemInv
<1>. QED  BY <1>1, <1>2, <1>3 DEF SystemNext

\* The invariant holds in every reachable state.
LEMMA SystemInvariant == SystemSpec => []SystemInv
<1>. QED  BY SystemInitInv, SystemNextInv, PTL DEF SystemSpec

-----------------------------------------------------------------------------

\* Beside any number of imports, no two committed bookings of a room overlap,
\* a timetable's lessons included.
THEOREM SystemNoDoubleBooking == SystemSpec => []NoDoubleBooking
<1>1. SystemInv => NoDoubleBooking
  BY DEF SystemInv, AnswerInv, ServiceInv, StoreInv, NoDoubleBooking
<1>. QED  BY <1>1, SystemInvariant, PTL

\* No booking stands in a room that is gone, although CreateBooking looks at
\* the room, and the import looks for unused rooms, in an earlier statement.
THEOREM NoOrphans == SystemSpec => []NoOrphanBooking
<1>1. SystemInv => NoOrphanBooking
  BY DEF SystemInv, ImportInv, RoomInv
<1>. QED  BY <1>1, SystemInvariant, PTL

\* A lesson is skipped for a booking of a user, or for a later row, but never
\* for a lesson of the timetable that the same import has cleared away.
THEOREM SkipsAreJustified == SystemSpec => []SkippedForGoodReason
<1>1. SystemInv => SkippedForGoodReason
  BY DEF SystemInv, ImportInv, SkipInv
<1>. QED  BY <1>1, SystemInvariant, PTL

\* The import makes no answer and no event untrue: a 409 is still justified, and
\* an event still tells of what was committed.
THEOREM AnswersTrueBesideImports == SystemSpec => [](ConflictJustified /\ EventsTruthful)
<1>1. AnswerInv => ConflictJustified
  BY DEF AnswerInv, ConflictInv, ConflictJustified
<1>2. AnswerInv => EventsTruthful
  BY TruthfulEvents
<1>3. SystemInv => ConflictJustified /\ EventsTruthful
  BY <1>1, <1>2 DEF SystemInv
<1>. QED  BY <1>3, SystemInvariant, PTL

\* A booking of a user disappears only by an authorised cancel call; a lesson
\* also by the commit of an import.
THEOREM UserBookingsAreKept == SystemSpec => UserBookingsKept
<1>1. SystemInv /\ [SystemNext]_systemVars =>
        [\A b \in bookings \ bookings' :
           \/ \E r \in Request : Cancels(r, b)
           \/ \E i \in Importer : IsParsed(b) /\ Commits(i)]_systemVars
  <2>. SUFFICES ASSUME SystemInv, SystemNext, NEW b \in bookings \ bookings'
                PROVE  \/ \E r \in Request : Cancels(r, b)
                       \/ \E i \in Importer : IsParsed(b) /\ Commits(i)
    OBVIOUS
  <2>0. StoreInv /\ StoreTypeOK /\ RequestInv /\ ImportTypeOK /\ LessonInv
    BY DEF SystemInv, AnswerInv, ServiceInv, StoreInv, ImportInv
  <2>1. ASSUME NEW r \in Request, Serve(r)
        PROVE  Cancels(r, b)
    BY <2>0, <2>1, DeletionIsAuthorised DEF Serve
  <2>2. ASSUME NEW i \in Importer, Import(i)
        PROVE  IsParsed(b) /\ Commits(i)
    <3>1. CommitImport(i)
      BY <2>0, <2>2, ImportEffect DEF Import
    <3>2. b \in deleted[i]
      BY <3>1 DEF CommitImport, Commit
    <3>. QED  BY <2>0, <3>1, <3>2 DEF CommitImport, Proceed, Commits, LessonInv, ImportTypeOK
  <2>. QED  BY <2>1, <2>2 DEF SystemNext
<1>. QED  BY <1>1, SystemInvariant, PTL DEF SystemSpec, UserBookingsKept

-----------------------------------------------------------------------------
(***************************************************************************)
(* One import at a time, as WithScheduleImportLock has it while the lock's *)
(* connection lives (StartupImport's OneImporter).  Two imports that start *)
(* on a database without lessons find nothing of each other to wait for,   *)
(* and the second would commit beside the lessons of the first.            *)
(***************************************************************************)

Open(i) == stage[i] \notin {"idle", "committed", "failed"}

OneAtATime == \A i, j \in Importer : Open(i) /\ Open(j) => i = j

\* An import that has cleared the timetable has all of it on its way out.
ClearedInv == \A i \in Importer : stage[i] \in Emptied => Parsed \subseteq deleted[i]

\* As long as imports do not overlap, nothing is added to what one has cleared.
LEMMA ClearedKept ==
  SystemInv /\ OneAtATime /\ ClearedInv /\ [SystemNext]_systemVars => ClearedInv'
<1>. SUFFICES ASSUME SystemInv, OneAtATime, ClearedInv, [SystemNext]_systemVars,
                     NEW j \in Importer, stage'[j] \in Emptied
              PROVE  Parsed' \subseteq deleted'[j]
  BY DEF ClearedInv
<1>0. /\ StoreInv /\ StoreTypeOK /\ RequestInv /\ TupleInv /\ ImportTypeOK /\ RoomInv
      /\ j \in Session
  BY ImportAssumption DEF SystemInv, AnswerInv, ServiceInv, StoreInv, ImportInv
<1>1. ASSUME NEW r \in Request, Serve(r) PROVE Parsed' \subseteq deleted'[j]
  <2>1. stage' = stage /\ j \in Session \ {r}
    BY <1>0, <1>1, SystemAssumption DEF Serve, importVars
  <2>2. deleted'[j] = deleted[j] /\ \A b \in bookings' \ bookings : ~IsParsed(b)
    BY <1>0, <1>1, <2>1, RequestEffect DEF Serve
  <2>. QED  BY <2>1, <2>2 DEF ClearedInv, Parsed
<1>2. ASSUME NEW i \in Importer, Import(i) PROVE Parsed' \subseteq deleted'[j]
  <2>1. CASE CommitImport(i)
    <3>1. Open(i) /\ stage'[i] = "committed"
      BY <1>0, <2>1 DEF CommitImport, Proceed, Open, ImportTypeOK
    <3>2. i # j /\ stage'[j] = stage[j]
      BY <1>0, <1>2, <3>1, ImportFrame DEF Import, Emptied
    <3>3. Open(j)
      BY <3>2 DEF Open, Emptied
    <3>. QED  BY <3>1, <3>2, <3>3 DEF OneAtATime
  <2>2. CASE bookings' = bookings /\ i # j
    <3>1. stage'[j] = stage[j] /\ deleted'[j] = deleted[j]
      BY <1>0, <1>2, <2>2, ImportFrame DEF Import
    <3>. QED  BY <2>2, <3>1 DEF ClearedInv, Parsed
  <2>3. CASE bookings' = bookings /\ i = j /\ ~CommitImport(i)
    <3>. USE <1>0, <2>3 DEF StoreTypeOK, ImportTypeOK, Proceed, Emptied
    <3>1. CASE DeleteParsed(i)
      BY <3>1 DEF DeleteParsed, Parsed
    <3>2. CASE Begin(i) \/ RestrictRooms(i) \/ FailImport(i)
      BY <3>2 DEF Begin, RestrictRooms, FailImport
    <3>3. CASE \/ FindStaleRooms(i) \/ DeleteStaleRooms(i) \/ UpsertRooms(i) \/ ProposeLesson(i)
               \/ PlaceLesson(i) \/ SkipLesson(i)
      <4>1. stage[i] \in Emptied /\ deleted' = deleted
        BY <3>3 DEF FindStaleRooms, DeleteStaleRooms, UpsertRooms, ProposeLesson, PlaceLesson,
           SkipLesson, Propose, PlaceProposed, DropProposed, storeVars
      <4>. QED  BY <4>1 DEF ClearedInv, Parsed
    <3>. QED  BY <1>2, <3>1, <3>2, <3>3 DEF Import, ImportStep, AbortImport
  <2>. QED  BY <1>0, <1>2, <2>1, <2>2, <2>3, ImportEffect DEF Import
<1>3. CASE UNCHANGED systemVars
  BY <1>3 DEF systemVars, storeVars, importVars, ClearedInv, Parsed
<1>. QED  BY <1>1, <1>2, <1>3 DEF SystemNext

\* The slots before the n-th that `skips` does not name.
PlacedBefore(n, skips) ==
  {Lessons[k] : k \in {m \in DOMAIN Lessons : m < n /\ \A pair \in skips : pair[1] # m}}

\* Before the first lesson nothing is placed; the n-th is, or it is skipped.
LEMMA PlacedNext ==
  ASSUME NEW n \in DOMAIN Lessons, NEW skips \in SUBSET (Nat \X Booking),
         \A pair \in skips : pair[1] < n, NEW c \in Booking
  PROVE  /\ PlacedBefore(n + 1, skips) = PlacedBefore(n, skips) \cup {Lessons[n]}
         /\ PlacedBefore(n + 1, skips \cup {<<n, c>>}) = PlacedBefore(n, skips)
<1>0. DOMAIN Lessons \subseteq Nat /\ n \in Nat /\ \A pair \in skips : pair[1] \in Nat
  BY ImportAssumption
<1>1. {m \in DOMAIN Lessons : m < n + 1 /\ \A pair \in skips : pair[1] # m}
        = {m \in DOMAIN Lessons : m < n /\ \A pair \in skips : pair[1] # m} \cup {n}
  BY <1>0
<1>2. \A m : (\A pair \in skips \cup {<<n, c>>} : pair[1] # m)
              <=> m # n /\ \A pair \in skips : pair[1] # m
  <2>1. <<n, c>>[1] = n
    OBVIOUS
  <2>. QED  BY <2>1, Zenon
<1>3. {m \in DOMAIN Lessons : m < n + 1 /\ \A pair \in skips \cup {<<n, c>>} : pair[1] # m}
        = {m \in DOMAIN Lessons : m < n /\ \A pair \in skips : pair[1] # m}
  BY <1>0, <1>2
<1>4. PlacedBefore(n + 1, skips) = PlacedBefore(n, skips) \cup {Lessons[n]}
  BY <1>1 DEF PlacedBefore
<1>5. PlacedBefore(n + 1, skips \cup {<<n, c>>}) = PlacedBefore(n, skips)
  BY <1>3 DEF PlacedBefore
<1>. QED  BY <1>4, <1>5

SlotsOf(rows) == {SlotOf(b) : b \in rows}

\* An import has one row for every lesson so far that it has not skipped, and the
\* row that it is about to place is of the next one.
SlotInv ==
  \A i \in Importer :
    /\ stage[i] \notin {"propose", "place", "committed", "failed"} => next[i] = 1 /\ skipped[i] = {}
    /\ \A pair \in skipped[i] : pair[1] < next[i]
    /\ stage[i] = "place" =>
         /\ next[i] \in DOMAIN Lessons
         /\ \E b : proposed[i] = {b} /\ SlotOf(b) = Lessons[next[i]]
    /\ stage[i] \in {"propose", "place"} =>
         SlotsOf(inserted[i]) = PlacedBefore(next[i], skipped[i])

\* A lesson is a room and a time, wherever it stands in the list.
LEMMA LessonTyped ==
  \A n \in DOMAIN Lessons : Lessons[n] \in [room: RoomId, start: Int, end: Int]
<1>1. Lessons \in Seq(Lesson)
  BY ImportAssumption
<1>2. \A n \in DOMAIN Lessons : Lessons[n] \in Lesson
  BY <1>1
<1>. QED  BY <1>2 DEF Lesson

\* A statement of an import places, skips or proposes the lesson it is at.
LEMMA SlotStep ==
  ASSUME StoreInv, ImportTypeOK, LessonInv, SlotInv, NEW i \in Importer,
         ImportStep(i) \/ FailImport(i)
  PROVE  SlotInv'
<1>0. /\ i \in Session /\ StoreTypeOK /\ next[i] \in Nat \ {0}
      /\ skipped[i] \in SUBSET (Nat \X Booking)
      /\ \A j \in Importer \ {i} :
           /\ stage'[j] = stage[j] /\ next'[j] = next[j] /\ skipped'[j] = skipped[j]
           /\ proposed'[j] = proposed[j] /\ inserted'[j] = inserted[j]
  <2>1. /\ i \in Session /\ StoreTypeOK /\ next[i] \in Nat \ {0}
        /\ skipped[i] \in SUBSET (Nat \X Booking)
        /\ \A j \in Importer \ {i} : j \in Session \ {i}
    BY ImportAssumption DEF StoreInv, ImportTypeOK
  <2>. QED  BY <2>1, ImportFrame
<1>a. /\ \A j \in Importer : SlotsOf(inserted[j])' = SlotsOf(inserted'[j])
      /\ \A j \in Importer : PlacedBefore(next[j], skipped[j])' = PlacedBefore(next'[j], skipped'[j])
  BY DEF SlotsOf, SlotOf, PlacedBefore
<1>. DEFINE Mine ==
       /\ stage'[i] \notin {"propose", "place", "committed", "failed"} =>
            next'[i] = 1 /\ skipped'[i] = {}
       /\ \A pair \in skipped'[i] : pair[1] < next'[i]
       /\ stage'[i] = "place" =>
            /\ next'[i] \in DOMAIN Lessons
            /\ \E b : proposed'[i] = {b} /\ SlotOf(b) = Lessons[next'[i]]
       /\ stage'[i] \in {"propose", "place"} =>
            SlotsOf(inserted'[i]) = PlacedBefore(next'[i], skipped'[i])
<1>1. Mine => SlotInv'
  <2>. SUFFICES ASSUME Mine, NEW j \in Importer \ {i}
                PROVE  /\ stage'[j] \notin {"propose", "place", "committed", "failed"} =>
                            next'[j] = 1 /\ skipped'[j] = {}
                       /\ \A pair \in skipped'[j] : pair[1] < next'[j]
                       /\ stage'[j] = "place" =>
                            /\ next'[j] \in DOMAIN Lessons
                            /\ \E b : proposed'[j] = {b} /\ SlotOf(b) = Lessons[next'[j]]
                       /\ stage'[j] \in {"propose", "place"} =>
                            SlotsOf(inserted'[j]) = PlacedBefore(next'[j], skipped'[j])
    BY <1>a DEF SlotInv, SlotOf
  <2>. QED  BY <1>0 DEF SlotInv
<1>. SUFFICES Mine
  BY <1>1
<1>. USE <1>0 DEF Proceed, StoreTypeOK, ImportTypeOK
<1>2. CASE Begin(i) \/ DeleteParsed(i) \/ FindStaleRooms(i) \/ DeleteStaleRooms(i)
  <2>1. /\ stage[i] \notin {"propose", "place", "committed", "failed"}
        /\ stage'[i] \notin {"propose", "place", "committed", "failed"}
        /\ UNCHANGED <<next, skipped>>
    BY <1>2 DEF Begin, DeleteParsed, FindStaleRooms, DeleteStaleRooms
  <2>. QED  BY <2>1 DEF SlotInv
<1>3. CASE UpsertRooms(i)
  <2>1. /\ stage[i] = "upsert_rooms" /\ stage'[i] = "propose"
        /\ UNCHANGED <<next, skipped, inserted>>
    BY <1>3 DEF UpsertRooms
  <2>2. next[i] = 1 /\ skipped[i] = {} /\ inserted[i] = {}
    BY <2>1 DEF SlotInv, LessonInv
  <2>3. SlotsOf({}) = {} /\ PlacedBefore(1, {}) = {}
    BY ImportAssumption DEF SlotsOf, PlacedBefore
  <2>. QED  BY <2>1, <2>2, <2>3
<1>4. CASE ProposeLesson(i)
  <2>1. /\ stage[i] = "propose" /\ stage'[i] = "place"
        /\ next[i] \in DOMAIN Lessons
        /\ UNCHANGED <<next, skipped, inserted>>
        /\ proposed'[i] = {LessonRow(next[i])}
    BY <1>4, ImportAssumption DEF ProposeLesson, Propose
  <2>2. SlotOf(LessonRow(next[i])) = Lessons[next[i]]
    <3>1. Lessons[next[i]] \in [room: RoomId, start: Int, end: Int]
      BY <2>1, LessonTyped
    <3>2. \A l \in [room: RoomId, start: Int, end: Int] :
            l = [room |-> l.room, start |-> l.start, end |-> l.end]
      OBVIOUS
    <3>3. SlotOf(LessonRow(next[i])) =
            [room |-> Lessons[next[i]].room, start |-> Lessons[next[i]].start,
             end |-> Lessons[next[i]].end]
      BY DEF SlotOf, LessonRow
    <3>. QED  BY <3>1, <3>2, <3>3
  <2>3. /\ \A pair \in skipped[i] : pair[1] < next[i]
        /\ SlotsOf(inserted[i]) = PlacedBefore(next[i], skipped[i])
    BY <2>1 DEF SlotInv
  <2>. QED  BY <2>1, <2>2, <2>3
<1>5. CASE PlaceLesson(i)
  <2>1. /\ stage[i] = "place" /\ stage'[i] = "propose"
        /\ next'[i] = next[i] + 1 /\ skipped' = skipped
        /\ inserted'[i] = inserted[i] \cup proposed[i]
    BY <1>5 DEF PlaceLesson, PlaceProposed, NextLesson
  <2>2. PICK b : proposed[i] = {b} /\ SlotOf(b) = Lessons[next[i]]
    BY <2>1 DEF SlotInv
  <2>3. /\ next[i] \in DOMAIN Lessons /\ b \in Booking
        /\ \A pair \in skipped[i] : pair[1] \in Nat /\ pair[1] < next[i]
        /\ SlotsOf(inserted[i]) = PlacedBefore(next[i], skipped[i])
    BY <2>1, <2>2 DEF SlotInv
  <2>4. SlotsOf(inserted'[i]) = SlotsOf(inserted[i]) \cup {Lessons[next[i]]}
    BY <2>1, <2>2 DEF SlotsOf
  <2>5. PlacedBefore(next[i] + 1, skipped[i]) = PlacedBefore(next[i], skipped[i]) \cup {Lessons[next[i]]}
    BY <2>3, PlacedNext
  <2>6. \A pair \in skipped[i] : pair[1] < next[i] + 1
    BY <2>3
  <2>. QED  BY <2>1, <2>3, <2>4, <2>5, <2>6
<1>6. CASE SkipLesson(i)
  <2>1. /\ stage[i] = "place" /\ stage'[i] = "propose"
        /\ next'[i] = next[i] + 1 /\ inserted' = inserted
    BY <1>6 DEF SkipLesson, DropProposed, NextLesson
  <2>2. PICK c \in Booking : skipped'[i] = skipped[i] \cup {<<next[i], c>>}
    BY <1>6 DEF SkipLesson
  <2>3. /\ next[i] \in DOMAIN Lessons
        /\ \A pair \in skipped[i] : pair[1] \in Nat /\ pair[1] < next[i]
        /\ SlotsOf(inserted[i]) = PlacedBefore(next[i], skipped[i])
    BY <2>1 DEF SlotInv
  <2>4. PlacedBefore(next[i] + 1, skipped'[i]) = PlacedBefore(next[i], skipped[i])
    BY <2>2, <2>3, PlacedNext
  <2>5. \A pair \in skipped'[i] : pair[1] < next[i] + 1
    BY <2>2, <2>3
  <2>. QED  BY <2>1, <2>3, <2>4, <2>5
<1>7. CASE CommitImport(i) \/ RestrictRooms(i) \/ FailImport(i)
  <2>1. stage'[i] \in {"committed", "failed"} /\ UNCHANGED <<next, skipped>>
    BY <1>7 DEF CommitImport, RestrictRooms, FailImport
  <2>. QED  BY <2>1 DEF SlotInv
<1>. QED  BY <1>2, <1>3, <1>4, <1>5, <1>6, <1>7 DEF ImportStep, AbortImport

LEMMA SlotsKept == SystemInv /\ SlotInv /\ [SystemNext]_systemVars => SlotInv'
<1>. SUFFICES ASSUME SystemInv, SlotInv, [SystemNext]_systemVars PROVE SlotInv'
  OBVIOUS
<1>0. /\ StoreInv /\ RequestInv /\ TupleInv /\ ImportTypeOK /\ LessonInv /\ RoomInv
  BY DEF SystemInv, AnswerInv, ServiceInv, ImportInv
<1>1. ASSUME NEW r \in Request, Serve(r) PROVE SlotInv'
  <2>1. /\ UNCHANGED <<stage, next, skipped>>
        /\ \A i \in Importer : i \in Session \ {r}
    BY <1>1, ImportAssumption, SystemAssumption DEF Serve, importVars
  <2>2. \A i \in Importer : proposed'[i] = proposed[i] /\ inserted'[i] = inserted[i]
    BY <1>0, <1>1, <2>1, RequestEffect DEF Serve
  <2>. QED  BY <2>1, <2>2 DEF SlotInv, SlotsOf, SlotOf, PlacedBefore
<1>2. ASSUME NEW i \in Importer, Import(i) PROVE SlotInv'
  BY <1>0, <1>2, SlotStep DEF Import
<1>3. CASE UNCHANGED systemVars
  BY <1>3 DEF systemVars, storeVars, importVars, SlotInv, SlotsOf, SlotOf, PlacedBefore
<1>. QED  BY <1>1, <1>2, <1>3 DEF SystemNext

\* What an import commits is a row for every slot that it has not skipped.
LEMMA CommitPlaces ==
  ASSUME ImportTypeOK, SlotInv, NEW i \in Importer, CommitImport(i)
  PROVE  SlotsOf(inserted[i]) = Placed(i) /\ Placed(i)' = Placed(i)
<1>1. /\ stage[i] = "propose" /\ next[i] > Len(Lessons) /\ skipped' = skipped
      /\ next[i] \in Nat
  BY DEF CommitImport, Proceed, ImportTypeOK
<1>2. \A m \in DOMAIN Lessons : m < next[i]
  BY <1>1, ImportAssumption
<1>3. SlotsOf(inserted[i]) = PlacedBefore(next[i], skipped[i])
  BY <1>1 DEF SlotInv
<1>4. PlacedBefore(next[i], skipped[i]) = Placed(i)
  BY <1>2 DEF PlacedBefore, Placed
<1>. QED  BY <1>1, <1>3, <1>4 DEF Placed

\* Initially nothing has been cleared or placed.
LEMMA ImportBegins == SystemInit => ClearedInv /\ SlotInv
<1>1. SystemInit => ClearedInv
  BY DEF SystemInit, ImportInit, ClearedInv, Emptied
<1>2. SystemInit => SlotInv
  BY DEF SystemInit, ImportInit, SlotInv
<1>. QED  BY <1>1, <1>2

\* Nobody sees half a timetable: lessons come only with the commit of an import,
\* and go only with it or by a cancel call; what a commit leaves is a lesson for
\* every slot it has not skipped.
THEOREM ImportsAreAtomic == SystemSpec /\ []OneAtATime => ImportIsAtomic
<1>. DEFINE Step1 == Parsed' \subseteq Parsed \/ \E i \in Importer : Commits(i)
            Step2 == \A b \in Parsed \ Parsed' :
                       (\E i \in Importer : Commits(i)) \/ (\E r \in Request : Cancels(r, b))
            Step3 == \A i \in Importer : Commits(i) =>
                       Parsed' = inserted[i] /\ {SlotOf(b) : b \in Parsed'} = Placed(i)
<1>1. SystemInv /\ ClearedInv /\ SlotInv /\ [SystemNext]_systemVars =>
        [Step1 /\ Step2 /\ Step3]_systemVars
  <2>. SUFFICES ASSUME SystemInv, ClearedInv, SlotInv, SystemNext
                PROVE  Step1 /\ Step2 /\ Step3
    OBVIOUS
  <2>0. /\ StoreInv /\ StoreTypeOK /\ RequestInv /\ TupleInv /\ ImportTypeOK /\ LessonInv /\ RoomInv
    BY DEF SystemInv, AnswerInv, ServiceInv, StoreInv, ImportInv
  <2>1. ASSUME NEW r \in Request, Serve(r)
        PROVE  Step1 /\ Step2 /\ Step3
    <3>1. stage' = stage /\ \A b \in bookings' \ bookings : ~IsParsed(b)
      BY <2>0, <2>1, RequestEffect DEF Serve, importVars
    <3>2. Parsed' \subseteq Parsed /\ \A i \in Importer : ~Commits(i)
      BY <3>1 DEF Parsed, IsParsed, Commits
    <3>3. \A b \in Parsed \ Parsed' : b \in bookings \ bookings'
      BY DEF Parsed, IsParsed
    <3>4. Step2
      BY <2>0, <2>1, <3>3, DeletionIsAuthorised DEF Serve
    <3>. QED  BY <3>2, <3>4
  <2>2. ASSUME NEW i \in Importer, Import(i), ~CommitImport(i)
        PROVE  Step1 /\ Step2 /\ Step3
    <3>1. bookings' = bookings
      BY <2>0, <2>2, ImportEffect DEF Import
    <3>2. ~Commits(i)
      BY <2>0, <2>2 DEF Import, ImportStep, AbortImport, Begin, DeleteParsed, FindStaleRooms,
         DeleteStaleRooms, RestrictRooms, UpsertRooms, ProposeLesson, PlaceLesson, SkipLesson,
         FailImport, Proceed, Commits, ImportTypeOK
    <3>3. \A j \in Importer \ {i} : ~Commits(j)
      BY <2>0, <2>2, ImportFrame DEF Import, Commits
    <3>4. Parsed' = Parsed
      BY <3>1 DEF Parsed, IsParsed
    <3>. QED  BY <3>2, <3>3, <3>4
  <2>3. ASSUME NEW i \in Importer, Import(i), CommitImport(i)
        PROVE  Step1 /\ Step2 /\ Step3
    <3>1. Commits(i) /\ stage[i] \in Emptied
      BY <2>0, <2>3 DEF CommitImport, Proceed, Commits, ImportTypeOK, Emptied
    <3>2. \A j \in Importer \ {i} : ~Commits(j)
      BY <2>0, <2>3, ImportFrame DEF Import, Commits
    <3>3. bookings' = (bookings \ deleted[i]) \cup inserted[i]
      BY <2>3 DEF CommitImport, Commit
    <3>4. Parsed \subseteq deleted[i] /\ \A b \in inserted[i] : IsParsed(b)
      BY <2>0, <3>1 DEF ClearedInv, LessonInv
    <3>5. Parsed' = inserted[i]
      BY <3>3, <3>4 DEF Parsed, IsParsed
    <3>6. {SlotOf(b) : b \in inserted[i]} = Placed(i)
      BY <2>0, <2>3, CommitPlaces DEF SlotsOf
    <3>. QED  BY <3>1, <3>2, <3>5, <3>6
  <2>. QED  BY <2>1, <2>2, <2>3 DEF SystemNext
<1>. QED
  BY <1>1, ImportBegins, ClearedKept, SlotsKept, SystemInvariant, PTL DEF SystemSpec, ImportIsAtomic

-----------------------------------------------------------------------------
(***************************************************************************)
(* The service beside imports implements the calendar: what a request does *)
(* is what it does without them, and an import is the one step in which it *)
(* commits.                                                                *)
(***************************************************************************)

\* A commit puts the timetable into the place of the old one.
LEMMA CommitReschedules ==
  ASSUME SystemInv, ClearedInv, SlotInv, UNCHANGED requestVars,
         NEW i \in Importer, CommitImport(i)
  PROVE  Commits(i) /\ Promise!Reschedule(Placed(i))
<1>0. /\ StoreInv /\ StoreTypeOK /\ UniqueIds /\ NoOpenConflict /\ LessonInv /\ ImportTypeOK
      /\ i \in Session
  BY ImportAssumption DEF SystemInv, AnswerInv, ServiceInv, StoreInv, ImportInv
<1>1. bookings' = (bookings \ deleted[i]) \cup inserted[i]
  BY DEF CommitImport, Commit
<1>2. \A b \in bookings : b \in deleted[i] <=> IsParsed(b)
  BY <1>0 DEF CommitImport, Proceed, ClearedInv, Emptied, LessonInv, Parsed
<1>3. \A b \in inserted[i] : \A c \in bookings : b.id # c.id
  BY <1>0 DEF UniqueIds, OpenRows
<1>4. bookings' \ bookings = inserted[i]
  BY <1>1, <1>3
<1>5. ASSUME NEW b \in inserted[i]
      PROVE  /\ Promise!IsParsed(b)
             /\ \A c \in bookings : b.id # c.id
             /\ \A c \in bookings' \ {b} : b.id # c.id /\ ~Promise!Clash(b, c)
  <2>1. Promise!IsParsed(b)
    BY <1>0 DEF LessonInv, IsParsed, Promise!IsParsed, ParserUser, Promise!ParserUser
  <2>3. ASSUME NEW c \in bookings' \ {b}
        PROVE  b.id # c.id /\ ~Conflicts(b, c)
    <3>1. CASE c \in inserted[i]
      BY <1>0, <3>1 DEF UniqueIds, OpenRows, NoOpenConflict
    <3>2. CASE c \in bookings \ deleted[i]
      BY <1>0, <1>3, <3>2 DEF NoOpenConflict
    <3>. QED  BY <1>1, <3>1, <3>2
  <2>. QED  BY <1>3, <2>1, <2>3, SameWords
<1>6. bookings' = (bookings \ {b \in bookings : Promise!IsParsed(b)}) \cup (bookings' \ bookings)
  BY <1>1, <1>2, <1>4 DEF IsParsed, Promise!IsParsed, ParserUser, Promise!ParserUser
<1>7. call' = call /\ verdicts' = verdicts
  BY DEF requestVars, verdicts, Verdict, At, Outcome, Creating
<1>8. {Promise!SlotOf(b) : b \in bookings' \ bookings} = Placed(i)
  BY <1>0, <1>4, CommitPlaces DEF SlotsOf, SlotOf, Promise!SlotOf
<1>9. Commits(i)
  BY <1>0 DEF CommitImport, Proceed, Commits, ImportTypeOK
<1>. QED  BY <1>4, <1>5, <1>6, <1>7, <1>8, <1>9 DEF Promise!Reschedule, verdicts

\* Clients cannot tell the service beside imports from a calendar on which every
\* call, and every replacement of the timetable, is one step, as long as one import
\* runs at a time.  Of two at once, the later would leave the lessons of the other.
THEOREM SystemImplementsCalendar ==
  SystemSpec /\ []OneAtATime => ImplementsSharedCalendar
<1>1. SystemInit => Promise!Init
  <2>. SUFFICES ASSUME SystemInit PROVE Promise!Init
    OBVIOUS
  <2>1. \A r \in Request : Verdict(r) = "none"
    BY DEF SystemInit, Init, Verdict, At
  <2>. QED  BY <2>1 DEF SystemInit, Init, StoreInit, Promise!Init
<1>2. SystemInv /\ ClearedInv /\ SlotInv /\ [SystemNext]_systemVars =>
        [\/ Promise!Next
         \/ \E i \in Importer :
              Commits(i) /\ Promise!Reschedule(Placed(i))]_(Promise!calendarVars)
  <2>. SUFFICES ASSUME SystemInv, ClearedInv, SlotInv, [SystemNext]_systemVars
                PROVE  \/ Promise!Next
                       \/ \E i \in Importer : Commits(i) /\ Promise!Reschedule(Placed(i))
                       \/ UNCHANGED Promise!calendarVars
    OBVIOUS
  <2>0. StoreInv /\ RequestInv /\ TupleInv /\ StoreTypeOK
    BY DEF SystemInv, AnswerInv, ServiceInv, StoreInv
  <2>1. ASSUME NEW r \in Request, Serve(r)
        PROVE  Promise!Next \/ UNCHANGED Promise!calendarVars
    BY <2>0, <2>1, StepPromised DEF Serve
  <2>2. ASSUME NEW i \in Importer, Import(i)
        PROVE  \/ Commits(i) /\ Promise!Reschedule(Placed(i))
               \/ UNCHANGED Promise!calendarVars
    <3>1. CASE CommitImport(i)
      BY <2>2, <3>1, CommitReschedules DEF Import
    <3>2. CASE bookings' = bookings
      BY <2>2, <3>2 DEF Import, requestVars, Promise!calendarVars, Verdict, At, Outcome, Creating
    <3>. QED  BY <2>0, <2>2, <3>1, <3>2, ImportEffect DEF Import
  <2>3. CASE UNCHANGED systemVars
    BY <2>3 DEF systemVars, storeVars, requestVars, Promise!calendarVars, Verdict, At, Outcome,
       Creating
  <2>. QED  BY <2>1, <2>2, <2>3 DEF SystemNext
<1>. QED
  BY <1>1, <1>2, ImportBegins, ClearedKept, SlotsKept, SystemInvariant, PTL
     DEF SystemSpec, ImplementsSharedCalendar

==============================================================================
