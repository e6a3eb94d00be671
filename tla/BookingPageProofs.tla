-------------------------- MODULE BookingPageProofs --------------------------
(***************************************************************************)
(* Proofs about BookingPage, for any rooms, dates and times, any number of *)
(* calls under way and any number of restarts of the service.              *)
(*                                                                         *)
(* Whoever has seen "ready", on whatever way it came, has seen it of a     *)
(* service with a timetable, and a refresh has been asked for (GateInv).   *)
(* A call for a timetable that has not been cancelled is for the room that *)
(* is selected, so its answer can only be of that room (FormInv).          *)
(***************************************************************************)
EXTENDS BookingPage, TLAPS

Status == {"none", "running", "ready", "failed"}
Poll == [n : 1 .. MaxPolls, answer : Status]
Slot == [date : Date, time : Time]
Call == [n : 1 .. MaxLoads, room : Room, answer : SUBSET Slot,
         step : {"sent", "answered", "failed"}, cancelled : BOOLEAN]

Booking == [room : Room, date : Date, time : Time]

ServiceTypeOK == status \in Status \ {"none"} /\ imported \in BOOLEAN

GateTypeOK ==
  /\ render \in {"none", "user", "status", "rooms", "deliver"} /\ heard \in Status \ {"ready"}
  /\ again \in BOOLEAN /\ excuse \in BOOLEAN
  /\ rooms \in {{}, Room}
  /\ shown \in Status \cup {"absent"} /\ next \in Status /\ effect \in BOOLEAN
  /\ polls \subseteq Poll

FormTypeOK ==
  /\ form \in [room : Room \cup {None}, date : Date \cup {None}, time : Time \cup {None}]
  /\ schedule \in [items : SUBSET Slot, loading : BOOLEAN, error : BOOLEAN]
  /\ loads \subseteq Call

\* Somebody has been told that the timetable is there, or is about to be.
ReadyHeard ==
  \/ "ready" \in {status, shown, next} \/ render = "rooms"
  \/ \E p \in polls : p.answer = "ready"

GateInv ==
  /\ shown = "absent" => next = "none" /\ ~effect /\ polls = {}
  /\ ReadyHeard => imported
  /\ shown = "ready" \/ next = "ready" =>
       /\ rooms = Room \/ again \/ render # "none" \/ excuse
       /\ render = "deliver" => again \/ excuse

FormInv ==
  /\ \A l \in loads :
       /\ ~l.cancelled => l.room = form.room
       /\ \A i \in l.answer : [room |-> l.room, date |-> i.date, time |-> i.time] \in taken
  /\ OfferOfRoom /\ LoadingEnds

\* What is booked, and what is being booked.
PostInv == taken \subseteq Booking /\ (post = Blank \/ post \in Booking)

PageInv == ServiceTypeOK /\ GateTypeOK /\ FormTypeOK /\ GateInv /\ FormInv

LEMMA PageInit == Init => PageInv
<1>. SUFFICES ASSUME Init PROVE PageInv
  OBVIOUS
<1>1. ServiceTypeOK /\ GateTypeOK /\ GateInv
  BY DEF Init, ServiceTypeOK, GateTypeOK, GateInv, ReadyHeard, Status
<1>2. form.room = None /\ form.time = None /\ schedule.items = {} /\ ~schedule.loading /\ loads = {}
  BY DEF Init, Blank, NoSchedule
<1>3. FormTypeOK
  BY DEF Init, FormTypeOK, Blank, NoSchedule
<1>4. FormInv
  BY <1>2 DEF FormInv, OfferOfRoom, LoadingEnds
<1>. QED  BY <1>1, <1>3, <1>4 DEF PageInv

-----------------------------------------------------------------------------
\* What concerns the gate alone.

\* The gate's part of the invariant speaks of nothing of the form's.
LEMMA GateUntouched ==
  ASSUME GateTypeOK, GateInv, ServiceTypeOK, UNCHANGED <<page, gate>>,
         UNCHANGED <<status, imported>>
  PROVE  GateTypeOK' /\ GateInv' /\ ServiceTypeOK'
BY DEF GateTypeOK, GateInv, ServiceTypeOK, ReadyHeard, page, gate

\* The form's part is kept by whatever leaves the form alone, if bookings stay.
LEMMA FormUntouched ==
  ASSUME FormTypeOK, FormInv, UNCHANGED booking, taken \subseteq taken'
  PROVE  FormTypeOK' /\ FormInv'
<1>1. UNCHANGED <<form, schedule, loads, picked>>
  BY DEF booking
<1>2. FormTypeOK' /\ LoadingEnds'
  BY <1>1 DEF FormTypeOK, FormInv, LoadingEnds
<1>3. OfferOfRoom'
  BY <1>1 DEF FormInv, OfferOfRoom
<1>4. \A l \in loads :
        /\ ~l.cancelled => l.room = form.room
        /\ \A i \in l.answer : [room |-> l.room, date |-> i.date, time |-> i.time] \in taken'
  BY DEF FormInv
<1>. QED  BY <1>1, <1>2, <1>3, <1>4 DEF FormInv

\* What the service and other people do.
LEMMA ServerStep ==
  ASSUME PageInv, Server
  PROVE  PageInv'
<1>. USE DEF PageInv
<1>1. CASE Verdict
  <2>1. GateTypeOK' /\ GateInv' /\ ServiceTypeOK'
    <3>1. UNCHANGED <<render, heard, again, excuse, rooms, shown, next, effect, polls>>
      BY <1>1 DEF Verdict, page, gate
    <3>2. \/ status' = "ready" /\ imported' = TRUE
          \/ status' = "failed" /\ imported' = imported
      BY <1>1 DEF Verdict
    <3>3. GateTypeOK' /\ ServiceTypeOK'
      <4>1. GateTypeOK'
        BY <3>1 DEF GateTypeOK
      <4>2. status' \in Status \ {"none"}
        BY <3>2 DEF Status
      <4>3. imported \in BOOLEAN
        BY DEF ServiceTypeOK
      <4>4. imported' \in BOOLEAN
        BY ONLY <3>2, <4>3, Zenon
      <4>. QED  BY <4>1, <4>2, <4>4 DEF ServiceTypeOK
    <3>4. ReadyHeard' => imported'
      BY <3>1, <3>2 DEF GateInv, ReadyHeard
    <3>. QED  BY <3>1, <3>3, <3>4 DEF GateInv
  <2>. QED  BY <1>1, <2>1, FormUntouched DEF Verdict
<1>2. CASE Restart
  <2>1. GateTypeOK' /\ GateInv' /\ ServiceTypeOK'
    BY <1>2 DEF Restart, GateTypeOK, GateInv, ServiceTypeOK, ReadyHeard, Status, page, gate
  <2>. QED  BY <1>2, <2>1, FormUntouched DEF Restart
<1>3. CASE OthersBook
  <2>1. taken \subseteq taken'
    BY <1>3 DEF OthersBook
  <2>. QED  BY <1>3, <2>1, GateUntouched, FormUntouched DEF OthersBook
<1>. QED  BY <1>1, <1>2, <1>3 DEF Server

-----------------------------------------------------------------------------
\* The page.

\* Cancelled calls are the same calls.
LEMMA CancelAll ==
  ASSUME FormTypeOK, FormInv
  PROVE  LET old == {[l EXCEPT !.cancelled = TRUE] : l \in loads}
         IN  /\ old \subseteq Call
             /\ \A l \in old : /\ l.cancelled
                               /\ \A i \in l.answer : [room |-> l.room, date |-> i.date, time |-> i.time] \in taken
<1>1. SUFFICES ASSUME NEW l \in loads
               PROVE  LET k == [l EXCEPT !.cancelled = TRUE]
                      IN  /\ k \in Call /\ k.cancelled
                          /\ \A i \in k.answer : [room |-> k.room, date |-> i.date, time |-> i.time] \in taken
  OBVIOUS
<1>. DEFINE k == [l EXCEPT !.cancelled = TRUE]
<1>2. k \in Call /\ k.cancelled /\ k.answer = l.answer /\ k.room = l.room
  BY DEF FormTypeOK, Call
<1>. HIDE DEF k
<1>3. \A i \in k.answer : [room |-> k.room, date |-> i.date, time |-> i.time] \in taken
  BY <1>2 DEF FormInv
<1>. QED  BY <1>2, <1>3 DEF k

\* A form that is dropped leaves its calls behind.
LEMMA FormDropped ==
  ASSUME FormTypeOK, FormInv, DropForm, taken' = taken
  PROVE  FormTypeOK' /\ FormInv'
<1>1. /\ form' = Blank /\ schedule' = NoSchedule
      /\ loads' = {[l EXCEPT !.cancelled = TRUE] : l \in loads}
  BY DEF DropForm
<1>2. FormTypeOK'
  BY <1>1, CancelAll DEF FormTypeOK, Blank, NoSchedule
<1>3. FormInv'
  BY <1>1, CancelAll DEF FormInv, OfferOfRoom, LoadingEnds, Blank, NoSchedule
<1>. QED  BY <1>2, <1>3

\* A gate that is mounted shows what it was given, one that was there what it had.
LEMMA Mounted ==
  ASSUME GateTypeOK, NEW seen \in Status, Mount(seen)
  PROVE  /\ shown' \in Status /\ next' \in Status /\ effect' \in BOOLEAN /\ polls' = polls
         /\ shown' = "ready" => shown = "ready" \/ seen = "ready"
         /\ next' = "ready" => next = "ready" \/ seen = "ready"
BY DEF Mount, GateTypeOK, Waits, Final

\* A render of the page on its server, and what asks for one.
LEMMA PageStep ==
  ASSUME PageInv, Page
  PROVE  PageInv'
<1>. USE DEF PageInv
<1>1. UNCHANGED service /\ FormTypeOK' /\ FormInv' /\ ServiceTypeOK'
  <2>1. UNCHANGED service /\ (UNCHANGED booking \/ DropForm)
    BY DEF Page, Render, RenderUser, Redirect, Open, RenderStatus, Deliver, RenderRooms, Refresh, RetryButton
  <2>. QED  BY <2>1, FormUntouched, FormDropped DEF service, ServiceTypeOK
<1>2. UNCHANGED <<status, imported>>
  BY <1>1 DEF service
<1>3. CASE RenderUser \/ Open \/ Refresh \/ RetryButton
  <2>1. /\ UNCHANGED <<heard, excuse, rooms, shown, next, effect, polls>>
        /\ \/ render' = "status" /\ again' = again
           \/ render' = "user" /\ again' \in {again, FALSE}
           \/ render' = render /\ again' = TRUE
    BY <1>3 DEF RenderUser, Open, Refresh, RetryButton, gate
  <2>2. GateTypeOK'
    BY <2>1 DEF GateTypeOK
  <2>3. ReadyHeard' => ReadyHeard
    BY <1>2, <2>1 DEF ReadyHeard
  <2>. QED  BY <1>1, <1>2, <2>1, <2>2, <2>3 DEF GateInv
<1>4. CASE Redirect
  BY <1>1, <1>2, <1>4 DEF Redirect, GateTypeOK, GateInv, ReadyHeard, Status
<1>5. CASE RenderStatus
  <2>1. PICK seen \in {status, "none"} :
          /\ excuse' = (seen = "none" \/ (imported /\ seen # "ready"))
          /\ IF seen = "ready" THEN render' = "rooms" /\ UNCHANGED heard
                               ELSE render' = "deliver" /\ heard' = seen
    BY <1>5 DEF RenderStatus
  <2>2. seen \in Status /\ UNCHANGED <<again, rooms, gate>>
    BY <1>5 DEF RenderStatus, ServiceTypeOK, Status
  <2>3. CASE seen = "ready"
    <3>1. ReadyHeard /\ status = "ready"
      BY <2>1, <2>3 DEF ReadyHeard
    <3>. QED  BY <1>1, <1>2, <2>1, <2>2, <2>3, <3>1 DEF GateTypeOK, GateInv, ReadyHeard, gate
  <2>4. CASE seen # "ready"
    <3>1. shown = "ready" \/ next = "ready" => excuse'
      BY <2>1, <2>4 DEF GateInv, ReadyHeard
    <3>. QED  BY <1>1, <1>2, <2>1, <2>2, <2>4, <3>1 DEF GateTypeOK, GateInv, ReadyHeard, gate
  <2>. QED  BY <2>3, <2>4
<1>6. CASE Deliver
  <2>1. /\ render = "deliver" /\ render' = "none" /\ rooms' = {} /\ heard' = "none"
        /\ UNCHANGED <<again, excuse>> /\ Mount(heard)
    BY <1>6 DEF Deliver
  <2>2. heard \in Status /\ heard # "ready"
    BY DEF GateTypeOK
  <2>3. /\ shown' \in Status /\ next' \in Status /\ effect' \in BOOLEAN /\ polls' = polls
        /\ shown' = "ready" => shown = "ready"
        /\ next' = "ready" => next = "ready"
    BY <2>1, <2>2, Mounted
  <2>4. GateTypeOK'
    BY <2>1, <2>3 DEF GateTypeOK, Status
  <2>. QED  BY <1>1, <1>2, <2>1, <2>3, <2>4 DEF GateInv, ReadyHeard, Status
<1>7. CASE RenderRooms
  <2>1. /\ render' = "none" /\ Mount("ready") /\ UNCHANGED <<heard, again>>
        /\ (rooms' = Room /\ excuse' = excuse) \/ (rooms' = {} /\ excuse' = TRUE)
        /\ imported
    BY <1>7 DEF RenderRooms, ReadyHeard, GateInv
  <2>2. shown' \in Status /\ next' \in Status /\ effect' \in BOOLEAN /\ polls' = polls
    BY <2>1, Mounted DEF Status
  <2>3. GateTypeOK'
    BY <2>1, <2>2 DEF GateTypeOK
  <2>. QED  BY <1>1, <1>2, <2>1, <2>2, <2>3 DEF GateInv, Status
<1>. QED  BY <1>3, <1>4, <1>5, <1>6, <1>7 DEF Page, Render

-----------------------------------------------------------------------------
\* The gate.

\* What a call of the interval does until it is answered.
LEMMA PollStep ==
  ASSUME PageInv, NEW p \in polls, Answer(p) \/ Fail(p) \/ Receive(p)
  PROVE  PageInv'
<1>. USE DEF PageInv
<1>1. FormTypeOK' /\ FormInv' /\ ServiceTypeOK' /\ UNCHANGED <<status, imported>>
  <2>1. UNCHANGED <<service, booking>>
    BY DEF Answer, Fail, Receive
  <2>. QED  BY <2>1, FormUntouched DEF service, ServiceTypeOK
<1>2. p \in Poll /\ shown # "absent"
  BY DEF GateTypeOK, GateInv
<1>3. CASE Answer(p)
  <2>. DEFINE q == [p EXCEPT !.answer = status]
  <2>1. q \in Poll /\ q.answer = status
    BY <1>2 DEF Poll, ServiceTypeOK
  <2>. HIDE DEF q
  <2>2. polls' = (polls \ {p}) \cup {q} /\ UNCHANGED <<page, shown, next, effect>>
    BY <1>3 DEF Answer, q
  <2>3. ReadyHeard' => ReadyHeard
    BY <1>1, <2>1, <2>2 DEF ReadyHeard, page
  <2>4. GateTypeOK'
    BY <2>1, <2>2 DEF GateTypeOK, page
  <2>. QED  BY <1>1, <1>2, <2>2, <2>3, <2>4 DEF GateInv, page
<1>4. CASE Fail(p)
  BY <1>1, <1>2, <1>4 DEF Fail, GateTypeOK, GateInv, ReadyHeard, page
<1>5. CASE Receive(p)
  <2>1. /\ polls' = polls \ {p} /\ next' = p.answer /\ again' = (again \/ p.answer = "ready")
        /\ UNCHANGED <<render, heard, excuse, rooms, shown, effect>>
    BY <1>5 DEF Receive
  <2>2. ReadyHeard' => ReadyHeard
    BY <1>1, <2>1 DEF ReadyHeard
  <2>. QED  BY <1>1, <1>2, <2>1, <2>2 DEF GateTypeOK, GateInv, Poll
<1>. QED  BY <1>3, <1>4, <1>5

\* The interval, the paint and its effects.
LEMMA GateStep ==
  ASSUME PageInv, Gate
  PROVE  PageInv'
<1>. USE DEF PageInv
<1>1. CASE Tick
  <2>1. PICK n \in 1 .. MaxPolls : polls' = polls \cup {[n |-> n, answer |-> "none"]}
    BY <1>1 DEF Tick
  <2>. DEFINE q == [n |-> n, answer |-> "none"]
  <2>2. q \in Poll /\ q.answer = "none"
    BY DEF Poll, Status
  <2>. HIDE DEF q
  <2>3. polls' = polls \cup {q} /\ UNCHANGED <<service, page, shown, next, effect, booking>> /\ effect
    BY <1>1, <2>1 DEF Tick, q
  <2>4. GateTypeOK' /\ GateInv'
    BY <2>2, <2>3 DEF GateTypeOK, GateInv, ReadyHeard, page, service
  <2>. QED  BY <2>3, <2>4, FormUntouched DEF service, ServiceTypeOK
<1>2. CASE Paint
  <2>1. /\ shown # "absent" /\ shown' = next /\ Unmount
        /\ UNCHANGED <<service, page, next, effect, polls>>
    BY <1>2 DEF Paint
  <2>2. GateTypeOK' /\ GateInv' /\ ServiceTypeOK'
    BY <2>1 DEF GateTypeOK, GateInv, ServiceTypeOK, ReadyHeard, Status, page, service
  <2>3. CASE next = "ready"
    BY <2>1, <2>2, <2>3, FormUntouched DEF Unmount, service
  <2>4. CASE next # "ready"
    <3>1. DropForm /\ taken' = taken
      BY <2>1, <2>4 DEF Unmount, service
    <3>. QED  BY <2>2, <3>1, FormDropped
  <2>. QED  BY <2>3, <2>4
<1>3. CASE RunEffect
  <2>1. GateTypeOK' /\ GateInv' /\ ServiceTypeOK'
    BY <1>3 DEF RunEffect, GateTypeOK, GateInv, ServiceTypeOK, ReadyHeard, Waits, page, service
  <2>. QED  BY <1>3, <2>1, FormUntouched DEF RunEffect, service
<1>. QED  BY <1>1, <1>2, <1>3, PollStep DEF Gate

-----------------------------------------------------------------------------
\* The form.

LEMMA UserStep ==
  ASSUME PageInv, User
  PROVE  PageInv'
<1>. USE DEF PageInv
<1>1. GateTypeOK' /\ GateInv' /\ ServiceTypeOK' /\ taken' = taken
  <2>1. UNCHANGED <<service, page, gate>>
    BY DEF User, SelectRoom, SelectDate, SelectTime, Submit
  <2>. QED  BY <2>1, GateUntouched DEF service
<1>2. ASSUME NEW r \in Room \cup {None}, SelectRoom(r)
      PROVE  FormTypeOK' /\ FormInv'
  <2>. DEFINE old == {[l EXCEPT !.cancelled = TRUE] : l \in loads}
  <2>1. /\ old \subseteq Call
        /\ \A l \in old : /\ l.cancelled
                          /\ \A i \in l.answer : [room |-> l.room, date |-> i.date, time |-> i.time] \in taken
    BY CancelAll
  <2>2. /\ form' = [form EXCEPT !.room = r, !.time = None]
        /\ IF r = None
           THEN schedule' = [NoSchedule EXCEPT !.loading = schedule.loading] /\ loads' = old
           ELSE /\ schedule' = [NoSchedule EXCEPT !.loading = TRUE]
                /\ \E n \in 1 .. MaxLoads : loads' = old \cup {Load(n, r)}
    BY <1>2 DEF SelectRoom
  <2>. HIDE DEF old
  <2>3. form'.room = r /\ form'.time = None
        /\ form' \in [room : Room \cup {None}, date : Date \cup {None}, time : Time \cup {None}]
    BY <2>2 DEF FormTypeOK
  <2>4. CASE r = None
    <3>1. schedule' \in [items : SUBSET Slot, loading : BOOLEAN, error : BOOLEAN]
      BY <2>2, <2>4 DEF FormTypeOK, NoSchedule
    <3>. QED  BY <1>1, <2>1, <2>2, <2>3, <2>4, <3>1 DEF FormTypeOK, FormInv, OfferOfRoom, LoadingEnds
  <2>5. CASE r # None
    <3>1. PICK n \in 1 .. MaxLoads : loads' = old \cup {Load(n, r)}
      BY <2>2, <2>5
    <3>. DEFINE new == Load(n, r)
    <3>2. new \in Call /\ new.room = r /\ ~new.cancelled /\ new.answer = {}
      BY <2>5 DEF Load, Call
    <3>. HIDE DEF new
    <3>3. loads' = old \cup {new}
      BY <3>1 DEF new
    <3>4. /\ schedule' \in [items : SUBSET Slot, loading : BOOLEAN, error : BOOLEAN]
          /\ schedule'.items = {}
      BY <2>2, <2>5 DEF NoSchedule
    <3>. QED  BY <1>1, <2>1, <2>3, <2>5, <3>2, <3>3, <3>4 DEF FormTypeOK, FormInv, OfferOfRoom, LoadingEnds
  <2>. QED  BY <2>4, <2>5
<1>3. ASSUME NEW d \in Date, SelectDate(d)
      PROVE  FormTypeOK' /\ FormInv'
  <2>1. form' = [form EXCEPT !.date = d, !.time = None] /\ UNCHANGED <<schedule, loads>>
    BY <1>3 DEF SelectDate
  <2>2. /\ form'.room = form.room /\ form'.time = None
        /\ form' \in [room : Room \cup {None}, date : Date \cup {None}, time : Time \cup {None}]
    BY <2>1 DEF FormTypeOK
  <2>. QED  BY <1>1, <2>1, <2>2 DEF FormTypeOK, FormInv, OfferOfRoom, LoadingEnds
<1>4. ASSUME NEW t \in Time, SelectTime(t)
      PROVE  FormTypeOK' /\ FormInv'
  <2>1. form' = [form EXCEPT !.time = t] /\ picked' = form' /\ UNCHANGED <<schedule, loads>>
    BY <1>4 DEF SelectTime
  <2>2. /\ form'.room = form.room
        /\ form' \in [room : Room \cup {None}, date : Date \cup {None}, time : Time \cup {None}]
    BY <2>1 DEF FormTypeOK
  <2>. QED  BY <1>1, <2>1, <2>2 DEF FormTypeOK, FormInv, OfferOfRoom, LoadingEnds
<1>5. CASE Submit
  BY <1>1, <1>5 DEF Submit, FormTypeOK, FormInv, OfferOfRoom, LoadingEnds
<1>. QED  BY <1>1, <1>2, <1>3, <1>4, <1>5 DEF User

\* An answered or a failed call stands for the one that was sent.
LEMMA LoadAnswered ==
  ASSUME FormTypeOK, FormInv, taken' = taken, UNCHANGED <<form, schedule, picked>>,
         NEW l \in loads, NEW k \in Call, loads' = (loads \ {l}) \cup {k},
         k.room = l.room, k.cancelled = l.cancelled,
         \A i \in k.answer : [room |-> k.room, date |-> i.date, time |-> i.time] \in taken
  PROVE  FormTypeOK' /\ FormInv'
<1>1. FormTypeOK'
  BY DEF FormTypeOK
<1>2. LoadingEnds'
  <2>1. SUFFICES ASSUME schedule.loading, form.room # None
                 PROVE  \E m \in loads' : m.room = form.room /\ ~m.cancelled
    BY DEF LoadingEnds
  <2>2. PICK m \in loads : m.room = form.room /\ ~m.cancelled
    BY <2>1 DEF FormInv, LoadingEnds
  <2>. QED  BY <2>2
<1>. QED  BY <1>1, <1>2 DEF FormInv, OfferOfRoom

\* The answer to a call for a timetable, on its way and received.
LEMMA LoadStep ==
  ASSUME PageInv, PostInv, NEW l \in loads, AnswerLoad(l) \/ FailLoad(l) \/ ReceiveLoad(l)
  PROVE  PageInv'
<1>. USE DEF PageInv
<1>1. GateTypeOK' /\ GateInv' /\ ServiceTypeOK' /\ taken' = taken
  <2>1. UNCHANGED <<service, page, gate>>
    BY DEF AnswerLoad, FailLoad, ReceiveLoad
  <2>. QED  BY <2>1, GateUntouched DEF service
<1>2. l \in Call
  BY DEF FormTypeOK
<1>3. CASE AnswerLoad(l)
  <2>. DEFINE items == {[date |-> b.date, time |-> b.time] : b \in {c \in taken : c.room = l.room}}
              k == [l EXCEPT !.step = "answered", !.answer = items]
  <2>1. k \in Call /\ k.room = l.room /\ k.cancelled = l.cancelled /\ k.answer = items
    <3>. HIDE DEF items
    <3>1. items \in SUBSET Slot
      BY DEF items, PostInv, Booking, Slot
    <3>. QED  BY <1>2, <3>1 DEF Call
  <2>2. loads' = (loads \ {l}) \cup {k} /\ UNCHANGED <<form, schedule, picked>>
    BY <1>3 DEF AnswerLoad
  <2>3. \A i \in items : [room |-> l.room, date |-> i.date, time |-> i.time] \in taken
    <3>. TAKE i \in items
    <3>1. PICK b \in taken : b.room = l.room /\ i = [date |-> b.date, time |-> b.time]
      OBVIOUS
    <3>2. b \in Booking /\ b = [room |-> l.room, date |-> i.date, time |-> i.time]
      BY <3>1 DEF PostInv, Booking
    <3>. QED  BY <3>2
  <2>. HIDE DEF k, items
  <2>. QED  BY <1>1, <2>1, <2>2, <2>3, LoadAnswered
<1>4. CASE FailLoad(l)
  <2>. DEFINE k == [l EXCEPT !.step = "failed"]
  <2>1. k \in Call /\ k.room = l.room /\ k.cancelled = l.cancelled /\ k.answer = l.answer
    BY <1>2 DEF Call
  <2>2. loads' = (loads \ {l}) \cup {k} /\ UNCHANGED <<form, schedule, picked>>
    BY <1>4 DEF FailLoad
  <2>3. \A i \in k.answer : [room |-> k.room, date |-> i.date, time |-> i.time] \in taken
    BY <2>1 DEF FormInv
  <2>. HIDE DEF k
  <2>. QED  BY <1>1, <2>1, <2>2, <2>3, LoadAnswered
<1>5. CASE ReceiveLoad(l) /\ l.cancelled
  <2>1. loads' = loads \ {l} /\ UNCHANGED <<form, schedule, picked>>
    BY <1>5 DEF ReceiveLoad
  <2>. QED  BY <1>1, <1>5, <2>1 DEF FormTypeOK, FormInv, OfferOfRoom, LoadingEnds
<1>6. CASE ReceiveLoad(l) /\ ~l.cancelled
  <2>1. /\ loads' = loads \ {l} /\ UNCHANGED <<form, picked>>
        /\ schedule' = [items |-> l.answer, loading |-> FALSE, error |-> l.step = "failed"]
    BY <1>6 DEF ReceiveLoad
  <2>2. /\ schedule' \in [items : SUBSET Slot, loading : BOOLEAN, error : BOOLEAN]
        /\ schedule'.items = l.answer /\ ~schedule'.loading
    BY <1>2, <2>1 DEF Call
  <2>. QED  BY <1>1, <1>6, <2>1, <2>2 DEF FormTypeOK, FormInv, OfferOfRoom, LoadingEnds
<1>. QED  BY <1>3, <1>4, <1>5, <1>6

\* The answer to a booking.
LEMMA PostStep ==
  ASSUME PageInv, Booked \/ NotBooked
  PROVE  PageInv'
<1>. USE DEF PageInv
<1>1. GateTypeOK' /\ GateInv' /\ ServiceTypeOK' /\ taken \subseteq taken'
  BY GateUntouched DEF Booked, NotBooked
<1>2. CASE NotBooked
  BY <1>1, <1>2 DEF NotBooked, FormTypeOK, FormInv, OfferOfRoom, LoadingEnds
<1>3. CASE Booked
  <2>1. form' = Blank /\ form'.room = None /\ form'.time = None
        /\ form' \in [room : Room \cup {None}, date : Date \cup {None}, time : Time \cup {None}]
    BY <1>3 DEF Booked, Blank
  <2>2. CASE form.room = None
    <3>1. UNCHANGED <<schedule, loads>>
      BY <1>3, <2>2 DEF Booked
    <3>. QED  BY <1>1, <2>1, <2>2, <3>1 DEF FormTypeOK, FormInv, OfferOfRoom, LoadingEnds
  <2>3. CASE form.room # None
    <3>1. /\ schedule' = [NoSchedule EXCEPT !.loading = schedule.loading]
          /\ loads' = {[l EXCEPT !.cancelled = TRUE] : l \in loads}
      BY <1>3, <2>3 DEF Booked
    <3>2. schedule' \in [items : SUBSET Slot, loading : BOOLEAN, error : BOOLEAN]
      BY <3>1 DEF FormTypeOK, NoSchedule
    <3>. QED  BY <1>1, <2>1, <3>1, <3>2, CancelAll DEF FormTypeOK, FormInv, OfferOfRoom, LoadingEnds
  <2>. QED  BY <2>2, <2>3
<1>. QED  BY <1>2, <1>3

-----------------------------------------------------------------------------

\* A booking that is posted is complete.
LEMMA PostKept ==
  ASSUME PageInv, PostInv, Next
  PROVE  PostInv'
<1>1. CASE Submit
  <2>1. post' = form /\ taken' = taken /\ None \notin {form.room, form.date, form.time}
    BY <1>1 DEF Submit, service
  <2>2. form \in Booking
    BY <2>1 DEF PageInv, FormTypeOK, Booking
  <2>. QED  BY <2>1, <2>2 DEF PostInv
<1>2. CASE OthersBook
  <2>1. post' = post /\ taken' \subseteq Booking
    BY <1>2 DEF OthersBook, PostInv, Booking, booking
  <2>. QED  BY <2>1 DEF PostInv
<1>3. CASE Booked \/ NotBooked
  BY <1>3 DEF Booked, NotBooked, PostInv
<1>4. CASE Paint \/ Redirect
  <2>1. taken' = taken /\ (post' = post \/ post' = Blank)
    BY <1>4 DEF Paint, Redirect, Unmount, DropForm, service, booking
  <2>. QED  BY <2>1 DEF PostInv
<1>5. CASE Verdict \/ Restart \/ (Page /\ ~Redirect) \/ Tick \/ RunEffect
           \/ \E p \in polls : Answer(p) \/ Fail(p) \/ Receive(p)
  BY <1>5 DEF PostInv, Verdict, Restart, Page, Render, RenderUser, Open, RenderStatus, Deliver, RenderRooms,
     Refresh, RetryButton, Tick, RunEffect, Answer, Fail, Receive, service, booking
<1>6. CASE \/ \E r \in Room \cup {None} : SelectRoom(r)
           \/ \E d \in Date : SelectDate(d)
           \/ \E t \in Time : SelectTime(t)
           \/ \E l \in loads : AnswerLoad(l) \/ FailLoad(l) \/ ReceiveLoad(l)
  BY <1>6 DEF PostInv, SelectRoom, SelectDate, SelectTime, AnswerLoad, FailLoad, ReceiveLoad, service
<1>. QED  BY <1>1, <1>2, <1>3, <1>4, <1>5, <1>6 DEF Next, Server, Gate, User, Calls

LEMMA PageInvariant == Spec => []PageInv
<1>1. Init => PostInv
  BY DEF Init, PostInv
<1>2. PageInv /\ PostInv /\ [Next]_vars => PageInv' /\ PostInv'
  <2>1. ASSUME PageInv, PostInv, UNCHANGED vars
        PROVE  PageInv' /\ PostInv'
    BY <2>1 DEF PageInv, PostInv, ServiceTypeOK, GateTypeOK, FormTypeOK, GateInv, FormInv, ReadyHeard,
       OfferOfRoom, LoadingEnds, vars, service, page, gate, booking
  <2>2. ASSUME PageInv, PostInv, Next
        PROVE  PageInv'
    BY <2>2, ServerStep, PageStep, GateStep, UserStep, LoadStep, PostStep DEF Next, Calls
  <2>. QED  BY <2>1, <2>2, PostKept
<1>. QED  BY <1>1, <1>2, PageInit, PTL DEF Spec

\* bookingForm.tsx and scheduleImportGate.tsx: however many answers are late,
\* lost or out of order, an open gate shows the rooms or is about to fetch them,
\* the form offers slots of the room that is selected, and does not load for ever.
THEOREM PageIsTruthful == Spec => []PageTruthful
<1>1. PageInv => PageTruthful
  BY DEF PageInv, GateTypeOK, GateInv, FormInv, PageTruthful, RoomsFollow
<1>. QED  BY <1>1, PageInvariant, PTL

==============================================================================
