----------------------------- MODULE BookingPage -----------------------------
(***************************************************************************)
(* The page on which a room is booked, in one browser: the gate that waits *)
(* for the timetable (scheduleImportGate.tsx) around the form that offers  *)
(* the slots a room has left (bookingForm.tsx).  Both run asynchronous     *)
(* calls whose answers come late, fail, or overtake each other.            *)
(*                                                                         *)
(* React renders the states set by one callback together.  The effects of  *)
(* a click are run with it; those of a state set by an answer run after    *)
(* the page has been painted, and other answers may come in between.       *)
(***************************************************************************)
EXTENDS Naturals, FiniteSets

CONSTANTS
  Room, Date, Time,
  None,         \* no room, no date, no time
  MaxRestarts,  \* bound: restarts of the booking service
  MaxPolls,     \* bound: calls for the status that are under way at once
  MaxLoads      \* bound: calls for the timetable of a room, at once

ASSUME PageAssumption ==
  MaxPolls \in Nat \ {0} /\ MaxLoads \in Nat \ {0} /\ None \notin Room \cup Date \cup Time

VARIABLES
  status,    \* what the booking service shows: "running", "ready", "failed"
  imported,  \* whether there is a timetable in the database
  restarts,
  taken,     \* what is booked: {[room, date, time]}
  render,    \* the page on the server of the front end, by what comes next: "none",
             \* "user", "status", "rooms", "deliver"
  heard,     \* the status which the render that is to be delivered has read
  again,     \* router.refresh() has been called since that render began
  excuse,    \* history: the last render met a failed call or a restarted service
  shown,     \* the gate, as it is painted: "absent" (not mounted), "none", or a status
  next,      \* the status set last
  effect,    \* the interval of the gate runs
  polls,     \* calls of the interval: {[n, answer]}; those whose effect has ended count no more
  rooms,     \* initialRooms
  form,      \* [room, date, time] as chosen
  schedule,  \* what the form knows of the room: [items, loading, error]
  loads,     \* calls of getRoomSchedule: {[n, room, answer, cancelled]}
  post,      \* the booking that is being made: Blank, or [room, date, time]
  picked     \* history: the form when a time was last picked from the list

service == <<status, imported, restarts, taken>>
page == <<render, heard, again, excuse, rooms>>
gate == <<shown, next, effect, polls>>
booking == <<form, schedule, loads, post, picked>>
vars == <<service, page, gate, booking>>

Final == {"ready", "failed"}
Blank == [room |-> None, date |-> None, time |-> None]
NoSchedule == [items |-> {}, loading |-> FALSE, error |-> FALSE]

Init ==
  /\ status = "running" /\ imported = FALSE /\ restarts = 0 /\ taken = {}
  /\ render = "user" /\ heard = "none" /\ again = FALSE /\ excuse = FALSE /\ rooms = {}
  /\ shown = "absent" /\ next = "none" /\ effect = FALSE /\ polls = {}
  /\ form = Blank /\ schedule = NoSchedule /\ loads = {} /\ post = Blank /\ picked = Blank

-----------------------------------------------------------------------------
\* The booking service: the verdict of its startup check, restarts, other people.

Verdict ==
  /\ status = "running"
  /\ \/ status' = "ready" /\ imported' = TRUE
     \/ status' = "failed" /\ UNCHANGED imported
  /\ UNCHANGED <<restarts, taken, page, gate, booking>>

Restart ==
  /\ restarts < MaxRestarts /\ restarts' = restarts + 1
  /\ status' = "running"
  /\ UNCHANGED <<imported, taken, page, gate, booking>>

OthersBook ==
  /\ \E r \in Room, d \in Date, t \in Time : taken' = taken \cup {[room |-> r, date |-> d, time |-> t]}
  /\ UNCHANGED <<status, imported, restarts, page, gate, booking>>

-----------------------------------------------------------------------------
\* The page: its server asks who the user is, for the status and, if it is
\* "ready", for the rooms; what it has read is delivered to the browser later.

\* Fault: whoever has been given any status has waited long enough.
WaitsForAny(s) == s = "none"

\* The effect's dependencies, isReady and isFailed.
Waits(s) == s \notin Final

\* Initial state of a gate that is mounted; a refresh keeps the one it has.
Mount(seen) ==
  /\ shown' = IF shown = "absent" THEN seen ELSE shown
  /\ next' = IF shown = "absent" THEN seen ELSE next
  /\ effect' = IF shown = "absent" THEN Waits(seen) ELSE effect
  /\ UNCHANGED polls

\* A form that is no longer shown is unmounted with all its state.  A booking
\* that it has posted goes on without it, as one of OthersBook.
DropForm ==
  /\ form' = Blank /\ schedule' = NoSchedule /\ post' = Blank /\ UNCHANGED picked
  /\ loads' = {[l EXCEPT !.cancelled = TRUE] : l \in loads}

RenderUser ==
  /\ render = "user" /\ render' = "status"
  /\ UNCHANGED <<service, heard, again, excuse, rooms, gate, booking>>

\* No token, or getMe fails, for whatever reason: the browser goes to /login, and
\* what was mounted is gone.
Redirect ==
  /\ render = "user" /\ render' = "none" /\ again' = FALSE /\ rooms' = {}
  /\ shown' = "absent" /\ next' = "none" /\ effect' = FALSE /\ polls' = {}
  /\ DropForm
  /\ UNCHANGED <<service, heard, excuse>>

\* The user comes back.
Open ==
  /\ shown = "absent" /\ render = "none" /\ render' = "user"
  /\ UNCHANGED <<service, heard, again, excuse, rooms, gate, booking>>

RenderStatus ==
  /\ render = "status"
  /\ \E seen \in {status, "none"} :
       /\ excuse' = (seen = "none" \/ (imported /\ seen # "ready"))
       /\ IF seen = "ready" THEN render' = "rooms" /\ UNCHANGED heard
                            ELSE render' = "deliver" /\ heard' = seen
  /\ UNCHANGED <<service, again, rooms, gate, booking>>

Deliver ==
  /\ render = "deliver" /\ render' = "none"
  /\ Mount(heard) /\ heard' = "none" /\ rooms' = {}
  /\ UNCHANGED <<service, again, excuse, booking>>

\* The rooms do not change once they are there: read and delivered in one step.
RenderRooms ==
  /\ render = "rooms" /\ render' = "none"
  /\ \/ rooms' = Room /\ UNCHANGED excuse
     \/ rooms' = {} /\ excuse' = TRUE
  /\ Mount("ready")
  /\ UNCHANGED <<service, heard, again, booking>>

\* Refreshes follow one another.
Refresh ==
  /\ again /\ render = "none"
  /\ again' = FALSE /\ render' = "user"
  /\ UNCHANGED <<service, heard, excuse, rooms, gate, booking>>

\* The button of a failed gate.
RetryButton ==
  /\ shown = "failed"
  /\ again' = TRUE
  /\ UNCHANGED <<service, render, heard, excuse, rooms, gate, booking>>

-----------------------------------------------------------------------------
\* The gate.

\* Every three seconds, whether or not the call before has been answered.
Tick ==
  /\ effect
  /\ \E n \in 1 .. MaxPolls :
       (\A p \in polls : p.n # n) /\ polls' = polls \cup {[n |-> n, answer |-> "none"]}
  /\ UNCHANGED <<service, page, shown, next, effect, booking>>

\* The service answers; the answer is on its way.
Answer(p) ==
  /\ p \in polls /\ p.answer = "none"
  /\ polls' = (polls \ {p}) \cup {[p EXCEPT !.answer = status]}
  /\ UNCHANGED <<service, page, shown, next, effect, booking>>

\* The call fails.
Fail(p) ==
  /\ p \in polls /\ p.answer = "none"
  /\ polls' = polls \ {p}
  /\ UNCHANGED <<service, page, shown, next, effect, booking>>

Receive(p) ==
  /\ p \in polls /\ p.answer # "none"
  /\ polls' = polls \ {p} /\ next' = p.answer
  /\ again' = (again \/ p.answer = "ready")
  /\ UNCHANGED <<service, render, heard, excuse, rooms, shown, effect, booking>>

\* The form goes with the children of the gate.
Unmount == IF next = "ready" THEN UNCHANGED booking ELSE DropForm

\* The gate is painted with the status set last.  Effects of the paint before
\* are run first.
Paint ==
  /\ shown # "absent" /\ next # shown /\ effect = Waits(shown)
  /\ shown' = next /\ Unmount
  /\ UNCHANGED <<service, page, next, effect, polls>>

RunEffect ==
  /\ shown # "absent" /\ effect # Waits(shown)
  /\ effect' = Waits(shown) /\ polls' = {}
  /\ UNCHANGED <<service, page, shown, next, booking>>

-----------------------------------------------------------------------------
\* The form.

Load(n, r) == [n |-> n, room |-> r, answer |-> {}, step |-> "sent", cancelled |-> FALSE]

\* The effect cancels the call for the room before and makes one for this room.
\* Without a room it leaves the loading flag as it is.
SelectRoom(r) ==
  /\ shown = "ready" /\ r # form.room /\ r \in rooms \cup {None}
  /\ form' = [form EXCEPT !.room = r, !.time = None]
  /\ LET old == {[l EXCEPT !.cancelled = TRUE] : l \in loads}
     IN  IF r = None
         THEN schedule' = [NoSchedule EXCEPT !.loading = schedule.loading] /\ loads' = old
         ELSE /\ schedule' = [NoSchedule EXCEPT !.loading = TRUE]
              /\ \E n \in 1 .. MaxLoads : (\A l \in loads : l.n # n) /\ loads' = old \cup {Load(n, r)}
  /\ UNCHANGED <<service, page, gate, post, picked>>

SelectDate(d) ==
  /\ shown = "ready" /\ d # form.date
  /\ form' = [form EXCEPT !.date = d, !.time = None]
  /\ UNCHANGED <<service, page, gate, schedule, loads, post, picked>>

\* availableTimeSlots
Offered ==
  IF form.room = None \/ form.date = None \/ schedule.loading \/ schedule.error THEN {}
  ELSE {t \in Time : [date |-> form.date, time |-> t] \notin schedule.items}

SelectTime(t) ==
  /\ shown = "ready" /\ t \in Offered
  /\ form' = [form EXCEPT !.time = t]
  /\ picked' = form'
  /\ UNCHANGED <<service, page, gate, schedule, loads, post>>

\* GET /rooms/{id}
AnswerLoad(l) ==
  /\ l \in loads /\ l.step = "sent"
  /\ loads' = (loads \ {l}) \cup
       {[l EXCEPT !.step = "answered",
                  !.answer = {[date |-> b.date, time |-> b.time] : b \in {c \in taken : c.room = l.room}}]}
  /\ UNCHANGED <<service, page, gate, form, schedule, post, picked>>

FailLoad(l) ==
  /\ l \in loads /\ l.step = "sent"
  /\ loads' = (loads \ {l}) \cup {[l EXCEPT !.step = "failed"]}
  /\ UNCHANGED <<service, page, gate, form, schedule, post, picked>>

\* Fault: whichever answer comes last is shown.
ReceiveAnyLoad(l) ==
  /\ l \in loads /\ l.step # "sent"
  /\ loads' = loads \ {l}
  /\ schedule' = [items |-> l.answer, loading |-> FALSE, error |-> l.step = "failed"]
  /\ UNCHANGED <<service, page, gate, form, post, picked>>

\* then, catch and finally look at the flag of their own call.
ReceiveLoad(l) ==
  /\ l \in loads /\ l.step # "sent"
  /\ loads' = loads \ {l}
  /\ IF l.cancelled THEN UNCHANGED schedule
     ELSE schedule' = [items |-> l.answer, loading |-> FALSE, error |-> l.step = "failed"]
  /\ UNCHANGED <<service, page, gate, form, post, picked>>

Submit ==
  /\ shown = "ready" /\ post = Blank /\ None \notin {form.room, form.date, form.time}
  /\ post' = form
  /\ UNCHANGED <<service, page, gate, form, schedule, loads, picked>>

\* The slot is booked, or it is not and an error is shown.  A success empties
\* the form, whatever has been chosen there since.
Booked ==
  /\ post # Blank /\ post \notin taken
  /\ taken' = taken \cup {post} /\ post' = Blank
  /\ form' = Blank
  /\ IF form.room = None THEN UNCHANGED <<schedule, loads>>
     ELSE /\ schedule' = [NoSchedule EXCEPT !.loading = schedule.loading]
          /\ loads' = {[l EXCEPT !.cancelled = TRUE] : l \in loads}
  /\ UNCHANGED <<status, imported, restarts, page, gate, picked>>

\* 409, another error, or a lost answer, with the slot booked or not.
NotBooked ==
  /\ post # Blank /\ post' = Blank
  /\ taken' \in {taken, taken \cup {post}}
  /\ UNCHANGED <<status, imported, restarts, page, gate, form, schedule, loads, picked>>

-----------------------------------------------------------------------------

Server == Verdict \/ Restart \/ OthersBook
Render == RenderUser \/ Redirect \/ RenderStatus \/ RenderRooms \/ Deliver
Page == Render \/ Open \/ Refresh \/ RetryButton
Gate == Tick \/ Paint \/ RunEffect \/ \E p \in polls : Answer(p) \/ Fail(p) \/ Receive(p)
User ==
  \/ \E r \in Room \cup {None} : SelectRoom(r)
  \/ \E d \in Date : SelectDate(d)
  \/ \E t \in Time : SelectTime(t)
  \/ Submit
Calls ==
  \/ \E l \in loads : AnswerLoad(l) \/ FailLoad(l) \/ ReceiveLoad(l)
  \/ Booked \/ NotBooked

Next == Server \/ Page \/ Gate \/ User \/ Calls

Spec == Init /\ [][Next]_vars

\* The browser and the service run, a call of the interval ends, and now and then
\* one is answered.
Fairness ==
  /\ WF_vars(Verdict) /\ WF_vars(Render)
  /\ WF_vars(Tick) /\ SF_vars(\E p \in polls : Answer(p))
  /\ \A n \in 1 .. MaxPolls : WF_vars(\E p \in polls : p.n = n /\ (Receive(p) \/ Fail(p)))
  /\ WF_vars(Paint) /\ WF_vars(RunEffect)

-----------------------------------------------------------------------------
(***************************************************************************)
(* Properties.                                                             *)
(***************************************************************************)

\* An open gate shows the rooms, if there are any, or is about to fetch them,
\* unless the call that should have brought them failed.
RoomsFollow ==
  shown = "ready" /\ rooms = {} /\ Room # {} => again \/ render # "none" \/ excuse

\* Whichever answers are late, slots are crossed out for bookings
\* of the room that is selected, and a time stands only for the room and the date
\* for which it was offered.  (No booking is cancelled here.)
OfferOfRoom ==
  /\ form.room # None =>
       \A i \in schedule.items : [room |-> form.room, date |-> i.date, time |-> i.time] \in taken
  /\ form.time # None => form = picked

\* A form with a room that says it is loading has a call under
\* way that will end it, though earlier calls were cancelled or failed.
LoadingEnds ==
  schedule.loading /\ form.room # None =>
    \E l \in loads : l.room = form.room /\ ~l.cancelled

\* Whatever answers are lost, late or out of order, the page shows what is so.
PageTruthful == RoomsFollow /\ OfferOfRoom /\ LoadingEnds

\* scheduleImportGate.tsx: whoever waits at the gate is let in, told of the
\* failure, or sent to /login by a refresh, whatever answers are lost, late or out
\* of order.
GateDecides ==
  shown \in {"none", "running"} ~> shown \in Final \cup {"absent"}

=============================================================================
