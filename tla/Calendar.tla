------------------------------ MODULE Calendar ------------------------------
(***************************************************************************)
(* What the booking service promises its clients: a calendar on which      *)
(* every request takes effect in one indivisible step between its arrival  *)
(* and its answer, and in which every answer states the truth about the    *)
(* calendar at that step.  The detailed service, with its separate reads,  *)
(* inserts, waits and aborts, is shown to implement this module; beside    *)
(* schedule imports, with their deletions and insertions row by row, it    *)
(* implements the calendar on which a timetable is replaced in one step.   *)
(***************************************************************************)
EXTENDS BookingDomain

CONSTANTS Request, InitialBookings

VARIABLES
  call,      \* request -> what it asks for
  calendar,  \* the bookings that count
  verdict    \* request -> "none" before it arrives, "pending", or its outcome

calendarVars == <<call, calendar, verdict>>

Clash(a, b) == a.room = b.room /\ Overlaps(a, b)

Entitled(caller, b) == b.user = caller.user \/ CanCancelOther(caller.role, b.role)

Named(r) == {b \in calendar : b.id = call[r].id}

Decide(r, outcome) == verdict' = [verdict EXCEPT ![r] = outcome] /\ UNCHANGED call

Init ==
  /\ calendar = InitialBookings
  /\ verdict = [r \in Request |-> "none"]

Arrive(r) ==
  /\ verdict[r] = "none"
  /\ Decide(r, "pending")
  /\ UNCHANGED calendar

\* Refused on sight: the caller's role is unknown or the range is empty.
Dismiss(r) ==
  /\ verdict[r] = "none"
  /\ \/ ~IsKnown(call[r].caller.role) /\ Decide(r, "forbidden")
     \/ /\ call[r].op = "create"
        /\ ~ValidTimeRange(call[r].start, call[r].end)
        /\ Decide(r, "invalid_range")
  /\ UNCHANGED calendar

\* "gone": the booking is made, the client never learns of it.
Reserve(r) ==
  /\ verdict[r] = "pending"
  /\ call[r].op = "create"
  /\ \E b \in calendar' \ calendar :
       /\ calendar' = calendar \cup {b}
       /\ b.room = call[r].room /\ b.start = call[r].start /\ b.end = call[r].end
       /\ b.user = call[r].caller.user /\ b.role = call[r].caller.role
       /\ \A c \in calendar : b.id # c.id /\ ~Clash(b, c)
  /\ Decide(r, "created") \/ Decide(r, "gone")

TurnDown(r) ==
  /\ verdict[r] = "pending"
  /\ call[r].op = "create"
  /\ \E c \in calendar : Clash(call[r], c)
  /\ Decide(r, "conflict")
  /\ UNCHANGED calendar

Release(r) ==
  /\ verdict[r] = "pending"
  /\ call[r].op = "cancel"
  /\ \E b \in Named(r) : Entitled(call[r].caller, b)
  /\ calendar' = calendar \ Named(r)
  /\ Decide(r, "cancelled") \/ Decide(r, "gone")

Deny(r) ==
  /\ verdict[r] = "pending"
  /\ call[r].op = "cancel"
  /\ \/ Named(r) = {} /\ Decide(r, "booking_not_found")
     \/ /\ \E b \in Named(r) : ~Entitled(call[r].caller, b)
        /\ Decide(r, "forbidden")
  /\ UNCHANGED calendar

\* The service may always give up without an effect.
GiveUp(r) ==
  /\ verdict[r] = "pending"
  /\ \E outcome \in {"internal", "gone", "room_not_found"} : Decide(r, outcome)
  /\ UNCHANGED calendar

Next ==
  \E r \in Request :
    \/ Arrive(r) \/ Dismiss(r) \/ Reserve(r) \/ TurnDown(r)
    \/ Release(r) \/ Deny(r) \/ GiveUp(r)

Spec == Init /\ [][Next]_calendarVars

-----------------------------------------------------------------------------

\* A timetable with a lesson in each of `slots` takes the place of the old one.
\* Bookings of users all stay, and no lesson meets one.
Reschedule(slots) ==
  LET old == {b \in calendar : IsParsed(b)}
      new == calendar' \ calendar
  IN  /\ calendar' = (calendar \ old) \cup new
      /\ {SlotOf(b) : b \in new} = slots
      /\ \A b \in new :
           /\ IsParsed(b)
           /\ \A c \in calendar : b.id # c.id
           /\ \A c \in calendar' \ {b} : b.id # c.id /\ ~Clash(b, c)
      /\ UNCHANGED <<call, verdict>>

=============================================================================
