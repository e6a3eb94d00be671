---------------------------- MODULE MCBookingPage ----------------------------
(***************************************************************************)
(* Two small instances of BookingPage for TLC; a behaviour is one of the   *)
(* first, with a form, or one of the second, with the gate alone.          *)
(***************************************************************************)
EXTENDS BookingPage, TLC

CONSTANTS a, b, d, t

VARIABLE part  \* "form" or "gate"

\* A restart of the service, calls for the status that overtake each other, and
\* nobody who books.  For the form, the constants of the configuration: two rooms
\* and one slot of each, and two calls for the timetable of a room at once.
Waiting ==
  INSTANCE BookingPage WITH
    Room <- {a}, Date <- {}, Time <- {}, MaxRestarts <- 1, MaxPolls <- 2, MaxLoads <- 1

\* Sound although GateDecides is a liveness property: it is about the second
\* instance, in whose behaviours no other room than a occurs.
RoomSymmetry == Permutations(Room)

MCInit == part \in {"form", "gate"} /\ Init

\* Who is sent to /login comes back in the part of the gate only.
MCNext ==
  /\ UNCHANGED part
  /\ \/ part = "form" /\ Next /\ ~Open
     \/ part = "gate" /\ Waiting!Next

MCSpec ==
  /\ MCInit /\ [][MCNext]_<<part, vars>>
  /\ part = "gate" => Waiting!Fairness

\* The promise of the gate, which the form has no part in.
WaitingEnds == part = "gate" => Waiting!GateDecides

=============================================================================
