---------------------------- MODULE BookingSystem ----------------------------
(***************************************************************************)
(* The booking service and the schedule import on the same tables: every   *)
(* statement of a request may run between any two statements of the import *)
(* transaction.                                                            *)
(***************************************************************************)
EXTENDS BookingService, ScheduleImport

ASSUME SystemAssumption == Request \cap Importer = {}

systemVars == <<storeVars, requestVars, importVars, contested, made>>

SystemInit == Init /\ ImportInit

Serve(r)  == (Step(r) \/ Disconnect(r)) /\ UNCHANGED importVars
Import(i) == (ImportStep(i) \/ FailImport(i)) /\ UNCHANGED requestVars

SystemNext ==
  /\ (\E r \in Request : Serve(r)) \/ (\E i \in Importer : Import(i))
  /\ Histories

SystemSpec == SystemInit /\ [][SystemNext]_systemVars

\* As in BookingService; a transaction that was begun runs its statements.
SystemFairness ==
  /\ \A r \in Request :
       WF_systemVars(pc[r] # "idle" /\ Step(r) /\ UNCHANGED importVars /\ Histories)
  /\ \A i \in Importer :
       WF_systemVars(stage[i] # "idle" /\ ImportStep(i) /\ UNCHANGED requestVars /\ Histories)

FairSystemSpec == SystemSpec /\ SystemFairness

-----------------------------------------------------------------------------
(***************************************************************************)
(* Properties.                                                             *)
(***************************************************************************)

Commits(i) == stage[i] # "committed" /\ stage'[i] = "committed"

\* The slots of the timetable that an import has not skipped.
Placed(i) ==
  {Lessons[k] : k \in {n \in DOMAIN Lessons : \A pair \in skipped[i] : pair[1] # n}}

\* A booking of a user disappears only by an authorised cancel call, whatever
\* the import deletes and skips; a lesson also by the commit of a new import.
UserBookingsKept ==
  [][\A b \in bookings \ bookings' :
       \/ \E r \in Request : Cancels(r, b)
       \/ \E i \in Importer : IsParsed(b) /\ Commits(i)]_systemVars

\* Nobody sees half a timetable, whichever statement of an import fails: lessons
\* come only with the commit of an import, and go only with it or by a cancel
\* call entitled to them.  A commit leaves the lessons of its import and no
\* others: one for every slot that it has not skipped.
ImportIsAtomic ==
  [][/\ Parsed' \subseteq Parsed \/ \E i \in Importer : Commits(i)
     /\ \A b \in Parsed \ Parsed' :
          (\E i \in Importer : Commits(i)) \/ (\E r \in Request : Cancels(r, b))
     /\ \A i \in Importer : Commits(i) =>
          Parsed' = inserted[i] /\ {SlotOf(b) : b \in Parsed'} = Placed(i)]_systemVars

\* The previous timetable never stands in the way of the new one: a lesson is
\* skipped for a user's booking or for a lesson of the same import.
SkippedForGoodReason ==
  \A i \in Importer : \A pair \in skipped[i] :
    \/ ~IsParsed(pair[2])
    \/ pair[2].id >= FirstId /\ pair[2] \notin deleted[i]

\* No booking stands in a room that is gone, although GetByID and the insert
\* are separate statements and so are the import's search and its deletion.
NoOrphanBooking == \A b \in bookings : b.room \in rooms

\* Clients see every call of theirs take effect in one step, and an import in
\* the one step of its commit, which puts the slots it has not skipped in the
\* place of the old timetable: no call meets an import half done, whichever
\* statements of the two alternate.
ImplementsSharedCalendar ==
  /\ Promise!Init
  /\ [][\/ Promise!Next
        \/ \E i \in Importer : Commits(i) /\ Promise!Reschedule(Placed(i))]_(Promise!calendarVars)

\* An import that was begun ends, and so does every call that arrives, although
\* they wait for each other's rows in either order.
EverythingEnds ==
  /\ \A i \in Importer : stage[i] # "idle" ~> stage[i] \in {"committed", "failed"}
  /\ \A r \in Request : pc[r] # "idle" ~> pc[r] = "done"

=============================================================================
