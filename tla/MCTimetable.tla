----------------------------- MODULE MCTimetable -----------------------------
(***************************************************************************)
(* Small instances, for TLC, of the three places where a timetable page    *)
(* becomes a timetable: the fill of the bot's database, the expansion of   *)
(* the service's weekly lessons, and the reading of a page.  A behaviour   *)
(* exercises one of them while the others rest in an initial state.        *)
(***************************************************************************)
EXTENDS Timetable

CONSTANTS w1, w2, monday, tuesday, nine, ten, algebra, physics, g1, g2

VARIABLE part  \* "fill", "expand" or "read"

-----------------------------------------------------------------------------
\* Two groups attend a lecture together, two belong to both faculties, and one has
\* no lessons: more groups than two workers and their channel can take.

MCFaculties == <<<<"a", "b", "c">>, <<"a", "b">>>>
MCLessonsOf == [a |-> <<"lecture", "seminar">>, b |-> <<"lecture">>, c |-> <<>>]

-----------------------------------------------------------------------------
\* Two lessons that alternate in one period, one of them also on Sunday; a room
\* without lessons.  The first days run from a week in December 2026, a year of 53
\* weeks, until February 2027; and over the turn of 2024, the week of which
\* belongs to 2025.

Weekly(weekday, period, week) == [weekday |-> weekday, period |-> period, week |-> week]

MCWeeklyOf ==
  [hall   |-> <<Weekly(1, 1, "odd"), Weekly(1, 1, "even"), Weekly(0, 2, "even")>>,
   cellar |-> <<>>,
   aula   |-> <<Weekly(0, 1, "every"), Weekly(4, 1, "odd")>>]

MCRooms == <<"hall", "cellar", "aula">>
MCFirstDays == (1075 .. 1110) \cup (360 .. 368)

-----------------------------------------------------------------------------
\* Pages with none, one or two days and up to two rows.

Cell(subject, groups) == [subject |-> subject, groups |-> groups]

\* What a column may hold: nothing, one lesson, two, a reservation, an empty cell.
Contents ==
  { <<>>, <<Cell(algebra, {g1})>>, <<Cell(algebra, {g1, NoText}), Cell(physics, {g2})>>,
    <<Cell(Reserved, {}), Cell(NoText, {g2})>> }

Column(time, cells) == [time |-> time, cells |-> cells]

\* A row without columns, or with a time or none and up to three more columns.
Rows(time) ==
  {<<>>, <<Column(time, <<>>)>>}
    \cup {<<Column(time, <<>>), Column(NoTime, c)>> : c \in Contents}
    \cup {<<Column(time, <<>>), Column(NoTime, c), Column(ten, d)>> : c, d \in Contents}
    \cup {<<Column(time, <<>>), Column(NoTime, <<>>), Column(NoTime, c), Column(NoTime, c)>>
            : c \in Contents}

MCPages ==
  [header : {<<>>, <<NoText, monday>>, <<NoText, monday, tuesday>>},
   rows : {<<>>} \cup {<<r, s>> : r \in Rows(nine) \cup Rows(NoTime), s \in Rows(ten)}]

-----------------------------------------------------------------------------

NoPage == [header |-> <<>>, rows |-> <<>>]

MCInit ==
  /\ Init
  /\ \/ part = "fill"
        /\ began = 360 /\ page = NoPage /\ reader = "room" /\ got = "refused"
     \/ part = "expand" /\ page = NoPage /\ reader = "room" /\ got = "refused"
     \/ part = "read" /\ began = 360
  /\ Parser!Init /\ Reading!Init

MCNext ==
  /\ UNCHANGED part
  /\ \/ part = "fill" /\ Next /\ UNCHANGED <<expandVars, pageVars>>
     \/ part = "expand" /\ Parser!Next /\ UNCHANGED <<vars, pageVars>>
     \/ part = "read" /\ Reading!Next /\ UNCHANGED <<vars, expandVars>>

MCSpec ==
  /\ MCInit /\ [][MCNext]_<<part, vars, expandVars, pageVars>>
  /\ part = "fill" => Fairness

\* The promise of the fill, which rests in the behaviours of the other two.
FillEnds == part = "fill" => FillReturns

=============================================================================
