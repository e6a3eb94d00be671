------------------------------ MODULE Timetable ------------------------------
(***************************************************************************)
(* The three places where a timetable page becomes a timetable: the fill   *)
(* of the bot's database (TimetableFill), the expansion of the service's   *)
(* weekly lessons (ParserService), and the reading of a page               *)
(* (SchedulePage).  None of them sees the state of another.                *)
(***************************************************************************)
EXTENDS TimetableFill

CONSTANTS
  WeeksAhead, Rooms, WeeklyOf, FirstDays, MaxMidnights,  \* see ParserService
  Pages, NoTime, NoText, Reserved                        \* see SchedulePage

VARIABLES
  stage, now, began, visited, pending, slots, stopped,
  page, reader, got, pc, row, col, cell, lessons, outcome

expandVars == <<stage, now, began, visited, pending, slots, stopped>>
pageVars == <<page, reader, got, pc, row, col, cell, lessons, outcome>>

Parser == INSTANCE ParserService WITH canceled <- stopped

Reading == INSTANCE SchedulePage WITH result <- outcome

IsList(s) == s \in Seq({s[k] : k \in DOMAIN s})

\* Runs stay within the years for which ParserService knows the first of January.
ASSUME ParserAssumption ==
  /\ WeeksAhead \in Nat /\ MaxMidnights \in Nat /\ FirstDays \subseteq Nat
  /\ \A day \in FirstDays : day + MaxMidnights + 7 * WeeksAhead + 7 < Parser!JanuaryFirst(2099)

\* The rooms are distinct.
ASSUME RoomsAssumption ==
  /\ Rooms \in Seq(Parser!Room)
  /\ \A i, j \in DOMAIN Rooms : Rooms[i] = Rooms[j] => i = j

\* Every lesson has a weekday and a kind of week.
ASSUME WeeklyAssumption ==
  \A room \in Parser!Room :
    /\ IsList(WeeklyOf[room])
    /\ \A k \in DOMAIN WeeklyOf[room] :
         WeeklyOf[room][k].weekday \in 0 .. 6 /\ WeeklyOf[room][k].week \in {"every", "odd", "even"}

\* A page's table has rows of columns, and columns of cells.
ASSUME PagesAssumption ==
  \A p \in Pages :
    /\ IsList(p.header) /\ IsList(p.rows)
    /\ \A r \in DOMAIN p.rows :
         IsList(p.rows[r]) /\ \A c \in DOMAIN p.rows[r] : IsList(p.rows[r][c].cells)

\* What a run of the parser hands over (service.go) is the whole timetable, without
\* a slot twice, and alternating across New Year; ParserService has the details.
StoredIsWhole == Parser!StoredIsWhole

\* A page is read as it is printed (parser.go of the service and of the bot), and a
\* page that could not be had is not taken for one; SchedulePage has the details.
LessonsAsPrinted == Reading!LessonsAsPrinted

==============================================================================
