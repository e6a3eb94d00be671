---------------------------- MODULE ParserService ----------------------------
(***************************************************************************)
(* The timetable parser (internal/core/parser/service/service.go): scrape  *)
(* the rooms, scrape every room's weekly lessons, expand each lesson into  *)
(* dated slots for the coming weeks, and hand everything over at once.     *)
(*                                                                         *)
(* The clock is read again for every lesson, so that a run that passes     *)
(* midnight expands its lessons from different days.                       *)
(*                                                                         *)
(* A day is a number, day 0 is Monday, 1 January 2024; within a day there  *)
(* are periods, one per starting time.                                     *)
(***************************************************************************)
EXTENDS Integers, Sequences, FiniteSets

CONSTANTS
  WeeksAhead,   \* PARSER_WEEKS_AHEAD
  Rooms,        \* the rooms of the site, in its order
  WeeklyOf,     \* room -> its weekly lessons [weekday, period, week], in the order
                \* of its page; time.Weekday begins with Sunday, which is 0, and
                \* week is "every", "odd" or "even"
  FirstDays,    \* days on which a run may begin
  MaxMidnights  \* bound: midnights a run may pass

Room == {Rooms[k] : k \in DOMAIN Rooms}
-----------------------------------------------------------------------------
\* Dates.

WeekdayOf(day) == (day + 1) % 7

\* time.Time.ISOWeek: weeks belong to the year of their Thursday.
JanuaryFirst(year) == 365 * (year - 2024) + (year - 2021) \div 4
YearOf(day) == CHOOSE y \in 2024 .. 2099 : JanuaryFirst(y) <= day /\ day < JanuaryFirst(y + 1)
IsoWeek(day) ==
  LET thursday == day - (day % 7) + 3
  IN  (thursday - JanuaryFirst(YearOf(thursday))) \div 7 + 1

WeekStart(day) ==
  day - (IF WeekdayOf(day) - 1 < 0 THEN 6 ELSE WeekdayOf(day) - 1)

WeekdayOffset(weekday) == IF weekday = 0 THEN 6 ELSE weekday - 1

\* Fault: weeks are counted from the first of January.
MatchesYearWeek(week, day) ==
  LET n == (day - JanuaryFirst(YearOf(day))) \div 7 + 1
  IN  week = "every" \/ (week = "odd" /\ n % 2 # 0) \/ (week = "even" /\ n % 2 = 0)

MatchesWeek(week, day) ==
  \/ week = "every"
  \/ week = "odd"  /\ IsoWeek(day) % 2 # 0
  \/ week = "even" /\ IsoWeek(day) % 2 = 0

\* The days on which a weekly lesson takes place, seen from the day `today`.
DaysOf(lesson, today) ==
  {day \in {WeekStart(today) + 7 * week + WeekdayOffset(lesson.weekday) : week \in 0 .. WeeksAhead - 1} :
     MatchesWeek(lesson.week, day)}

\* `of` remembers which lesson of which room a slot comes from.
Expand(room, k, today) ==
  {[room |-> room, day |-> day, period |-> WeeklyOf[room][k].period, of |-> k] :
     day \in DaysOf(WeeklyOf[room][k], today)}

-----------------------------------------------------------------------------

VARIABLES
  stage,     \* what Run does next
  now,       \* the day it is
  began,     \* the day on which the run began
  visited,   \* rooms whose lessons have been parsed and expanded
  pending,   \* lessons of the room at hand that are expanded already
  slots,     \* the slots expanded so far
  canceled   \* the context is cancelled

vars == <<stage, now, began, visited, pending, slots, canceled>>

Init ==
  /\ stage = "rooms"
  /\ began \in FirstDays /\ now = began
  /\ visited = 0 /\ pending = 0
  /\ slots = {}
  /\ canceled = FALSE

Proceed(from, to) == stage = from /\ stage' = to

\* ParseRooms; the names are normalised.
ParseRooms ==
  /\ ~canceled
  /\ Proceed("rooms", "fetch")
  /\ UNCHANGED <<now, began, visited, pending, slots, canceled>>

\* ParseLessonsRoom.
FetchRoom ==
  /\ ~canceled
  /\ visited < Len(Rooms)
  /\ Proceed("fetch", "expand")
  /\ UNCHANGED <<now, began, visited, pending, slots, canceled>>

ExpandLesson ==
  LET room == Rooms[visited + 1]
  IN  /\ Proceed("expand", "expand")
      /\ ~canceled
      /\ pending < Len(WeeklyOf[room])
      /\ pending' = pending + 1
      /\ slots' = slots \cup Expand(room, pending + 1, now)
      /\ UNCHANGED <<now, began, visited, canceled>>

RoomDone ==
  /\ Proceed("expand", "fetch")
  /\ pending = Len(WeeklyOf[Rooms[visited + 1]])
  /\ visited' = visited + 1
  /\ pending' = 0
  /\ UNCHANGED <<now, began, slots, canceled>>

AllRoomsDone ==
  /\ ~canceled
  /\ visited = Len(Rooms)
  /\ Proceed("fetch", "replace")
  /\ UNCHANGED <<now, began, visited, pending, slots, canceled>>

\* ReplaceParsedSchedule, one transaction (module ScheduleImport).
Replace ==
  /\ Proceed("replace", "imported")
  /\ UNCHANGED <<now, began, visited, pending, slots, canceled>>

\* A fetch fails, a time or a weekday cannot be parsed, the transaction fails,
\* or the context is found cancelled: Run returns the error.
Fail ==
  /\ stage \notin {"imported", "failed"}
  /\ stage' = "failed"
  /\ UNCHANGED <<now, began, visited, pending, slots, canceled>>

Cancel ==
  /\ ~canceled
  /\ canceled' = TRUE
  /\ UNCHANGED <<stage, now, began, visited, pending, slots>>

Midnight ==
  /\ stage \notin {"imported", "failed"}
  /\ now < began + MaxMidnights
  /\ now' = now + 1
  /\ UNCHANGED <<stage, began, visited, pending, slots, canceled>>

Next ==
  \/ ParseRooms \/ FetchRoom \/ ExpandLesson \/ RoomDone \/ AllRoomsDone
  \/ Replace \/ Fail \/ Cancel \/ Midnight

Spec == Init /\ [][Next]_vars

-----------------------------------------------------------------------------
(***************************************************************************)
(* Properties.                                                             *)
(***************************************************************************)

SlotsOf(room, k) == {s \in slots : s.room = room /\ s.of = k}

\* The day is on the lesson's weekday, in a week of its kind.
Fits(s) ==
  LET lesson == WeeklyOf[s.room][s.of]
  IN  /\ WeekdayOf(s.day) = lesson.weekday
      /\ lesson.week = "every" \/ (lesson.week = "odd") = (IsoWeek(s.day) % 2 = 1)

\* Every lesson of every room has all its days between the Monday of the week
\* in which it was expanded and the end of the last week ahead, Sunday included.
Whole ==
  \A room \in Room : \A k \in DOMAIN WeeklyOf[room] :
    \E today \in began .. now :
      LET first == today - (today % 7)
          ahead  == first .. first + 7 * WeeksAhead - 1
      IN  {s.day : s \in SlotsOf(room, k)} =
            {day \in ahead : Fits([room |-> room, of |-> k, day |-> day])}

\* Lessons that alternate, or take place at different times, never get one slot.
NoSlotTwice ==
  \A s, t \in slots :
    (s.room = t.room /\ s.of # t.of /\ s.day = t.day /\ s.period = t.period) =>
      LET a == WeeklyOf[s.room][s.of]
          b == WeeklyOf[t.room][t.of]
      IN  a.weekday = b.weekday /\ {a.week, b.week} # {"odd", "even"}

\* Lessons of odd or of even weeks come every second week; only after a year of
\* 53 weeks two odd weeks follow each other, and two even ones are three apart.
EverySecondWeek ==
  \A s, t \in slots :
    (/\ s.room = t.room /\ s.of = t.of /\ s.day < t.day
     /\ WeeklyOf[s.room][s.of].week # "every"
     /\ \A u \in SlotsOf(s.room, s.of) : u.day <= s.day \/ u.day >= t.day)
    => \/ t.day - s.day = 14
       \/ /\ \E day \in s.day .. t.day : IsoWeek(day) = 53
          /\ t.day - s.day = (IF WeeklyOf[s.room][s.of].week = "odd" THEN 7 ELSE 21)

\* What a run stores is the whole timetable, without a slot that two lessons
\* share and with alternating lessons alternating across New Year, although one
\* run reads the clock again for every lesson and may pass midnight.
StoredIsWhole == stage = "imported" => Whole /\ NoSlotTwice /\ EverySecondWeek

=============================================================================
