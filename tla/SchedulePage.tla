---------------------------- MODULE SchedulePage -----------------------------
(***************************************************************************)
(* How a timetable page of the university's site is read: by the scraper   *)
(* of the booking service (reader "booking", httpparser) and by the bot's  *)
(* own parser (readers "student", "teacher" and "room").  All four walk    *)
(* over the table row by row, column by column and cell by cell; they      *)
(* differ in what they make of a failure and in what they take from a cell.*)
(*                                                                         *)
(* A page is a header and rows of columns.  A column is what extractStart- *)
(* Time finds in its text, and its div.cell elements in order; the first   *)
(* column of a row tells its time.  Texts are names; a cell is a subject    *)
(* and the set of the groups that it names.                                *)
(***************************************************************************)
EXTENDS Naturals, Sequences, FiniteSets

CONSTANTS
  Pages,   \* pages the site may serve: [header, rows]
  NoTime,  \* a text without a time in it
  NoText,  \* an empty text
  Reserved \* a subject that says that the room is reserved

Reader == {"booking", "student", "teacher", "room"}

VARIABLES
  page, reader,
  got,          \* what the request for the page brought
  pc,
  row, col, cell,  \* the loops' indices; columns begin with that of the time
  lessons,      \* what has been read, in order
  result        \* what the reader returned

vars == <<page, reader, got, pc, row, col, cell, lessons, result>>

-----------------------------------------------------------------------------

\* The header's first column stands over the times.
Days == SubSeq(page.header, 2, Len(page.header))
Columns == page.rows[row]

\* Which readers take whatever comes with an error status for a page.
IgnoresStatus(who) == who \in {"teacher", "room"}

Init ==
  /\ page \in Pages /\ reader \in Reader
  /\ got \in {"page", "no_table", "bad_status", "refused", "cut_off"}
  /\ pc = "fetch" /\ row = 1 /\ col = 1 /\ cell = 1 /\ lessons = <<>> /\ result = "none"

Return(what) ==
  /\ pc' = "returned" /\ result' = what
  /\ UNCHANGED <<page, reader, got, row, col, cell, lessons>>

Readable == got = "page" \/ (got = "bad_status" /\ IgnoresStatus(reader))

Fetch ==
  /\ pc = "fetch" /\ Readable
  /\ pc' = "rows"
  /\ UNCHANGED <<page, reader, got, row, col, cell, lessons, result>>

\* The service returns an error; the bot logs it and returns a nil slice, which
\* its callers take for a list of no lessons.  Only the bot's reader of rooms
\* panics when the body breaks off.
FetchFails ==
  /\ pc = "fetch" /\ ~Readable
  /\ Return(IF reader = "booking" THEN "error"
            ELSE IF reader = "room" /\ got = "cut_off" THEN "panic" ELSE "lessons")

\* Rows without columns, or without a time in the first one, are passed over.
NextRow == row' = row + 1 /\ col' = 1 /\ cell' = 1 /\ pc' = "rows"

StartTime == IF Columns = <<>> THEN NoTime ELSE Columns[1].time

ReadRow ==
  /\ pc = "rows" /\ row <= Len(page.rows)
  /\ IF StartTime = NoTime THEN NextRow
     ELSE pc' = "cells" /\ col' = 2 /\ cell' = 1 /\ UNCHANGED row
  /\ UNCHANGED <<page, reader, got, lessons, result>>

EndRow ==
  /\ pc = "cells" /\ col > Len(Columns)
  /\ NextRow
  /\ UNCHANGED <<page, reader, got, lessons, result>>

Weekday == col - 1

\* Columns to the right of the last day are passed over, too.
NextColumn ==
  /\ pc = "cells" /\ col <= Len(Columns)
  /\ Weekday > Len(Days) \/ cell > Len(Columns[col].cells)
  /\ col' = col + 1 /\ cell' = 1
  /\ UNCHANGED <<page, reader, got, pc, row, lessons, result>>

\* Fault: the groups are looked for in the whole column.
GroupsOfColumn(cells, k) == UNION {cells[n].groups : n \in DOMAIN cells}

\* The bot's readers of rooms and teachers look for div.groups in all cells of
\* the column (cells.Find), the service in the cell at hand (cell.Find).
FoundGroups(cells, k) ==
  CASE reader = "booking" -> cells[k].groups \ {NoText}
    [] reader = "student" -> {}
    [] OTHER              -> UNION {cells[n].groups : n \in DOMAIN cells}

Skipped(c) == c.subject = NoText \/ (reader = "booking" /\ c.subject = Reserved)

ReadCell ==
  /\ pc = "cells" /\ col <= Len(Columns) /\ Weekday <= Len(Days)
  /\ LET cells == Columns[col].cells
     IN  /\ cell <= Len(cells)
         /\ lessons' = IF Skipped(cells[cell]) THEN lessons
                       ELSE Append(lessons, [subject |-> cells[cell].subject, weekday |-> Days[Weekday],
                                             time |-> StartTime, groups |-> FoundGroups(cells, cell)])
  /\ cell' = cell + 1
  /\ UNCHANGED <<page, reader, got, pc, row, col, result>>

Finish == pc = "rows" /\ row > Len(page.rows) /\ Return("lessons")

Next == Fetch \/ FetchFails \/ ReadRow \/ EndRow \/ NextColumn \/ ReadCell \/ Finish

Spec == Init /\ [][Next]_vars

-----------------------------------------------------------------------------
(***************************************************************************)
(* Properties.                                                             *)
(***************************************************************************)

\* The table as a person reads it: a cell stands under a day and beside a time.
CellsAt(r, day) == IF day < Len(page.rows[r]) THEN page.rows[r][day + 1].cells ELSE <<>>

Entry(p) == CellsAt(p.row, p.day)[p.cell]

Printed ==
  {p \in UNION {[row : {r}, day : {day}, cell : DOMAIN CellsAt(r, day)]
                  : r \in DOMAIN page.rows, day \in DOMAIN Days} :
     page.rows[p.row][1].time # NoTime /\ Entry(p).subject # NoText}

Wanted == {p \in Printed : reader = "booking" => Entry(p).subject # Reserved}

Before(p, q) ==
  \/ p.row < q.row
  \/ p.row = q.row /\ p.day < q.day
  \/ p.row = q.row /\ p.day = q.day /\ p.cell <= q.cell

\* What its reader makes of the groups of a lesson: the service those of its own
\* cell; the bot's readers of rooms and teachers those too, and maybe others of
\* the same column and time, but of no other; the reader of a group's page none.
GroupsFit(found, p) ==
  LET own == Entry(p).groups
      column == UNION {c.groups : c \in {CellsAt(p.row, p.day)[k] : k \in DOMAIN CellsAt(p.row, p.day)}}
  IN  CASE reader = "booking" -> found = own \ {NoText}
        [] reader = "student" -> found = {}
        [] OTHER              -> own \subseteq found /\ found \subseteq column

\* Every lesson of the page is read once, with the day over it, the time beside
\* it and its groups, whatever rows and columns are missing; the booking service
\* passes over reservations only.  A reader that has got no page returns no
\* lessons, and the one of the booking service, whose import would replace the
\* timetable by nothing, no list at all.
LessonsAsPrinted ==
  result = "lessons" =>
    IF ~Readable THEN lessons = <<>> /\ reader # "booking"
    ELSE LET Is(l, p) == /\ l.subject = Entry(p).subject /\ l.weekday = Days[p.day]
                         /\ l.time = page.rows[p.row][1].time
                         /\ GroupsFit(l.groups, p)
         IN  /\ Len(lessons) = Cardinality(Wanted)
             /\ \A p \in Wanted : Is(lessons[Cardinality({q \in Wanted : Before(q, p)})], p)

=============================================================================
