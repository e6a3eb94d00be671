---------------------------- MODULE TimetableFill ----------------------------
(***************************************************************************)
(* Filling the bot's timetable (timetable-homework-tgbot, fill_database.go) *)
(*                                                                         *)
(* The main goroutine reads the page of the faculties and the groups of    *)
(* each, and feeds them into a channel as large as the pool of             *)
(* workers.  A worker scrapes a group's page and saves its lessons one     *)
(* transaction at a time, under a mutex.  The first error goes into a      *)
(* channel of size one and cancels the context under which the others      *)
(* save; the main goroutine may notice either, at any time.                *)
(*                                                                         *)
(* The readers of pages return no errors: they log them and return an      *)
(* empty list, or panic.  The fill cannot tell a faculty without groups    *)
(* from one whose page it could not get.                                   *)
(***************************************************************************)
EXTENDS Integers, Sequences, FiniteSets

CONSTANTS
  Worker,      \* the goroutines of the pool
  Faculties,   \* the groups of each faculty; a group may have several
  LessonsOf,   \* group -> the lessons on its page; groups share lessons
  MaxFailures  \* bound: statements that fail

GroupsOf(f) == {Faculties[f][k] : k \in DOMAIN Faculties[f]}
Group == UNION {GroupsOf(f) : f \in DOMAIN Faculties}

ASSUME FillAssumption ==
  /\ Worker # {}
  /\ Faculties \in Seq(Seq(Group))
  /\ \A g \in Group : LessonsOf[g] \in Seq({LessonsOf[g][k] : k \in DOMAIN LessonsOf[g]})
  /\ MaxFailures \in Nat

VARIABLES
  main,      \* what the main goroutine does next
  faculty,   \* the faculty whose page it reads next
  allGroups, \* the groups it has found
  sent,      \* groups it has sent
  jobs,      \* the channel of groups
  closed,    \* that channel is closed
  errCh,     \* the channel of the first error: "database" or "canceled"
  canceled,  \* the context of the workers is cancelled
  result,    \* what fillGroupsParallel returns
  worker,    \* worker -> what it does next
  job,       \* worker -> {the group it works on}
  todo,      \* worker -> lessons of the group that are not saved yet
  err,       \* worker -> the error it has met
  saving,    \* workers inside fillGroupSchedule: the holder of the mutex
  attends,   \* table lesson_groups, and with it groups and lessons
  seen,      \* history: faculties whose page could be read
  unread,    \* history: groups whose page could not be read
  failures   \* statements that have failed so far

readVars == <<faculty, allGroups, seen>>
mainVars == <<main, sent, closed, result, readVars>>
workerVars == <<worker, job, todo, err, saving>>
vars == <<mainVars, workerVars, jobs, errCh, canceled, attends, unread, failures>>

Init ==
  /\ main = "faculties" /\ faculty = 1 /\ allGroups = <<>> /\ seen = {}
  /\ sent = 0 /\ closed = FALSE /\ result = "none"
  /\ jobs = <<>> /\ errCh = <<>> /\ canceled = FALSE
  /\ worker = [w \in Worker |-> "receive"]
  /\ job = [w \in Worker |-> {}]
  /\ todo = [w \in Worker |-> <<>>]
  /\ err = [w \in Worker |-> "none"]
  /\ saving = {} /\ attends = {} /\ unread = {} /\ failures = 0

-----------------------------------------------------------------------------
\* The main goroutine.

\* ParseFaculties, which returns all of them or none.
ParseFaculties ==
  /\ main = "faculties"
  /\ main' \in {"groups", "send"}
  /\ UNCHANGED <<readVars, sent, closed, result, workerVars, jobs, errCh, canceled, attends,
                 unread, failures>>

\* ParseGroups for the next faculty, which returns all of its groups or none.
ParseGroups ==
  /\ main = "groups" /\ faculty <= Len(Faculties)
  /\ faculty' = faculty + 1
  /\ \/ allGroups' = allGroups \o Faculties[faculty] /\ seen' = seen \cup {faculty}
     \/ UNCHANGED <<allGroups, seen>>
  /\ UNCHANGED <<main, sent, closed, result, workerVars, jobs, errCh, canceled, attends, unread,
                 failures>>

\* Either panics when the page breaks off, which ends the program.
ReaderPanics ==
  /\ main = "faculties" \/ (main = "groups" /\ faculty <= Len(Faculties))
  /\ main' = "panicked"
  /\ UNCHANGED <<readVars, sent, closed, result, workerVars, jobs, errCh, canceled, attends,
                 unread, failures>>

\* The workers are started once all groups are known.
StartWorkers ==
  /\ main = "groups" /\ faculty > Len(Faculties)
  /\ main' = "send"
  /\ UNCHANGED <<readVars, sent, closed, result, workerVars, jobs, errCh, canceled, attends,
                 unread, failures>>

Send ==
  /\ main = "send" /\ sent < Len(allGroups)
  /\ Len(jobs) < Cardinality(Worker)
  /\ jobs' = Append(jobs, allGroups[sent + 1])
  /\ sent' = sent + 1
  /\ UNCHANGED <<main, readVars, closed, result, workerVars, errCh, canceled, attends, unread, failures>>

\* case err := <-errCh
TakeError ==
  /\ main = "send" /\ sent < Len(allGroups)
  /\ errCh # <<>>
  /\ result' = Head(errCh) /\ errCh' = <<>>
  /\ canceled' = TRUE /\ closed' = TRUE
  /\ main' = "join_error"
  /\ UNCHANGED <<readVars, sent, workerVars, jobs, attends, unread, failures>>

\* case <-ctx.Done()
SeeCanceled ==
  /\ main = "send" /\ sent < Len(allGroups)
  /\ canceled
  /\ closed' = TRUE
  /\ main' = "join_canceled"
  /\ UNCHANGED <<readVars, sent, result, workerVars, jobs, errCh, canceled, attends, unread, failures>>

\* Fault: a plain send, which nothing interrupts.
NeverInterrupted == FALSE

Interrupted == TakeError \/ SeeCanceled

CloseJobs ==
  /\ main = "send" /\ sent = Len(allGroups)
  /\ closed' = TRUE
  /\ main' = "join"
  /\ UNCHANGED <<readVars, sent, result, workerVars, jobs, errCh, canceled, attends, unread, failures>>

\* Fault: the error channel is not looked at again.
ReturnAtOnce ==
  /\ main \in {"join_error", "join_canceled", "join"}
  /\ \A w \in Worker : worker[w] = "returned"
  /\ result' = CASE main = "join_error"    -> result
                 [] main = "join_canceled" -> "canceled"
                 [] OTHER                  -> "nil"
  /\ main' = "returned" /\ canceled' = TRUE
  /\ UNCHANGED <<readVars, sent, closed, workerVars, jobs, errCh, attends, unread, failures>>

\* wg.Wait(), then the error that is left in the channel, if any; the deferred
\* cancel() runs.
Return ==
  /\ main \in {"join_error", "join_canceled", "join"}
  /\ \A w \in Worker : worker[w] = "returned"
  /\ result' = IF main = "join_error" THEN result
               ELSE IF errCh # <<>> THEN Head(errCh)
               ELSE IF main = "join_canceled" THEN "canceled"
               ELSE "nil"
  /\ errCh' = IF main = "join_error" THEN errCh ELSE <<>>
  /\ main' = "returned" /\ canceled' = TRUE
  /\ UNCHANGED <<readVars, sent, closed, workerVars, jobs, attends, unread, failures>>

-----------------------------------------------------------------------------
\* A worker.

Goto(w, from, to) == worker[w] = from /\ worker' = [worker EXCEPT ![w] = to]

Receive(w) ==
  /\ jobs # <<>>
  /\ Goto(w, "receive", "parse")
  /\ job' = [job EXCEPT ![w] = {Head(jobs)}]
  /\ jobs' = Tail(jobs)
  /\ UNCHANGED <<mainVars, todo, err, saving, errCh, canceled, attends, unread, failures>>

\* `for g := range jobs` ends.
Leave(w) ==
  /\ jobs = <<>> /\ closed
  /\ Goto(w, "receive", "returned")
  /\ UNCHANGED <<mainVars, job, todo, err, saving, jobs, errCh, canceled, attends,
                 unread, failures>>

\* ParseLessonsStudent logs its errors and returns no lessons.
Parse(w) ==
  /\ Goto(w, "parse", "lock")
  /\ \E g \in job[w] :
       \/ todo' = [todo EXCEPT ![w] = LessonsOf[g]] /\ UNCHANGED unread
       \/ todo' = [todo EXCEPT ![w] = <<>>] /\ unread' = unread \cup {g}
  /\ UNCHANGED <<mainVars, job, err, saving, jobs, errCh, canceled, attends, failures>>

\* timetableSaveMu.Lock(), which no cancellation interrupts.
Lock(w) ==
  /\ saving = {}
  /\ Goto(w, "lock", "save")
  /\ saving' = {w}
  /\ UNCHANGED <<mainVars, job, todo, err, jobs, errCh, canceled, attends, unread, failures>>

\* One transaction: group, teacher, room, lesson and their relation are there
\* when it commits.
Save(w) ==
  /\ worker[w] = "save" /\ todo[w] # <<>>
  /\ ~canceled
  /\ attends' = attends \cup ({Head(todo[w])} \X job[w])
  /\ todo' = [todo EXCEPT ![w] = Tail(@)]
  /\ UNCHANGED <<mainVars, worker, job, err, saving, jobs, errCh, canceled, unread, failures>>

\* A statement fails, the context is found cancelled, or the answer to COMMIT
\* is lost; the mutex is unlocked.
SaveFails(w) ==
  /\ todo[w] # <<>>
  /\ Goto(w, "save", "report")
  /\ \/ canceled /\ err' = [err EXCEPT ![w] = "canceled"] /\ UNCHANGED failures
     \/ /\ failures < MaxFailures
        /\ failures' = failures + 1
        /\ err' = [err EXCEPT ![w] = "database"]
  /\ attends' \in {attends, attends \cup ({Head(todo[w])} \X job[w])}
  /\ saving' = {}
  /\ UNCHANGED <<mainVars, job, todo, jobs, errCh, canceled, unread>>

Saved(w) ==
  /\ todo[w] = <<>>
  /\ Goto(w, "save", "receive")
  /\ job' = [job EXCEPT ![w] = {}]
  /\ saving' = {}
  /\ UNCHANGED <<mainVars, todo, err, jobs, errCh, canceled, attends, unread, failures>>

\* Fault: the others are stopped before the error is reported.
CancelFirst(w) ==
  /\ worker[w] = "report"
  /\ IF ~canceled
     THEN canceled' = TRUE /\ UNCHANGED <<worker, errCh>>
     ELSE /\ errCh' = IF errCh = <<>> THEN <<err[w]>> ELSE errCh
          /\ worker' = [worker EXCEPT ![w] = "returned"]
          /\ UNCHANGED canceled
  /\ UNCHANGED <<mainVars, job, todo, err, saving, jobs, attends, unread, failures>>

\* The error is dropped if another one is waiting to be read.
Report(w) ==
  /\ Goto(w, "report", "cancel")
  /\ errCh' = IF errCh = <<>> THEN <<err[w]>> ELSE errCh
  /\ UNCHANGED <<mainVars, job, todo, err, saving, jobs, canceled, attends, unread, failures>>

CancelOthers(w) ==
  /\ Goto(w, "cancel", "returned")
  /\ canceled' = TRUE
  /\ UNCHANGED <<mainVars, job, todo, err, saving, jobs, errCh, attends, unread, failures>>

-----------------------------------------------------------------------------

Main ==
  \/ ParseFaculties \/ ParseGroups \/ ReaderPanics \/ StartWorkers
  \/ Send \/ Interrupted \/ CloseJobs \/ Return

Work(w) ==
  \/ Receive(w) \/ Leave(w) \/ Parse(w) \/ Lock(w) \/ Save(w) \/ SaveFails(w)
  \/ Saved(w) \/ Report(w) \/ CancelOthers(w)

Next == Main \/ \E w \in Worker : Work(w)

Spec == Init /\ [][Next]_vars

\* Goroutines are scheduled, pages and statements end in a result or an error,
\* and Go's mutex starves nobody.
Fairness ==
  /\ WF_vars(Main)
  /\ \A w \in Worker : WF_vars(Work(w)) /\ SF_vars(Lock(w))

FairSpec == Spec /\ Fairness

-----------------------------------------------------------------------------
(***************************************************************************)
(* Properties.                                                             *)
(***************************************************************************)

\* When the fill reports success the timetable is as complete as the pages that
\* could be had: every lesson of every group that has a page, of every faculty
\* that has one, is there, whichever worker took it.
SuccessMeansFilled ==
  result = "nil" =>
    \A f \in seen : \A g \in GroupsOf(f) \ unread :
      \A k \in DOMAIN LessonsOf[g] : <<LessonsOf[g][k], g>> \in attends

\* The error that is reported is the one that stopped the fill, never the
\* cancellation it has caused in the other workers.
RootCauseReported == result # "canceled"

\* Unless a reader panics, the fill returns, although workers that have failed no
\* longer take groups.
FillReturns == <>(main \in {"returned", "panicked"})

=============================================================================
