---------------------------- MODULE StartupImport ----------------------------
(***************************************************************************)
(* The timetable import every booking-service replica attempts at startup: *)
(* startStartupScheduleImport (cmd/booking/main.go) inside the advisory    *)
(* lock of WithScheduleImportLock (postgres/import_lock.go).               *)
(*                                                                         *)
(* The lock belongs to a transaction on a connection that does nothing     *)
(* else; the check and the import run on other connections of the pool.    *)
(* If the lock's connection is lost the database gives the lock away while *)
(* the import goes on, and nobody notices before the final commit.  The    *)
(* import itself is one transaction (module ScheduleImport): here it       *)
(* commits or has no effect.                                               *)
(***************************************************************************)
EXTENDS Integers, FiniteSets

CONSTANTS
  Replica,    \* instances of the booking service
  PoolSize,   \* connections in a replica's pool
  Earlier,    \* the database holds the timetable of an earlier start
  MaxLosses,  \* bound: connections lost
  MaxCrashes, \* bound: processes killed
  MaxClears   \* bound: timetables cancelled by an admin

ASSUME StartupAssumption ==
  /\ PoolSize \in Nat /\ PoolSize >= 2
  /\ Earlier \in BOOLEAN
  /\ MaxLosses \in Nat
  /\ MaxCrashes \in Nat
  /\ MaxClears \in Nat

VARIABLES
  stage,     \* replica -> what its import goroutine does next
  status,    \* replica -> the status GET /parser/status reports
  detail,    \* replica -> what it reports beside "ready"
  canceled,  \* replicas whose context SIGTERM has cancelled
  lock,      \* replicas whose transaction holds the advisory lock
  busy,      \* replica -> pool connections its requests hold
  schedule,  \* the database holds a parsed schedule
  orphans,   \* import commits sent by replicas that no longer wait for them
  committed, \* history: replicas whose process has seen its import commit
  imports,   \* history: imports committed with at least one lesson
  losses,    \* connections lost so far
  crashes,   \* processes killed so far
  clears     \* timetables cancelled so far

vars == <<stage, status, detail, canceled, lock, busy, schedule, orphans, committed, imports,
          losses, crashes, clears>>

\* Inside run(), between acquiring the lock and ending its transaction.
Critical == {"check", "parse", "replace", "mark_ready", "mark_empty", "commit",
             "rollback"}

Status == {"pending", "running", "ready", "failed"}

\* The fields that come with "ready": the number of lessons, which may be none,
\* or that the import was skipped.
Detail == {"nothing", "lessons", "no_lessons", "skipped"}

Stage == Critical \cup {"down", "try", "wait", "done"}

Move(r, from, to) == stage[r] = from /\ stage' = [stage EXCEPT ![r] = to]

Report(r, value, with) ==
  /\ status' = [status EXCEPT ![r] = value]
  /\ detail' = [detail EXCEPT ![r] = with]

Mark(r, value) == Report(r, value, "nothing")

\* The lock's connection is held throughout, a second one by a statement.
Idle(r) == PoolSize - busy[r] - (IF stage[r] \in Critical THEN 1 ELSE 0)

\* An import commits; `some` says whether it has placed a lesson.
Imported(some) ==
  /\ schedule' = some
  /\ imports' = imports + (IF some THEN 1 ELSE 0)

TypeOK ==
  /\ stage \in [Replica -> Stage]
  /\ status \in [Replica -> Status]
  /\ detail \in [Replica -> Detail]
  /\ canceled \subseteq Replica
  /\ lock \subseteq Replica
  /\ busy \in [Replica -> 0 .. PoolSize]
  /\ \A r \in Replica : Idle(r) >= 0
  /\ schedule \in BOOLEAN
  /\ committed \subseteq Replica
  /\ orphans \in Nat /\ imports \in Nat
  /\ losses \in 0 .. MaxLosses /\ crashes \in 0 .. MaxCrashes /\ clears \in 0 .. MaxClears

Init ==
  /\ stage = [r \in Replica |-> "down"]
  /\ status = [r \in Replica |-> "pending"]
  /\ detail = [r \in Replica |-> "nothing"]
  /\ canceled = {}
  /\ lock = {}
  /\ busy = [r \in Replica |-> 0]
  /\ schedule = Earlier
  /\ imports = IF Earlier THEN 1 ELSE 0
  /\ committed = {}
  /\ orphans = 0 /\ losses = 0 /\ crashes = 0 /\ clears = 0

-----------------------------------------------------------------------------

Start(r) ==
  /\ Move(r, "down", "try")
  /\ Mark(r, "running")
  /\ UNCHANGED <<canceled, lock, busy, schedule, orphans, committed, imports, losses,
                crashes, clears>>

\* pg_try_advisory_xact_lock.  A transaction that does not get the lock ends
\* at once and its connection goes back to the pool.
TryLock(r) ==
  /\ r \notin canceled
  /\ Idle(r) >= 1
  /\ \/ /\ lock = {}
        /\ Move(r, "try", "check")
        /\ lock' = {r}
     \/ /\ lock # {}
        /\ Move(r, "try", "wait")
        /\ UNCHANGED lock
  /\ UNCHANGED <<status, detail, canceled, busy, schedule, orphans, committed, imports,
                losses, crashes, clears>>

\* BeginFunc or the query fails: the error is returned and marked.
TryFails(r) ==
  /\ Move(r, "try", "done")
  /\ IF r \in canceled THEN UNCHANGED <<status, detail>> ELSE Mark(r, "failed")
  /\ UNCHANGED <<canceled, lock, busy, schedule, orphans, committed, imports, losses,
                crashes, clears>>

\* The 250 ms timer, or ctx.Done(): either may win when both are ready.
Wake(r) ==
  /\ Move(r, "wait", "try")
  /\ UNCHANGED <<status, detail, canceled, lock, busy, schedule, orphans, committed,
                imports, losses, crashes, clears>>

WaitCanceled(r) ==
  /\ r \in canceled
  /\ Move(r, "wait", "done")
  /\ UNCHANGED <<status, detail, canceled, lock, busy, schedule, orphans, committed,
                imports, losses, crashes, clears>>

\* Fault: the database is not looked at again under the lock.
CheckNothing(r) ==
  /\ r \notin canceled
  /\ Move(r, "check", "parse")
  /\ UNCHANGED <<status, detail, canceled, lock, busy, schedule, orphans, committed,
                imports, losses, crashes, clears>>

\* HasParsedSchedule.
Check(r) ==
  /\ r \notin canceled
  /\ Idle(r) >= 1
  /\ IF schedule
     THEN Move(r, "check", "commit") /\ Report(r, "ready", "skipped")
     ELSE Move(r, "check", "parse") /\ UNCHANGED <<status, detail>>
  /\ UNCHANGED <<canceled, lock, busy, schedule, orphans, committed, imports, losses,
                crashes, clears>>

\* Fault: ready as soon as the timetable has been scraped.
ParseAndMark(r) ==
  /\ r \notin canceled
  /\ Move(r, "parse", "replace")
  /\ Report(r, "ready", "lessons")
  /\ UNCHANGED <<canceled, lock, busy, schedule, orphans, committed, imports, losses,
                crashes, clears>>

\* Scraping the timetable, over HTTP.
Parse(r) ==
  /\ r \notin canceled
  /\ Move(r, "parse", "replace")
  /\ UNCHANGED <<status, detail, canceled, lock, busy, schedule, orphans, committed,
                imports, losses, crashes, clears>>

\* ReplaceParsedSchedule commits.  A site without rooms or lessons is no error:
\* the previous timetable is deleted and nothing takes its place.
Replace(r) ==
  /\ Idle(r) >= 1
  /\ \/ Imported(TRUE) /\ Move(r, "replace", "mark_ready")
     \/ Imported(FALSE) /\ Move(r, "replace", "mark_empty")
  /\ committed' = committed \cup {r}
  /\ UNCHANGED <<status, detail, canceled, lock, busy, orphans, losses,
                crashes, clears>>

MarkReady(r) ==
  /\ \/ Move(r, "mark_ready", "commit") /\ Report(r, "ready", "lessons")
     \/ Move(r, "mark_empty", "commit") /\ Report(r, "ready", "no_lessons")
  /\ UNCHANGED <<canceled, lock, busy, schedule, orphans, committed, imports, losses,
                crashes, clears>>

\* The check, the scraping or the import fails: run() marks it and returns.
RunFails(r) ==
  /\ \E from \in {"check", "parse", "replace"} : Move(r, from, "rollback")
  /\ Mark(r, "failed")
  /\ UNCHANGED <<canceled, lock, busy, schedule, orphans, committed, imports, losses,
                crashes, clears>>

\* Fault: a lock of the session, which the end of the transaction does not release.
KeepLock(r) ==
  /\ Move(r, "commit", "done") \/ Move(r, "rollback", "done")
  /\ UNCHANGED <<status, detail, canceled, lock, busy, schedule, orphans, committed,
                imports, losses, crashes, clears>>

\* BeginFunc ends the lock's transaction.  The commit fails when the connection
\* was lost or the context was cancelled; a cancellation is not marked.
EndLock(r) ==
  /\ \/ /\ r \in lock
        /\ Move(r, "commit", "done")
        /\ UNCHANGED <<status, detail>>
     \/ /\ r \notin lock
        /\ Move(r, "commit", "done")
        /\ IF r \in canceled THEN UNCHANGED <<status, detail>> ELSE Mark(r, "failed")
     \/ /\ Move(r, "rollback", "done")
        /\ UNCHANGED <<status, detail>>
  /\ lock' = lock \ {r}
  /\ UNCHANGED <<canceled, busy, schedule, orphans, committed, imports, losses,
                crashes, clears>>

-----------------------------------------------------------------------------
\* The environment.

\* SIGTERM, or the end of the HTTP server.
Cancel(r) ==
  /\ stage[r] # "down"
  /\ canceled' = canceled \cup {r}
  /\ UNCHANGED <<stage, status, detail, lock, busy, schedule, orphans, committed,
                imports, losses, crashes, clears>>

\* A request takes a connection for one statement, and gives it back.
Borrow(r) ==
  /\ stage[r] # "down"
  /\ Idle(r) >= 1
  /\ busy' = [busy EXCEPT ![r] = @ + 1]
  /\ UNCHANGED <<stage, status, detail, canceled, lock, schedule, orphans, committed,
                imports, losses, crashes, clears>>

Return(r) ==
  /\ busy[r] > 0
  /\ busy' = [busy EXCEPT ![r] = @ - 1]
  /\ UNCHANGED <<stage, status, detail, canceled, lock, schedule, orphans, committed,
                imports, losses, crashes, clears>>

\* The server or the network drops the connection of the lock.
LoseConnection(r) ==
  /\ r \in lock
  /\ losses < MaxLosses
  /\ losses' = losses + 1
  /\ lock' = lock \ {r}
  /\ UNCHANGED <<stage, status, detail, canceled, busy, schedule, orphans, committed,
                imports, crashes, clears>>

\* The process dies and is started again.  Its connections go, and with them
\* the lock and what is uncommitted; a COMMIT on its way is still executed.
Crash(r) ==
  /\ stage[r] # "down"
  /\ crashes < MaxCrashes
  /\ crashes' = crashes + 1
  /\ stage' = [stage EXCEPT ![r] = "down"]
  /\ Mark(r, "pending")
  /\ canceled' = canceled \ {r}
  /\ committed' = committed \ {r}
  /\ lock' = lock \ {r}
  /\ busy' = [busy EXCEPT ![r] = 0]
  /\ \/ stage[r] = "replace" /\ orphans' = orphans + 1
     \/ UNCHANGED orphans
  /\ UNCHANGED <<schedule, imports, losses, clears>>

\* The context ends or the connection is lost once COMMIT has been sent: the
\* import reports an error although its commit will be executed.
LoseCommit(r) ==
  /\ Idle(r) >= 1
  /\ Move(r, "replace", "rollback")
  /\ Mark(r, "failed")
  /\ orphans' = orphans + 1
  /\ \/ r \in canceled /\ UNCHANGED losses
     \/ losses < MaxLosses /\ losses' = losses + 1
  /\ UNCHANGED <<canceled, lock, busy, schedule, committed, imports, crashes, clears>>

OrphanCommits ==
  /\ orphans > 0
  /\ orphans' = orphans - 1
  /\ \E some \in BOOLEAN : Imported(some)
  /\ UNCHANGED <<stage, status, detail, canceled, lock, busy, committed, losses,
                crashes, clears>>

\* An admin cancels the lessons, the last of them by this request.
CancelLessons(r) ==
  /\ stage[r] # "down"
  /\ Idle(r) >= 1
  /\ schedule /\ schedule' = FALSE
  /\ clears < MaxClears
  /\ clears' = clears + 1
  /\ UNCHANGED <<stage, status, detail, canceled, lock, busy, orphans, committed, imports,
                 losses, crashes>>

Work(r) ==
  \/ TryLock(r) \/ TryFails(r) \/ Wake(r) \/ WaitCanceled(r) \/ Check(r) \/ Parse(r)
  \/ Replace(r) \/ MarkReady(r) \/ RunFails(r) \/ EndLock(r)

Next ==
  \/ OrphanCommits
  \/ \E r \in Replica :
       \/ Start(r) \/ Work(r) \/ Cancel(r) \/ Borrow(r) \/ Return(r)
       \/ CancelLessons(r) \/ LoseConnection(r) \/ LoseCommit(r) \/ Crash(r)

Spec == Init /\ [][Next]_vars

\* Goroutines run, statements and HTTP calls end in a result or an error, and
\* requests give their connections back.  The pool serves waiters in order, so
\* who waits for a connection gets one although requests keep borrowing.  No
\* fairness for the outcome of the race for the lock: it goes to whoever tries.
Fairness ==
  \A r \in Replica :
    /\ WF_vars(Wake(r))
    /\ WF_vars(Return(r))
    /\ SF_vars(TryLock(r))
    /\ SF_vars(Check(r) \/ RunFails(r))
    /\ WF_vars(stage[r] \in {"parse", "mark_ready", "mark_empty"} /\ Work(r))
    /\ SF_vars(stage[r] = "replace" /\ Work(r))
    /\ WF_vars(EndLock(r))
    /\ WF_vars(r \in canceled /\ (WaitCanceled(r) \/ TryFails(r)))

FairSpec == Spec /\ Fairness

-----------------------------------------------------------------------------
(***************************************************************************)
(* Properties.                                                             *)
(***************************************************************************)

\* Only one instance checks and imports at a time.
OneImporter ==
  \A r, s \in Replica : stage[r] \in Critical /\ stage[s] \in Critical => r = s

\* As long as the connection of the lock lives: the lock is held by one
\* replica, which is inside run(), and only there.
LockIsCovered ==
  /\ Cardinality(lock) <= 1
  /\ \A r \in lock : stage[r] \in Critical

\* Nothing went wrong that lets two imports overlap, or one outlive its lock.
Undisturbed == losses = 0 /\ crashes = 0 /\ canceled = {}

\* The timetable is imported once, and once more at most for every connection,
\* process or context that went away under a running import, and for every
\* time an admin has cancelled it.
ImportedOnce ==
  imports + orphans <= 1 + losses + crashes + Cardinality(canceled) + clears

\* "ready", at which the front end opens its gate, is the truth: this replica
\* has committed an import, of lessons or of none as it reports, or has found
\* one; and undisturbed, the lessons are there as long as nobody cancels them.
\* "failed" is the truth, undisturbed: the replica has not committed an import.
ReadyMeansImported ==
  \A r \in Replica :
    /\ status[r] = "ready" /\ detail[r] # "skipped" => r \in committed
    /\ status[r] = "ready" /\ detail[r] # "no_lessons" =>
         /\ imports > 0
         /\ Undisturbed /\ clears = 0 => schedule
    /\ status[r] = "failed" /\ Undisturbed => r \notin committed

\* Unless it was told to stop, a replica ends its check with a verdict.
CheckEndsWithVerdict ==
  \A r \in Replica :
    stage[r] = "done" /\ r \notin canceled => status[r] \notin {"pending", "running"}

\* Every check ends, although all replicas want the lock and requests compete
\* for the pool from which the holder needs a second connection.
EveryCheckEnds == \A r \in Replica : stage[r] = "try" ~> stage[r] \in {"done", "down"}

=============================================================================
