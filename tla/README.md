# Verification of the room booking system

TLA+ modules, TLC configurations and TLAPS proofs kept beside this repository.
Every definition is translated from the source (Go, the SQL it runs, and the
TypeScript of one page); the abstraction is in the data, not in the control flow.

    tlc -workers 2 -config MCBookingService.cfg MCBookingService    # one run
    tlapm BookingProofs.tla                                         # one proof module

## 1. Inventory of the system

| part | where | state it keeps | operations | who it talks to |
|---|---|---|---|---|
| booking core | `internal/core/booking` | none of its own | CreateBooking, CancelBooking, list operations | store, event publisher |
| booking store | `internal/adapter/booking/postgres`, `migrations/booking` | tables `rooms`, `bookings`, the id sequence, an exclusion constraint, a foreign key | single statements; ReplaceParsedSchedule (one long transaction) | PostgreSQL, through a pool |
| startup import | `cmd/booking/main.go`, `import_lock.go` | advisory lock, status shown by `GET /parser/status` | check, scrape, replace; polling for the lock | store, parser, other replicas |
| timetable parser | `internal/core/parser`, `internal/adapter/parser/httpparser` | none | fetch rooms and lessons, expand weekly lessons into dated slots | the university's web site |
| event publisher | `internal/adapter/booking/events/rabbitmq` | one AMQP channel | Publish, Close | RabbitMQ |
| HTTP layer | `internal/adapter/booking/http`, `internal/platform/httpx` | none | routes, token, parameters, errors; access log, panics; graceful shutdown | clients |
| auth service | `internal/core/auth`, `internal/adapter/auth`, `cmd/auth_service` | table `users` (or a map in memory) | register, login, me; issues tokens | clients, PostgreSQL |
| gateway | `internal/adapter/gateway`, `cmd/app` | none | routes and rewrites calls, passes answers back, normalises errors | clients, services |
| log writer | `internal/platform/logging` | a channel of lines, one TCP connection | Write, the sender | Logstash |
| bot, timetable | `timetable-homework-tgbot/.../database`, `.../parser` | tables of lessons and groups | read pages, fill the tables with a worker pool | web site |
| bot, accounts and homework | `timetable-homework-tgbot/.../repositories` | students, teachers, homework, statuses, reminders | login, leave, role; set, edit, delete, tick off, remind | chats |
| front end | `frontend` | React state | pages over the HTTP API; a gate that polls the import status, the booking form | gateway |

How they interact. A call passes the gateway, the HTTP layer and the core, which
runs a few separate SQL statements and then publishes an event. The startup
import of every replica runs beside the requests on the same tables and the same
pool; replicas meet in PostgreSQL only (rows, constraints, the advisory lock). The
auth and the booking service share a secret: the booking service believes the
identity in a token and asks nobody. The bot has a database of its own and shares
nothing with the services but the university's site. Logs leave every service
through a channel that must never make it wait.

### What is hard in each part, and what makes it correct

| part | hard behaviour | correct when |
|---|---|---|
| booking core and store | `CreateBooking` lists, compares and inserts in three statements; `CancelBooking` authorises in one and deletes in another; clients hang up between commit and answer; inserts wait for each other | no double booking; a 409 is deserved; nobody's booking goes without authority; events are true; each call takes effect in one step |
| import transaction | runs for seconds between other people's statements, waits for them and makes them wait, may fail anywhere | users' bookings survive; the timetable is replaced whole or not at all; a lesson is dropped for a good reason only; no booking without its room; everybody gets on |
| startup import | several replicas, a lock on one connection while the work is done on others, crash, lost connection, cancellation, a pool of bounded size | imported once; what `/parser/status` says is true; every check ends, with a verdict |
| parser, page readers | week parity around New Year, Sundays, the clock read again for every lesson; pages that are incomplete or fail | stored whole; no slot twice; alternating lessons alternate; lessons as printed, or a failure |
| bot fill | worker pool with a full channel, first error, cancellation | success means filled; the error reported is the cause; it returns |
| server lifecycle, publisher | timeouts, handlers that hang, a listener that fails, a connection lost for good | active requests finish; a stop loses no event; the process ends |
| log writer | bounded queue, connection that breaks in the middle of a line | nothing lost but what found the queue full or was in a broken connection; nothing reordered, nor repeated but after a part of it; the queue drains |
| auth service | concurrent registrations, statements that commit after their timeout, two implementations of token verification | one account per login, as under the mutex of the test repository; tokens are true and read alike |
| gateway, HTTP layer | two routers with a rewriting between them; services that fail, hang or die while they answer | a call reaches what the description says; its client and the access log are told the truth, in JSON |
| bot accounts, homework | transactions that unbind what they saw and bind; statements in between which chats change accounts or rows disappear | one account per chat; nobody thrown out by another's login; no row left behind; only authors change homework |
| booking page | answers late, lost, or out of order; effects of React that are cancelled | what is offered belongs to the room selected; nothing loads for ever; the gate decides |

## 2. Modules

    BookingDomain            roles, ranges, overlap (pure)
      BookingStore           tables, open transactions, waits, deadlock
        BookingService       requests of the service        --implements--> Calendar
        ScheduleImport       the import transaction
          BookingSystem      both on the same tables      --implements--> Calendar
      AuthService            accounts and tokens            --implements--> Accounts
    StartupImport            replicas, advisory lock, pool, status
    ServerShutdown           run() of the service, its handlers, the broker
    AsyncLogWriter           the log's channel and connection
      ServerProcess          both, as parts of one process
    Gateway                  two routers, a proxy, the way back of an answer
    ParserService            scrape, expand into dated slots, hand over
    SchedulePage             a timetable page, read by four readers
    TimetableFill            the bot's worker pool
      Timetable              the three, which share nothing
    BotAccounts, BotHomework the bot's repositories
      Bot                    both, as parts of one bot
    BookingPage              gate and form in a browser

    BookingProofs (store, service, imports), StartupImportProofs, AuthServiceProofs,
    GatewayProofs, TimetableProofs (fill, expansion, pages), BookingPageProofs,
    BotProofs (accounts and homework), ServerProofs (the end of a process, and its log)
    MC*                      small instances for TLC

**BookingStore** is the database as the sessions see it. `rooms` and `bookings`
are what is committed; `inserted`, `deleted`, `roomsInserted`, `roomsDeleted` are
the changes of a transaction that is still open; `nextId` is the sequence, which
an abort does not turn back. A plain `INSERT` is two steps, as in PostgreSQL: the
tuple is written (`WriteTuple`), then the exclusion index is scanned
(`PassExclusion`), and the scan waits for tuples in progress. An `INSERT ... ON
CONFLICT DO NOTHING` looks before it writes (`Propose`, `PlaceProposed`,
`DropProposed`), so nobody waits for its row before it is placed. `WaitsFor` and
`InDeadlock` are the lock manager and its detector. PostgreSQL's own part is
marked external in the map; the rest stands for `store.go`, `query.sql` and the
migrations.

**BookingService**: `pc[r]` is the statement that request `r` will run next,
`listed` and `found` are the local variables that outlive a statement. There is
one action per statement and outcome: `RefuseCaller`, `RefuseRange`, `Accept`
(the checks before the first statement), `GetRoom`, `ListRoom`, `RejectListed`,
`StartInsert`, `FinishScan`, `RejectInsert` (23P01), `AbortDeadlocked` (40P01),
`CommitInsert`, `RejectRoom` (23503), `GetBooking`, `DeleteBooking`, `Publish`.
`Disconnect` is the end of the request's context, `LoseCommit` and `LoseDelete`
its end after the commit and before the answer. `contested` and `made` (every row
that was committed at some moment, which `EventsTruthful` asks of an event's row)
are history variables that no action reads.

**Calendar** is what clients are promised: every call takes effect in one step
between arrival and answer, and its answer is true at that step. `BookingService`
implements it under `calendar <- bookings` and `verdict <- Verdict(r)`: a call
that has been decided, but not answered, already has its verdict. `GiveUp` allows
an internal error without an effect, which deadlocks make necessary.

**ScheduleImport** is `ReplaceParsedSchedule` statement by statement. The deletion
of unused rooms is two steps, the snapshot that selects and the foreign key that
looks again. **BookingSystem** interleaves it with the requests. It implements
`Calendar` too, with one step more: `Reschedule`, in which a timetable takes the
place of the old one (`ImplementsSharedCalendar`), is the commit of an import. It puts
a lesson in every slot the import has not skipped and removes all others; why a slot
was skipped it does not say, since the booking of a user that kept the lesson out may
have been cancelled again when the import commits. `ImportIsAtomic` says the
same of the lessons alone: they come only with a commit, and go only with one or
by a cancel call entitled to them, whatever statement of an import fails.
`SkippedForGoodReason` says why a slot may be missing.

**StartupImport** follows `startStartupScheduleImport` and
`WithScheduleImportLock` through their stages. The advisory lock is a set of
replicas, so that the model could hold two; `Idle` counts the connections left
in a pool. `Replace` is the import as one step (its own steps are in
`ScheduleImport`, where `ImportIsAtomic` says that this is sound). `LoseCommit`
and `Crash` leave a COMMIT behind that nobody waits for (`orphans`), which
`OrphanCommits` carries out at any later time, under whoever has the lock by then.
`CancelLessons` is an admin who cancels the imported lessons through the API
(`clears`), after which a replica that waits imports again. `status` and `detail`
are what `GET /parser/status` shows: a site without lessons is "ready" with none of
them, as in the code, and `committed` remembers whose process has seen its COMMIT.

**ServerShutdown** is `run()` of `cmd/booking` from `ListenAndServe` to its last
deferred close: `main` walks through shutdown with its timeout, the wait for the
import, `publisher.Close` and `pool.Close`, while handlers are between acquiring a
connection, their commit, their event and their answer (`phase`). `cut` are the
requests whose connection, and so whose context, has ended. Connections outlive a
listener that has failed, since nobody closes them, and go on bringing requests;
and a request that was just read may start its handler although Shutdown or Close
has closed its connection. The broker's
connection dies (`dead`) before anybody notices (`down`), and what was written in
between is lost.

**AsyncLogWriter** numbers the lines. `Write` is the handler's side (standard
output, then the channel or nothing); `Take`, `Dial`, `Send`, `SendFails` are the
sender goroutine, with the line it keeps until it has been written (`message`); a
write may fail after a part of the line has been sent (`begun`), perhaps all of it but
the newline, which Logstash takes for a line when the connection ends (`torn`), and
the line is sent again.
What was written stays in `socket` until Logstash has received it or the
connection breaks.

**AuthService** runs an INSERT in a backend of the database (`statement`,
`pending`) that goes on when its request has given up (`WriteFails`), so a
registration answered 500 may still commit. `Generate`, `Verify` and `Identity`
are the tokens as auth issues and reads them and as the booking service reads
them, with claims that may be missing and tokens signed elsewhere
(`ForeignTokens`). **Accounts** is the promise: the repository in memory that the
service's tests use, whose mutex makes `Create` one step.

**Gateway** has the routes of both sides as a relation over path segments: the
patterns of the gateway (`Upstream`), the rewriting, the routers of the services
(`Routes`), token and parameter checks in the order of the wrappers (`Refuse`), and
for each call the state of the gateway's handler, of the service's, and of what
the client has got. `BreakCopy` is the service dying while its answer is copied.

**ParserService** is `Service.Run` and the expansion of weekly lessons, with
calendar arithmetic over day numbers. **SchedulePage** is the reading of a page,
row by row, column by column, cell by cell, for the scraper of the service and the
three readers of the bot. A reader of the bot that gets no page returns a nil slice,
which is a list of no lessons to its callers. **TimetableFill** is
`fillGroupsParallel` with its two channels, context, wait group and mutex, and the
readers it calls: those of faculties, groups and lessons return empty lists when
they fail (`seen` and `unread` remember which pages were had), and may panic.

**BotAccounts** runs login and leave statement by statement over row locks, a
snapshot per statement and the unique index of `user_id`; `GetRole` is two queries.
Before an account is unbound a placeholder is inserted for it (`FindPlaceholders`,
`InsertPlaceholders`, ON CONFLICT DO NOTHING, which waits for an insertion in
progress); in `users` an account stands for its placeholder. The UPDATE that follows has a
snapshot of its own, and a row it finds in addition may lack its placeholder: the foreign
key refuses it (`RejectUnbind`). Any statement, BEGIN and COMMIT included, may fail
(`StatementFails`), and a COMMIT whose answer is lost has committed.
**BotHomework** is every operation that changes homework, statuses or reminders;
a statement chooses its rows from its snapshot (`chosen`) and looks again at what
it writes, while chats change accounts.

**BookingPage** is one browser: the page rendered on its server step by step
(`render`: who the user is, the status, the rooms), which may end in a redirect to
/login that unmounts everything, and whose status is delivered later than it was read
(`heard`); the gate with its interval (`polls`), effects that
run after the page has been painted, `router.refresh()` (`again`), and the form
with its calls for a room's timetable (`loads`), of which a later selection cancels
the earlier ones.

A definition whose comment begins with *Fault:* is a wrong version of the one
below it. No specification uses it; it is there to show that the properties can
tell the difference.

## 3. Runs

| run | question | instance | distinct states |
|---|---|---|---|
| `booking_service` | do concurrent calls keep the promise of `Calendar`, are answers, events and cancellations justified | 3 requests, each with any of 12 calls (overlapping, touching, empty ranges, unknown room, unknown role, four kinds of caller, an id that does not exist yet), one booking to begin with | 105 000 |
| `booking_race_loser` | does the loser of a race get 409 (**violated**) | 2 calls for one slot | |
| `booking_system` | an import beside requests: safety and liveness of both | 1 import of 3 lessons (one repeats the old timetable, one meets a booking), 2 requests with 7 calls, one stale room, one new room | 169 000 |
| `startup_import` | exclusion, single import, truth of the status, every check ends | 2 replicas, pools of 2, 1 lost connection, 1 crash, 1 timetable cancelled by an admin | 130 000 |
| `startup_import_lost` | one importer at any time (**violated**) | 2 replicas, 1 lost connection | |
| `timetable` | from page to timetable: the fill, the expansion, the readers | 2 workers, 6 jobs with shared lessons, 2 failures; 3 rooms, 5 weekly lessons, 4 weeks ahead from any of 45 days around the ends of 2024 and 2026 (53 weeks), 2 midnights; pages with up to 2 rows and 4 columns | 421 000 |
| `auth_service` | registrations, logins, tokens | 3 requests with any of 8 calls, 4 tokens from elsewhere, one tick of a clock that ends a token's life | 73 000 |
| `bot` | who is who, and whose homework | accounts: 3 calls of 7, two chats, three accounts, not all three calls changes of the same chat; c2 has neither s2 nor t1 to begin with (`AccountsBegin`), the teacher's placeholder there or not; homework: 2 calls of 7, two chats that move twice | 753 000 |
| `server` | the end of a service, and its log | 2 requests; 5 lines, a channel of 2, beginnings of lines among the first 3 received (`MaxReceived`) | 90 000 |
| `gateway` | routes, errors, answers | 2 calls out of 37: the described ones with each kind of token, and such as miss a route on either side | 308 000 |
| `gateway_spoiled` | is a complete 200 whole (**violated**) | the same | |
| `booking_page` | the form, and the gate before it | form: 2 rooms, one slot, 2 calls at once; gate: 2 polls at once, 1 restart of the service, a user who comes back from /login | 527 000 |

`timetable`, `bot`, `server` and `booking_page` each hold two or three components
that share nothing: `part` (or `half`), chosen in the initial state, says which of
them moves in a behaviour while the others rest. The state space is the sum of
theirs, not the product, and each behaviour is one of a component alone.

Why the bounds are enough. A conflict is between two rows and a stale read needs
one writer, so two requests produce every pairwise race; the third one makes
circular waits of three, a canceller between two creators, and a reader of an
aborted insert. Times 0..5 give ranges that are disjoint, touching, overlapping
and equal. An import of three lessons meets a committed booking, one in progress
and its own previous row. Two replicas are one holder and one that waits, and a
pool of two is the smallest with which the code can work at all. Six jobs are more
than two workers and their channel can take after both have stopped. The parser
depends on the calendar only through weekday and week number; the days chosen hold
every weekday, both kinds of year end and the double odd week. Three registrations
are one that commits late, one that waits for it and one that comes after. Two
requests are one that a stop catches between commit and event and one that hangs.
Five lines fill the channel, the sender and the socket, and leave one for after.
All bookings of `Gateway` are for one slot, so that a call repeated after a lost
answer meets what the first one has done.

Symmetry is used for requests in safety runs, and for the rooms of `booking_page`:
its liveness property is about the gate alone, in whose behaviours one room only
occurs. Deadlock is checked for `StartupImport`, where SIGTERM and requests can
always arrive; elsewhere calls, imports and processes end and the system stops.

### Fairness

Weak fairness for every statement and goroutine that can run: goroutines are
scheduled, statements end once what they wait for has ended, and PostgreSQL's
deadlock detector runs. A client need neither call nor hang up, a connection need
not be lost, a process need not crash.

* `BookingSystem`: a call and an import, once begun, run their next statement when
  nothing makes it wait. Nobody need begin.
* `StartupImport`: strong fairness where a connection of the pool is needed:
  `pgxpool` serves waiters in order, so a connection that is free again and again
  is handed over although requests keep borrowing. Nothing is assumed about who
  wins the lock.
* `TimetableFill`: strong fairness on `sync.Mutex`, which hands over to a starving
  waiter.
* `ServerShutdown`: `run()` and handlers go on, but a statement and the import end
  only when their context has ended: both may hang in the database. `ProcessEnds`
  asks for more after the listener has failed: nobody cuts the handlers off then, and
  `pool.Close` waits for a connection as long as its statement hangs. So that the end
  follows is claimed only if every handler leaves the database again and again; the
  signal, the usual way to stop, needs no such condition.
* `AsyncLogWriter`: the sender runs, a write to a broken connection fails in the
  end, what is written to a good one arrives; Logstash may stay away for ever.
* `BookingPage`: timers tick, effects run, a render ends, every poll ends, and polls
  are answered again and again if they are sent again and again. Nobody need come
  back from /login, where a refresh may have sent them: `GateDecides` counts that.

### What the three violated runs show

* `booking_race_loser`. The tests say that of concurrent posts of one slot all
  but one get 409. Two plain inserts can each write their tuple and then wait for
  the other one's; PostgreSQL aborts one with 40P01, `translateInsertError` knows
  23P01 only, and the loser gets 500. No booking is lost and nothing is booked
  twice. The test passes as long as the inserts do not meet in that window.
* `startup_import_lost`. The README says that one instance at a time checks and
  imports, and that loss of the database connection releases the lock. When it
  does, the replica that lost it goes on importing on other connections while the
  next one enters. `ImportedOnce` bounds the damage: one more import for each
  connection, process or context that went away.
* `gateway_spoiled`. `httputil.ReverseProxy` panics with `ErrAbortHandler` when a
  service dies while its answer is copied, so that net/http cuts the client off.
  `RecoverPanic` recovers from that panic like from any other and calls
  `http.Error`: the client gets status 200 and a body that ends in an error text,
  complete as far as HTTP can tell, and the access log has no line of it.

### Observed while modelling, without a run

* `AuthService.Login` turns every error of `GetByLogin` into "invalid credentials",
  so that a slow database looks like a wrong password (401), although
  `docx/auth/api.md` lists 500. `StoredCredentialsEnter` therefore excuses a login
  whose read failed (`outage`).
* The publisher asks for confirms and reads none: an event written to a connection
  that has died is neither with the broker nor in the log, although the comment in
  `publisher.go` says that events can be recovered from logs (`EventAccountedFor`
  counts it as in transit).
* `ParseToken` wraps the whole booking service: `GET /rooms`, public in
  `gateway-api.yaml`, is answered 401 when a token that has expired is sent along.
* The bot's readers of rooms and teachers look for groups in the whole column
  (`cells.Find`): each lesson of a column gets the groups of all of them. Nothing
  that is stored comes from these readers, and nothing in the repository says what
  they should find, so `LessonsAsPrinted` asks for a lesson's own groups of the
  service's reader only; of these two it asks for those at least, and for none from
  elsewhere on the page (`GroupsFit`).
* The bot's fill reports success when the list of faculties, of a faculty's groups or
  of a group's lessons could not be read: these readers log the failure and return an
  empty list. `SuccessMeansFilled` is about the pages that were had.
* The button «Обновить» of a failed gate calls `router.refresh()`, but the gate keeps
  the status it was mounted or last polled with (`useState(initialStatus)`), and a
  failed gate polls no more: the failure stays until the page is loaded again, though
  the service may be ready by then. `RetryButton` and `Mount` show it; `GateDecides`
  counts a failure as a decision and permits it.
* An import that an admin has undone by cancelling its lessons is repeated by the next
  replica that starts; `ImportedOnce` pays for it (`clears`). A status of "ready"
  stays when the lessons go, and "failed" may stand for an import that was committed
  when the connection or the context ended (`ReadyMeansImported` says when not).

## 4. Proofs

For every value of the constants, under the assumptions named in the modules
(`StoreAssumption`: the initial tables are consistent and no token carries user 0;
`ImportAssumption`, `SystemAssumption`: the site's rooms are known ids, none of
them stale, and imports are not requests; `ServiceAssumption`, `AuthAssumption`,
`AccountAssumption`, `CallAssumption`, `HomeworkAssumption`: calls are well formed, a
path has a segment, a text is a sequence of words;
`StartupAssumption`: a pool has two connections or more; `FillAssumption`: the pool
of the bot has a worker; `ParserAssumption`, `RoomsAssumption`, `WeeklyAssumption`,
`PagesAssumption`: runs end before 2099, up to which `YearOf` looks for a year, rooms
are distinct, lessons have a weekday and a kind of week, and tables are lists;
`RequestAssumption`: the bot's calls are finitely many). TLC evaluates all of them on
the instances of section 3.

| theorem | module | says |
|---|---|---|
| `TypeCorrect` | BookingProofs | `Spec => []TypeOK` |
| `NoDoubleBookings` | BookingProofs | `Spec => []NoDoubleBooking` |
| `CancelsAreAuthorised` | BookingProofs | `Spec => CancelAuthorised` |
| `ConflictsAreJustified` | BookingProofs | `Spec => []ConflictJustified` |
| `EventsAreTruthful` | BookingProofs | `Spec => []EventsTruthful` |
| `ServiceImplementsCalendar` | BookingProofs | `Spec => ImplementsCalendar`, the refinement |
| `SystemNoDoubleBooking` | BookingProofs | `SystemSpec => []NoDoubleBooking` |
| `NoOrphans` | BookingProofs | `SystemSpec => []NoOrphanBooking` |
| `SkipsAreJustified` | BookingProofs | `SystemSpec => []SkippedForGoodReason` |
| `AnswersTrueBesideImports` | BookingProofs | `SystemSpec => [](ConflictJustified /\ EventsTruthful)` |
| `UserBookingsAreKept` | BookingProofs | `SystemSpec => UserBookingsKept`, for any number of imports at once |
| `ImportsAreAtomic` | BookingProofs | `SystemSpec /\ []OneAtATime => ImportIsAtomic` |
| `SystemImplementsCalendar` | BookingProofs | `SystemSpec /\ []OneAtATime => ImplementsSharedCalendar`, the refinement beside imports |
| `StartupTypeCorrect` | StartupImportProofs | `Spec => []TypeOK` |
| `ReadyIsTrue` | StartupImportProofs | `Spec => []ReadyMeansImported` |
| `ChecksEndWithVerdict` | StartupImportProofs | `Spec => []CheckEndsWithVerdict` |
| `OneImporterUndisturbed` | StartupImportProofs | `Spec => [](Undisturbed => OneImporter)` |
| `LockCovered` | StartupImportProofs | `Spec => []LockIsCovered` |
| `ImportsAreCounted` | StartupImportProofs | `Spec => []ImportedOnce` |
| `ShutdownTypeCorrect` | ServerProofs | `Spec => []TypeOK` |
| `RequestsFinish` | ServerProofs | `Spec => []ActiveRequestsFinish` |
| `ImportBeforeClose` | ServerProofs | `Spec => []ImportEndsFirst` |
| `NoEventLost` | ServerProofs | `Spec => []StopLosesNoEvent` |
| `EventsAccountedFor` | ServerProofs | `Spec => []EventAccountedFor` |
| `LinesAreAccountedFor` | ServerProofs | `Log!Spec => []EveryLineAccountedFor` |
| `AuthTypeCorrect` | AuthServiceProofs | `Spec => []TypeOK` |
| `AccountsUnique` | AuthServiceProofs | `Spec => []OneAccountPerLogin` |
| `RegistrationsTruthful` | AuthServiceProofs | `Spec => []AnswersTruthful` |
| `RegistrationsImplement` | AuthServiceProofs | `Spec => ImplementsAccounts`, the refinement |
| `TokensTruthful` | AuthServiceProofs | `Spec => []TokenTruthful` |
| `StoredEnter` | AuthServiceProofs | `Spec => []StoredCredentialsEnter` |
| `TokensAgreed` | AuthServiceProofs | `Spec => []ServicesAgree` |
| `AnswersAreTrue` | GatewayProofs | `Spec => []AnswerTruthful` |
| `ErrorsArriveAsJSON` | GatewayProofs | `Spec => []ErrorsAreJSON` |
| `CallsReachTheirOperation` | GatewayProofs | `Spec => []RoutesAgree` |
| `RootCauseIsReported` | TimetableProofs | `Spec => []RootCauseReported` |
| `SuccessIsComplete` | TimetableProofs | `Spec => []SuccessMeansFilled` |
| `TimetablesAreWhole` | TimetableProofs | `Parser!Spec => []StoredIsWhole` |
| `PagesAreReadAsPrinted` | TimetableProofs | `Reading!Spec => []LessonsAsPrinted` |
| `OneAccountEach` | BotProofs | `Spec => []OneAccountPerChat` |
| `NobodyIsThrownOut` | BotProofs | `Spec => NobodyThrownOut` |
| `RolesAreTrue` | BotProofs | `Spec => []RoleWasHeld` |
| `NobodyStandsStill` | BotProofs | `Spec => []NoStandstill` |
| `HomeworkRowsBelong` | BotProofs | `Homework!Spec => []RowsBelong` |
| `HomeworkAnswersTruthful` | BotProofs | `Homework!Spec => []AnswersTruthful` |
| `HomeworkOnlyAuthorChanges` | BotProofs | `Homework!Spec => OnlyAuthorChanges` |
| `PageIsTruthful` | BookingPageProofs | `Spec => []PageTruthful` |

*No double booking* is not inductive: a commit makes an open row a committed one.
`StoreInv` adds `NoOpenConflict` (a row that has passed its scan conflicts with
nothing committed, except what its own session deletes, and with no other such
row), `ExclusiveDeletes` (no row is deleted by two sessions, so the exception is
safe) and `UniqueIds`. The first part of `BookingProofs` shows once that each
statement and each end of a transaction keeps it; the proofs about the service and
about imports only cite that.

*Authorised cancellations* need `ClaimInv`: while a call is between
`GetBookingByID` and `DeleteByID`, its id has been drawn already, the row with that
id, if it is still there, is one the caller may cancel, and no open row has the id.
It rests on the sequence never giving an id twice.

*Answers and events* need `AnswerInv`: the tuple a request holds is the row it asks
for (`TupleInv`), a request that is about to answer 409 has met a conflict
(`ConflictInv`), and whoever is about to publish has a row that was committed, that
nobody else can announce and that is still unannounced (`EventInv`); `made` has every
row that was ever committed, and an id that was drawn means one row for ever, so the
row of an event is the one its call committed, or deleted.

*The service implements Calendar.* The booking of a create call is entered in the
one step that commits its tuple; everything before it is a stutter, and so is
everything after, since `Verdict` shows the answer a decided call will get. A
refusal is the step in which the call learns of the conflict: the insert whose scan
fails, or `ListRoom`, although the list it compares afterwards may be stale by then.

*Imports beside requests* need `SystemInv`: an import holds lessons only, and
what it deletes by the stage it is in (`LessonInv`); a committed booking never has
its room under an open deletion, whoever is between snapshot and foreign key
(`RoomInv`); rows an import meets after its deletion are younger than it (`SkipInv`).
`ImportsAreAtomic` has a premise, that one import at a time is open: two that
overlap on a table without lessons have nothing to wait for, and the second
commits its lessons beside those of the first. That they do not overlap is the
business of the advisory lock: `OneImporterUndisturbed`, and
`startup_import_lost` for when it does not hold.

*The system implements Calendar* by the lemmas of the service, which ask for nothing
but `SystemInv` (`StepPromised`), and by the import's commit: `ClearedInv` says that
all of the old timetable goes, `SlotInv` that what comes is in the new one, and
`StoreInv` that it meets no booking and no id twice. The premise is that of
`ImportsAreAtomic`. That the bookings of users are kept (`UserBookingsKept`) needs no
premise and is proved for itself, for any number of imports at once.

*The startup import* needs `LockInv` (one holder at most, inside `run()`),
`VerdictInv` (the status is final before the lock is given back), `ImportInv` (who
has seen or committed a timetable knows that there was one) and `CalmInv`
(undisturbed, whoever is inside `run()` holds the lock, so that what it has read of
the database is still true). Without "undisturbed" the last one is false: that is
what `startup_import_lost` shows. *Imported once* is an account, `CountInv`: what has
been imported, what orphaned commits may still import and what the replicas inside
`run()` without the lock may, is at most one and the losses, crashes, ended
contexts and cancelled timetables so far.

*The shutdown* needs `ShutdownInv`: what is closed follows from where `run()` is
(`MainInv`), whom it is closed under from how serving ended (`DrainInv`), and where
an event is from the phase of its handler (`EventInv`); once the publisher is
closed, the broker has what it can have (`DeliveredInv`).

*The log* needs `LogInv`: what has arrived, what is in the connection, the line being
sent and the channel stand in one ascending order, in which a line stands twice only
behind a beginning of it, and with what was dropped or lost they are all the lines
there were.

*The auth service* needs `DbInv`: a row in progress is the one of its request, not
yet in the table, and of two insertions under one login at most one has passed the
index. The commit of that row is the one step of `Accounts!Create`. `ReplyInv` says
what an answer shows once it is given, `TokenInv` that rows never change under a
token, `KnownInv` that a row once seen stays.

*The gateway* needs `GatewayInv`, which says of every request by itself (`Point`)
what its service has done by the state it is in, what the gateway passed on by its
own, and that a call refused to its client is one nobody works on any more. No step
touches two requests (`Same`), so it is proved for the request that moves. *Routes
agree* for paths of any length: lemmas say which paths each pattern of the gateway
and each router takes, and `RouteInv` carries that over the life of a call.

*The fill* needs `RootInv`: what stops it is in the error channel before anybody is
stopped by it, so the first error received is never the cancellation it caused;
and `FillInv`: as long as no error occurred every group sent is filled, unread, in
the channel or in the hands of a worker, and a worker leaves only when the channel
is closed and empty (`CoverInv`). This is false of a pool without workers, hence
the assumption.

*The expansion* needs `ExpandInv`: the slots of every lesson of the rooms visited, and
of the lessons of the room at hand that are done, are those of one reading of the
clock between the first day of the run and now, and the others have none. The rest is
the calendar: week numbers go up by one and begin again after the 52nd or the 53rd
(`WeekAfter`, from the lengths of the years), hence two odd weeks follow each other
only after a 53rd and the even ones around it are three weeks apart (`NextOfKind`).

*The reading of a page* needs `ReadInv`: the lessons read are those at the places
that the three loops have passed, each at the rank its place has among all that are
wanted, in the order of the table. A cell that is read comes after all of them, so
that it is appended at its own rank (`LessonRead`), and what the loops skip, rows
without a time, columns beyond the days, has no lesson (`NothingPassed`).

*The bot's accounts* need `DraftInv`: a row a transaction has written is one its chat
holds and gives up, or the one it asks for, and nobody else can write it. One account
of a *table* for a chat is what the unique index enforces (`TableInv`); one account
*altogether* holds of chats whose calls never overlapped only (`SoloInv`), since a
login unbinds what its snapshots show. `RoleInv` says what `GetRole` knows between
its two queries. That calls never stand still says that whoever is waited for has a
transaction open (`OpenInv`, `WaitsForOpen`), which a forgotten rollback would break;
then either somebody waits for nobody, or all wait for each other, and the smallest
set of calls that wait for each other only is a circle (`CircleOfWaiting`, by the
library's theorem that strict inclusion of finite sets is well-founded). `CanGoOn`
lists the guards of the statements, where ENABLED would be out of the prover's reach.

*The bot's homework* needs `HomeworkInv`: an id is drawn once (`IdInv`), so what a
statement has chosen from its snapshot still holds when it writes, or the homework is
gone for good (`PointInv`), which the foreign keys notice; every row then has what it
refers to, and homework keeps a link to its group (`RowInv`). `RightInv` says what a
call has seen of its right to ask by the statement it is at. That an edit keeps a text
of any length up to its first colon (`EditKeepsHead`) rests on the least-number
principle, from the library's theorem that `<` on the naturals is well-founded.

*The booking page* needs `GateInv` and `FormInv`: the gate has heard "ready" only of a
service that has a timetable, and opens with the rooms of it, with a refresh to come
or under way, or excused by a call that failed or a service that restarted (`excuse`);
a render that has read an earlier status and is still to be delivered takes the rooms
away only where one of these holds. A call for busy times that was not cancelled is for
the room that is selected, and a form that loads has one.

Some definitions were changed to be reasoned about. `Gateway!Refuse` and
`TimetableFill!Return` were CASEs whose guards overlapped, where the code has a
sequence of early returns; they are nested IFs now, in the order of the code.
`SchedulePage` has the groups of a cell as a set, since nothing depends on their
order, and its `Printed` has no bound on the cells of a column any more.

Only model-checked: liveness (`EverythingEnds`, `EveryCheckEnds`, `FillEnds`,
`ProcessEnds`, `ChannelDrains`, `WaitingEnds`), which is out of this prover's reach.

## 5. Abstractions, and what is not modelled

* Reads that no later statement depends on (the list operations, `GET` handlers)
  are answers of `Gateway!Serve` only; columns no property needs are not in the rows.
* Isolation is READ COMMITTED, one snapshot per statement. A deadlock is broken by
  aborting any member of the cycle.
* `UpsertRooms` upserts all rooms of the timetable in one step, before the lessons,
  as the code does room by room; a room that only a lesson names, which the code
  upserts just before that lesson, is among them. The order of these row locks
  matters to two imports at once only.
* A room of the timetable is never a stale one: `normalizeParsedRoom` removes the
  parentheses by which stale rooms are recognised.
* In `ParserService` the rooms of the site are distinct and the slots form a set;
  hours, time zones and daylight saving are a number of the period.
* In `StartupImport` an admin's cancellations of single lessons are one step that leaves
  none, the only moment that matters to `HasParsedSchedule`; the run begins without a
  timetable (`Earlier`), while the proofs allow either.
* In `ServerShutdown` a handler is the transaction that commits, its event and its
  answer. When the listener itself fails, `run()` waits for nobody: the properties
  say so (`ended = "failed"`).
* In `BotAccounts` the placeholders of students are there to begin with, as the seed
  inserts them; those of teachers may be missing, since their seed uses other numbers.
* In `AsyncLogWriter` a write never reports an error after the whole line was sent
  (Go's does not). Lines that are still in the channel when the process exits are
  gone: nothing flushes it, and the model does not end the process.
* In `AuthService` full names, which nothing reads, and password hashing, which the
  code does not do, are left out.
* In `Gateway` HEAD, CORS headers, request ids and query strings are left out.
* In `BotHomework` a statement that takes several rows takes them in one step; the
  loop that sends reminders (`GetPending`) has no caller in the repository.
* In `BookingPage` the gate polls one service, which may restart; nobody cancels a
  booking while the form is open, and the list of rooms does not change any more once
  it is there, so that reading it and delivering it are one step.
* Pages and requests over HTTP either return or fail, with an error status or a
  body that is cut off where the code tells the difference.
* Not modelled: configuration (read once, before anything runs), rendering and the
  other pages of the front end, the encoding and decoding in generated code, the
  bot's read-only lesson repository, and the lists of faculties, groups, teachers
  and rooms, which are the links of a page in their order.

## 6. Plan

Done: the modules above and the proofs of section 4.

Next: `OneAtATime`, the premise of two theorems about the import, as a consequence of
the lock of `StartupImport` and its connection, which needs a module that composes
the replicas with the transactions they run.
