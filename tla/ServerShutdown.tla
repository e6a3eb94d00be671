--------------------------- MODULE ServerShutdown ---------------------------
(***************************************************************************)
(* The end of the booking service: run() of cmd/booking, the server of     *)
(* internal/platform/httpx, and what they close under the handlers: the    *)
(* RabbitMQ publisher and the pool of database connections.                *)
(*                                                                         *)
(* A handler is reduced to the transaction that commits its booking, the   *)
(* publication of the event and the answer (BookingService has the rest).  *)
(* The broker is the far end of one connection, which is never opened      *)
(* again; that it has died is noticed later than it dies.                  *)
(***************************************************************************)
EXTENDS FiniteSets

CONSTANT Request

VARIABLES
  main,       \* what run() does next
  signaled,   \* SIGTERM or SIGINT has come while run() was waiting for it
  canceled,   \* the context of run() has ended
  import,     \* the goroutine of the startup import: "running", "done"
  phase,      \* request -> what its handler does next
  cut,        \* requests whose connection is closed, and so their context
  committed,  \* requests whose booking is committed
  pool,       \* "open", "closed": whether connections can be acquired
  publisher,  \* "open", "closed"
  broker,     \* "up", "dead", "down": dead and noticed
  transit,    \* events written to the connection, not yet with the broker
  delivered,  \* events the broker has
  logged,     \* events whose publication failed, logged as warnings
  ended       \* history: how serving ended: "", "failed", "drained", "expired"

serverVars == <<main, signaled, canceled, ended>>
resourceVars == <<import, pool, publisher>>
eventVars == <<broker, transit, delivered, logged>>
vars == <<serverVars, resourceVars, phase, cut, committed, eventVars>>

Alive == main \notin {"exited", "killed"}
Running == {r \in Request : phase[r] \notin {"idle", "done"}}

Init ==
  /\ main = "start" /\ signaled = FALSE /\ canceled = FALSE /\ ended = ""
  /\ import = "running" /\ pool = "open" /\ publisher = "open"
  /\ phase = [r \in Request |-> "idle"] /\ cut = {} /\ committed = {}
  /\ broker = "up" /\ transit = {} /\ delivered = {} /\ logged = {}

Goto(r, p) == phase' = [phase EXCEPT ![r] = p]

-----------------------------------------------------------------------------
\* Handlers.

\* Connections that may bring a request: while the server serves, any; while
\* Shutdown waits, those accepted before; those left by a listener that has
\* failed, which nobody closes.
Connected == main \in {"serve", "shutdown"} \/ ended = "failed"

\* Shutdown or Close may also close a connection whose request has just been
\* read: its handler starts without one.
Accept(r) ==
  /\ Alive /\ phase[r] = "idle"
  /\ Goto(r, "acquire")
  /\ \/ Connected /\ UNCHANGED cut
     \/ ended \in {"drained", "expired"} /\ cut' = cut \cup {r}
  /\ UNCHANGED <<serverVars, resourceVars, committed, eventVars>>

\* Acquire fails on a closed pool, and when it notices that the context ended.
Acquire(r) ==
  /\ Alive /\ phase[r] = "acquire"
  /\ \/ pool = "open" /\ Goto(r, "query")
     \/ (pool = "closed" \/ r \in cut) /\ Goto(r, "reply")
  /\ UNCHANGED <<serverVars, resourceVars, cut, committed, eventVars>>

\* The statement commits, and the handler goes on unless its context has ended.
Query(r) ==
  /\ Alive /\ phase[r] = "query"
  /\ committed' = committed \cup {r}
  /\ Goto(r, "publish") \/ (r \in cut /\ Goto(r, "reply"))
  /\ UNCHANGED <<serverVars, resourceVars, cut, eventVars>>

\* The statement fails, at the latest when its context ends.
QueryFails(r) ==
  /\ Alive /\ phase[r] = "query"
  /\ Goto(r, "reply")
  /\ UNCHANGED <<serverVars, resourceVars, cut, committed, eventVars>>

\* PublishWithContext returns nil once the event is written to a connection
\* that looks alive; the confirms that the channel asks for are not read.
Publish(r) ==
  /\ Alive /\ phase[r] = "publish"
  /\ publisher = "open" /\ broker # "down"
  /\ transit' = transit \cup {r}
  /\ Goto(r, "reply")
  /\ UNCHANGED <<serverVars, resourceVars, cut, committed, broker, delivered, logged>>

PublishFails(r) ==
  /\ Alive /\ phase[r] = "publish"
  /\ publisher = "closed" \/ broker = "down"
  /\ logged' = logged \cup {r}
  /\ Goto(r, "reply")
  /\ UNCHANGED <<serverVars, resourceVars, cut, committed, broker, transit, delivered>>

Answer(r) ==
  /\ Alive /\ phase[r] = "reply"
  /\ Goto(r, "done")
  /\ UNCHANGED <<serverVars, resourceVars, cut, committed, eventVars>>

\* A client closes its connection.
HangUp(r) ==
  /\ r \in Running \ cut
  /\ cut' = cut \cup {r}
  /\ UNCHANGED <<serverVars, resourceVars, phase, committed, eventVars>>

Handle(r) == Acquire(r) \/ Publish(r) \/ PublishFails(r) \/ Answer(r)
Statement(r) == Query(r) \/ QueryFails(r)

-----------------------------------------------------------------------------
\* The broker.

Deliver ==
  /\ broker = "up"
  /\ \E r \in transit : transit' = transit \ {r} /\ delivered' = delivered \cup {r}
  /\ UNCHANGED <<serverVars, resourceVars, phase, cut, committed, broker, logged>>

BrokerDies ==
  /\ broker = "up"
  /\ broker' = "dead"
  /\ UNCHANGED <<serverVars, resourceVars, phase, cut, committed, transit, delivered, logged>>

\* The library closes the connection and the channel; nothing opens them again.
NoticeDeath ==
  /\ broker = "dead"
  /\ broker' = "down"
  /\ UNCHANGED <<serverVars, resourceVars, phase, cut, committed, transit, delivered, logged>>

-----------------------------------------------------------------------------
\* run(): serve, shut down, clean up.

Signal ==
  /\ main \in {"start", "serve", "shutdown", "stop"} /\ ~signaled
  /\ signaled' = TRUE /\ canceled' = TRUE
  /\ UNCHANGED <<main, ended, resourceVars, phase, cut, committed, eventVars>>

\* stop() gives the signal its default effect back.
Kill ==
  /\ main \in {"join_import", "close_publisher", "close_pool", "drain_pool"}
  /\ main' = "killed"
  /\ UNCHANGED <<signaled, canceled, ended, resourceVars, phase, cut, committed,
                 eventVars>>

\* ctx.Err() before anything is served.
Serve ==
  /\ main = "start"
  /\ main' = IF canceled THEN "stop" ELSE "serve"
  /\ UNCHANGED <<signaled, canceled, ended, resourceVars, phase, cut, committed, eventVars>>

\* case err := <-done: nobody waits for the handlers or closes connections.
ServeFails ==
  /\ main = "serve"
  /\ main' = "stop" /\ ended' = "failed"
  /\ UNCHANGED <<signaled, canceled, resourceVars, phase, cut, committed, eventVars>>

BeginShutdown ==
  /\ main = "serve" /\ canceled
  /\ main' = "shutdown"
  /\ UNCHANGED <<signaled, canceled, ended, resourceVars, phase, cut, committed, eventVars>>

\* Fault: run() goes on while Shutdown waits in a goroutine of its own.
DrainedUnawaited ==
  /\ main = "shutdown"
  /\ main' = "stop" /\ ended' = "drained"
  /\ UNCHANGED <<signaled, canceled, resourceVars, phase, cut, committed, eventVars>>

Drained ==
  /\ main = "shutdown" /\ Running = {}
  /\ main' = "stop" /\ ended' = "drained"
  /\ UNCHANGED <<signaled, canceled, resourceVars, phase, cut, committed, eventVars>>

\* Fault: a Shutdown that has timed out is not followed by Close.
ExpiredUncut ==
  /\ main = "shutdown" /\ Running # {}
  /\ main' = "stop" /\ ended' = "expired"
  /\ UNCHANGED <<signaled, canceled, resourceVars, phase, cut, committed, eventVars>>

\* The timeout: server.Close ends the connections, not the handlers.
Expired ==
  /\ main = "shutdown" /\ Running # {}
  /\ main' = "stop" /\ ended' = "expired"
  /\ cut' = cut \cup Running
  /\ UNCHANGED <<signaled, canceled, resourceVars, phase, committed, eventVars>>

Stop ==
  /\ main = "stop"
  /\ canceled' = TRUE /\ main' = "join_import"
  /\ UNCHANGED <<signaled, ended, resourceVars, phase, cut, committed, eventVars>>

EndImport ==
  /\ Alive /\ import = "running"
  /\ import' = "done"
  /\ UNCHANGED <<serverVars, pool, publisher, phase, cut, committed, eventVars>>

JoinImport ==
  /\ main = "join_import" /\ import = "done"
  /\ main' = "close_publisher"
  /\ UNCHANGED <<signaled, canceled, ended, resourceVars, phase, cut, committed,
                 eventVars>>

\* Fault: the publisher is dropped without Close.
DropPublisher ==
  /\ main = "close_publisher"
  /\ main' = "close_pool" /\ publisher' = "closed" /\ transit' = {}
  /\ UNCHANGED <<signaled, canceled, ended, import, pool, phase, cut, committed,
                 broker, delivered, logged>>

\* channel.Close waits for the broker, which reads what was sent before it.
ClosePublisher ==
  /\ main = "close_publisher"
  /\ main' = "close_pool" /\ publisher' = "closed"
  /\ IF broker = "up" THEN delivered' = delivered \cup transit /\ transit' = {}
                      ELSE UNCHANGED <<delivered, transit>>
  /\ UNCHANGED <<signaled, canceled, ended, import, pool, phase, cut, committed,
                 broker, logged>>

ClosePool ==
  /\ main = "close_pool"
  /\ main' = "drain_pool" /\ pool' = "closed"
  /\ UNCHANGED <<signaled, canceled, ended, import, publisher, phase, cut, committed,
                 eventVars>>

\* pool.Close waits for every connection to come back; then run() returns.
Exit ==
  /\ main = "drain_pool" /\ \A r \in Request : phase[r] # "query"
  /\ main' = "exited"
  /\ UNCHANGED <<signaled, canceled, ended, resourceVars, phase, cut, committed,
                 eventVars>>

Run ==
  \/ Serve \/ BeginShutdown \/ Drained \/ Expired \/ Stop \/ JoinImport
  \/ ClosePublisher \/ ClosePool \/ Exit

-----------------------------------------------------------------------------

Next ==
  \/ Run \/ ServeFails \/ Signal \/ Kill \/ EndImport \/ Deliver \/ BrokerDies \/ NoticeDeath
  \/ \E r \in Request : Accept(r) \/ Handle(r) \/ Statement(r) \/ HangUp(r)

Spec == Init /\ [][Next]_vars

\* Goroutines run; a statement ends when its context has ended, and so does
\* the import: neither need end by itself.
Fairness ==
  /\ WF_vars(Run) /\ WF_vars(canceled /\ EndImport)
  /\ \A r \in Request : WF_vars(Handle(r)) /\ WF_vars(r \in cut /\ Statement(r))
-----------------------------------------------------------------------------
(***************************************************************************)
(* Properties.                                                             *)
(***************************************************************************)

TypeOK ==
  /\ main \in {"start", "serve", "shutdown", "stop", "join_import", "close_publisher",
               "close_pool", "drain_pool", "exited", "killed"}
  /\ signaled => canceled
  /\ phase \in [Request -> {"idle", "acquire", "query", "publish", "reply", "done"}]
  /\ cut \subseteq Request /\ committed \subseteq Request
  /\ import \in {"running", "done"} /\ ended \in {"", "failed", "drained", "expired"}
  /\ pool \in {"open", "closed"} /\ publisher \in {"open", "closed"}
  /\ broker \in {"up", "dead", "down"}
  /\ transit \subseteq committed /\ delivered \subseteq committed /\ logged \subseteq committed
  /\ transit \cap delivered = {} /\ logged \cap (transit \cup delivered) = {}

\* README.md, Shutdown: run() waits for active requests.  A handler sees the
\* publisher or the pool closed, or dies with the process, only if its
\* connection was closed before, by its client, after the timeout, or as the
\* request came; or if the listener itself failed, when run() does not wait.
ActiveRequestsFinish ==
  (publisher = "closed" \/ pool = "closed" \/ ~Alive) =>
    Running \subseteq cut \/ ended = "failed"

\* README.md, Shutdown: PostgreSQL and RabbitMQ are closed after the import has
\* ended, however serving ended (a second signal kills the process, closed or not).
ImportEndsFirst ==
  import = "running" => pool = "open" /\ publisher = "open" /\ main # "exited"

\* A stop loses no event: when the process is gone, the broker has the event of
\* every committed booking, unless its request was cut off, the listener failed
\* or the broker died.
StopLosesNoEvent ==
  main = "exited" /\ ended # "failed" /\ broker = "up" => committed \subseteq delivered \cup cut

\* The event of a finished request is on its way or with the broker, or its
\* failure is in the log; or the request was cut off while it committed.
EventAccountedFor ==
  \A r \in committed :
    phase[r] = "done" => r \in transit \cup delivered \cup logged \cup cut

\* SIGTERM ends the process: handlers that hang are cut off from the database,
\* the import is cancelled, and nothing that is closed waits for ever.  A
\* listener that fails ends it too, without a signal, unless a handler hangs in
\* the database: pool.Close then waits for connections nobody takes from it.
ProcessEnds ==
  /\ signaled ~> ~Alive \/ ended = "failed"
  /\ (\A r \in Request : []<>(phase[r] # "query")) => (ended = "failed" ~> ~Alive)

=============================================================================
