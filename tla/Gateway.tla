------------------------------ MODULE Gateway ------------------------------
(***************************************************************************)
(* The API gateway (cmd/app, internal/adapter/gateway) between its clients *)
(* and the auth and booking services: which handler a call reaches through *)
(* the routers of both sides, and what becomes of its answer on the way    *)
(* back when the service fails, hangs or dies in the middle of it.         *)
(*                                                                         *)
(* A path is a sequence of segments; a trailing slash ends it with "".     *)
(* HEAD, which the routers treat as GET, is left out.  A body is "whole"   *)
(* as its handler wrote it, the "json" of an error, other "text", or       *)
(* "spoiled": cut off, with an error appended to it.                       *)
(* All bookings are for one slot, so that a call repeated after a lost     *)
(* answer meets what the first one has done.                               *)
(***************************************************************************)
EXTENDS Naturals, Sequences

CONSTANTS
  Request,
  Call,     \* calls that clients make: [method, path, token]
  Integer,  \* the segments that parse as integers
  Nobody    \* the holder of a free slot

Method == {"GET", "POST", "DELETE", "OPTIONS"}
Token == {"none", "bad", "good"}

ASSUME CallAssumption ==
  /\ \A c \in Call : /\ c.method \in Method /\ c.token \in Token
                     /\ c.path \in Seq(STRING) /\ Len(c.path) > 0
  /\ Integer \cap {"", "my"} = {} /\ Nobody \notin Request

VARIABLES
  call,     \* request -> its call, once it is made
  gateway,  \* request -> "idle", "await" the service, "copy" its answer, "done"
  service,  \* request -> "none", "run", "replied", "gone": the service has died
  reply,    \* request -> what the service replied: status and body
  held,     \* the request that holds the slot, or Nobody
  effect,   \* requests that have booked or freed the slot
  seen,     \* request -> what the client got: status, body, whether it was complete
  logged    \* request -> the status in the access log of the gateway; 0: no line

vars == <<call, gateway, service, reply, held, effect, seen, logged>>
serviceVars == <<service, reply, held, effect>>

NoAnswer == [status |-> 0, body |-> "", complete |-> FALSE]

Init ==
  /\ call \in [Request -> {<<>>}] /\ gateway = [r \in Request |-> "idle"]
  /\ service = [r \in Request |-> "none"] /\ reply = [r \in Request |-> <<>>]
  /\ held = Nobody /\ effect = {}
  /\ seen = [r \in Request |-> NoAnswer] /\ logged = [r \in Request |-> 0]

-----------------------------------------------------------------------------
\* Routes of the gateway.

\* Which service a path belongs to: the patterns of handleAuth and
\* handleBooking.  The router redirects /auth to /auth/.
Upstream(path) ==
  IF path[1] = "auth" /\ Len(path) > 1 THEN "auth"
  ELSE IF path[1] \in {"rooms", "booking"} \/ path = <<"parser", "status">> THEN "booking"
  ELSE "none"

\* Fault: the auth service is called without its prefix.
KeepPath(path) == path

\* ensureAPIPrefix for the auth service, keepPath for the booking service.
Rewrite(path) ==
  IF Upstream(path) = "auth" THEN <<"api">> \o path ELSE path

\* The handler writes an answer, and AccessLog the line of it.
LogLine(r, status) == logged' = [logged EXCEPT ![r] = status]

Finish(r, status, body) ==
  /\ gateway' = [gateway EXCEPT ![r] = "done"]
  /\ seen' = [seen EXCEPT ![r] = [status |-> status, body |-> body, complete |-> TRUE]]

\* CORS answers every preflight before anything is logged.
Preflight(r, c) ==
  /\ gateway[r] = "idle" /\ c.method = "OPTIONS"
  /\ call' = [call EXCEPT ![r] = c]
  /\ Finish(r, 204, "whole")
  /\ UNCHANGED <<serviceVars, logged>>

Health(r, c) ==
  /\ gateway[r] = "idle" /\ c.method = "GET" /\ c.path = <<"healthz">>
  /\ call' = [call EXCEPT ![r] = c]
  /\ Finish(r, 200, "whole") /\ LogLine(r, 200)
  /\ UNCHANGED serviceVars

\* notFound; /healthz with another method ends here too.
NotFound(r, c) ==
  /\ gateway[r] = "idle" /\ c.method # "OPTIONS" /\ Upstream(c.path) = "none"
  /\ c.path # <<"auth">> /\ ~(c.path = <<"healthz">> /\ c.method = "GET")
  /\ call' = [call EXCEPT ![r] = c]
  /\ Finish(r, 404, "json") /\ LogLine(r, 404)
  /\ UNCHANGED serviceVars

Redirect(r, c) ==
  /\ gateway[r] = "idle" /\ c.method # "OPTIONS" /\ c.path = <<"auth">>
  /\ call' = [call EXCEPT ![r] = c]
  /\ Finish(r, 301, "whole") /\ LogLine(r, 301)
  /\ UNCHANGED serviceVars

Forward(r, c) ==
  /\ gateway[r] = "idle" /\ c.method # "OPTIONS" /\ Upstream(c.path) # "none"
  /\ call' = [call EXCEPT ![r] = c]
  /\ gateway' = [gateway EXCEPT ![r] = "await"]
  /\ UNCHANGED <<serviceVars, seen, logged>>

-----------------------------------------------------------------------------
\* The services: router, token, parameters, handler.

Route(s, m, p, o) == [service |-> s, method |-> m, path |-> p, operation |-> o]

Routes ==
  {Route("auth", "POST", <<"api", "auth", "register">>, "PostAuthRegister"),
   Route("auth", "POST", <<"api", "auth", "login">>, "PostAuthLogin"),
   Route("auth", "GET", <<"api", "auth", "me">>, "GetAuthMe"),
   Route("booking", "GET", <<"parser", "status">>, "ParserStatus"),
   Route("booking", "POST", <<"booking">>, "PostBooking"),
   Route("booking", "GET", <<"booking", "my">>, "GetBookingMy"),
   Route("booking", "DELETE", <<"booking", "{id}">>, "DeleteBookingId"),
   Route("booking", "GET", <<"rooms">>, "GetRooms"),
   Route("booking", "GET", <<"rooms", "{id}">>, "GetRoomsId")}

\* http.ServeMux: a wildcard matches one segment that is not empty.
Matches(pattern, path) ==
  /\ Len(pattern) = Len(path)
  /\ \A i \in 1..Len(path) : pattern[i] = path[i] \/ (pattern[i] = "{id}" /\ path[i] # "")

Matching(c) ==
  {t \in Routes : t.service = Upstream(c.path) /\ Matches(t.path, Rewrite(c.path))}
Operation(c) ==
  LET found == {t \in Matching(c) : t.method = c.method}
  IN  IF found = {} THEN "none" ELSE (CHOOSE t \in found : TRUE).operation

\* A known path with another method is a 405 of the generated router, which
\* does not know /parser/status: that is a pattern of the router around it.
NoRouteStatus(c) ==
  IF \E t \in Matching(c) : t.operation # "ParserStatus" THEN 405 ELSE 404

\* The wrapper of the generated server parses the parameter.
BadParameter(c) ==
  Operation(c) \in {"DeleteBookingId", "GetRoomsId"} /\ c.path[2] \notin Integer

NeedsIdentity(o) == o \in {"GetAuthMe", "PostBooking", "DeleteBookingId", "GetBookingMy"}

\* JWTMiddleware wraps one handler of the auth service; ParseToken wraps the
\* whole booking service and refuses a bad token wherever it comes.
TokenRefused(c) ==
  \/ Upstream(c.path) = "booking" /\ c.token = "bad"
  \/ /\ Operation(c) # "none" /\ ~BadParameter(c)
     /\ NeedsIdentity(Operation(c)) /\ c.token # "good"

Reply(r, status, body) ==
  /\ service' = [service EXCEPT ![r] = "replied"]
  /\ reply' = [reply EXCEPT ![r] = [status |-> status, body |-> body]]

Arrive(r) ==
  /\ service[r] = "none" /\ gateway[r] # "idle" /\ Upstream(call[r].path) # "none"
  /\ call[r].method # "OPTIONS"
  /\ service' = [service EXCEPT ![r] = "run"]
  /\ UNCHANGED <<call, gateway, reply, held, effect, seen, logged>>

\* Answers that no handler gives.
Refuse(r) ==
  /\ service[r] = "run"
  /\ LET c == call[r] IN
       IF TokenRefused(c) THEN Reply(r, 401, "json")
       ELSE IF Operation(c) = "none" THEN Reply(r, NoRouteStatus(c), "text")
       ELSE BadParameter(c) /\ Reply(r, 400, "text")
  /\ UNCHANGED <<call, gateway, held, effect, seen, logged>>

Reached(r, o) ==
  /\ service[r] = "run" /\ Operation(call[r]) = o
  /\ ~TokenRefused(call[r]) /\ ~BadParameter(call[r])

\* What handlers refuse for reasons other than the slot.
Refusals(o) ==
  CASE o = "PostAuthRegister" -> {400, 409}
    [] o = "PostAuthLogin"    -> {400, 401}
    [] o = "PostBooking"      -> {400, 404}
    [] o = "DeleteBookingId"  -> {403}
    [] o = "GetAuthMe"        -> {400}
    [] o = "GetRoomsId"       -> {404}
    [] OTHER -> {}

HandlerRefuses(r) ==
  /\ \E o \in {t.operation : t \in Routes} :
       Reached(r, o) /\ \E status \in Refusals(o) : Reply(r, status, "json")
  /\ UNCHANGED <<call, gateway, held, effect, seen, logged>>

\* Every operation but the two that change the slot; what registrations change
\* is in AuthService.
Serve(r) ==
  /\ \E o \in {t.operation : t \in Routes} \ {"PostBooking", "DeleteBookingId"} : Reached(r, o)
  /\ Reply(r, 200, "whole") \/ (Operation(call[r]) # "ParserStatus" /\ Reply(r, 500, "json"))
  /\ UNCHANGED <<call, gateway, held, effect, seen, logged>>

\* The slot changes hands; a commit whose confirmation is lost is a 500.
Change(r, holder) ==
  /\ held' = holder /\ effect' = effect \cup {r}
  /\ Reply(r, 200, "whole") \/ Reply(r, 500, "json")
  /\ UNCHANGED <<call, gateway, seen, logged>>

Unchanged(r, status) ==
  /\ Reply(r, status, "json") \/ Reply(r, 500, "json")
  /\ UNCHANGED <<call, gateway, held, effect, seen, logged>>

Book(r) ==
  /\ Reached(r, "PostBooking")
  /\ \/ held = Nobody /\ Change(r, r)
     \/ held # Nobody /\ Unchanged(r, 409)

Cancel(r) ==
  /\ Reached(r, "DeleteBookingId")
  /\ \/ held # Nobody /\ Change(r, Nobody)
     \/ held = Nobody /\ Unchanged(r, 404)

\* The service dies, or ends without an answer: before its handler has run, or
\* after.
ServiceDies(r) ==
  /\ service[r] \in {"run", "replied"}
  /\ service' = [service EXCEPT ![r] = "gone"]
  /\ UNCHANGED <<call, gateway, reply, held, effect, seen, logged>>

-----------------------------------------------------------------------------
\* The answer on its way back.

\* Fault: the error handler answers as if there were no such route.
UnavailableAsMissing(r) ==
  /\ gateway[r] = "await"
  /\ Finish(r, 404, "json") /\ LogLine(r, 404)
  /\ UNCHANGED <<call, serviceVars>>

\* ErrorHandler: the service cannot be reached, sends no header in time, or its
\* connection breaks, in the body of an error too.  It may still be at work.
Unavailable(r) ==
  /\ gateway[r] = "await"
  /\ Finish(r, 502, "json") /\ LogLine(r, 502)
  /\ UNCHANGED <<call, serviceVars>>

\* Fault: errors of a service are passed on as they are.
PassError(r) ==
  /\ gateway[r] = "await" /\ service[r] = "replied" /\ reply[r].status >= 400
  /\ Finish(r, reply[r].status, reply[r].body) /\ LogLine(r, reply[r].status)
  /\ UNCHANGED <<call, serviceVars>>

\* normalizeErrorResponse reads the whole body of an error and makes it JSON.
NormalizeError(r) ==
  /\ gateway[r] = "await" /\ service[r] = "replied" /\ reply[r].status >= 400
  /\ Finish(r, reply[r].status, "json") /\ LogLine(r, reply[r].status)
  /\ UNCHANGED <<call, serviceVars>>

\* Other answers are streamed: the client has the status before the body.
StartCopy(r) ==
  /\ gateway[r] = "await" /\ service[r] = "replied" /\ reply[r].status < 400
  /\ gateway' = [gateway EXCEPT ![r] = "copy"]
  /\ seen' = [seen EXCEPT ![r].status = reply[r].status]
  /\ UNCHANGED <<call, serviceVars, logged>>

EndCopy(r) ==
  /\ gateway[r] = "copy"
  /\ Finish(r, reply[r].status, reply[r].body) /\ LogLine(r, reply[r].status)
  /\ UNCHANGED <<call, serviceVars>>

\* The answers long enough to be sent in chunks, without their length.
Chunked(r) == Operation(call[r]) \in {"GetRooms", "GetRoomsId", "GetBookingMy"}

\* The service dies while its answer is copied.  The proxy panics, to have the
\* connection of the client cut; RecoverPanic recovers from that too, writes its
\* error into the body and lets net/http end it, which completes a chunked one.
\* AccessLog is under RecoverPanic and writes no line.
BreakCopy(r) ==
  /\ gateway[r] = "copy"
  /\ gateway' = [gateway EXCEPT ![r] = "done"]
  /\ seen' = [seen EXCEPT ![r] = [status |-> reply[r].status, body |-> "spoiled",
                                  complete |-> Chunked(r)]]
  /\ UNCHANGED <<call, serviceVars, logged>>

\* The client leaves: an error for ErrorHandler, or a panic while copying.
HangUp(r) ==
  /\ gateway[r] \in {"await", "copy"}
  /\ gateway' = [gateway EXCEPT ![r] = "done"]
  /\ seen' = [seen EXCEPT ![r] = NoAnswer]
  /\ IF gateway[r] = "await" THEN LogLine(r, 502) ELSE UNCHANGED logged
  /\ UNCHANGED <<call, serviceVars>>

-----------------------------------------------------------------------------

Make(r, c) == Preflight(r, c) \/ Health(r, c) \/ NotFound(r, c) \/ Redirect(r, c) \/ Forward(r, c)
Work(r) ==
  \/ Arrive(r) \/ Refuse(r) \/ HandlerRefuses(r) \/ Serve(r) \/ Book(r) \/ Cancel(r)
  \/ ServiceDies(r)
GiveBack(r) == Unavailable(r) \/ NormalizeError(r) \/ StartCopy(r) \/ EndCopy(r) \/ BreakCopy(r)

Next == \E r \in Request : (\E c \in Call : Make(r, c)) \/ Work(r) \/ GiveBack(r) \/ HangUp(r)

Spec == Init /\ [][Next]_vars

-----------------------------------------------------------------------------
(***************************************************************************)
(* Properties.                                                             *)
(***************************************************************************)

\* The public operations of docx/apigateway/gateway-api.yaml, with the status
\* route that the front end polls.
Public(m, p, o, protected) == [method |-> m, path |-> p, operation |-> o, protected |-> protected]

PublicAPI ==
  {Public("POST", <<"auth", "register">>, "PostAuthRegister", FALSE),
   Public("POST", <<"auth", "login">>, "PostAuthLogin", FALSE),
   Public("GET", <<"auth", "me">>, "GetAuthMe", TRUE),
   Public("GET", <<"rooms">>, "GetRooms", FALSE),
   Public("GET", <<"rooms", "{id}">>, "GetRoomsId", FALSE),
   Public("POST", <<"booking">>, "PostBooking", TRUE),
   Public("DELETE", <<"booking", "{id}">>, "DeleteBookingId", TRUE),
   Public("GET", <<"booking", "my">>, "GetBookingMy", TRUE),
   Public("GET", <<"parser", "status">>, "ParserStatus", FALSE)}

Described(c) == {a \in PublicAPI : a.method = c.method /\ Matches(a.path, c.path)}

\* gateway-api.yaml: through two routers and the rewriting between them, a call
\* reaches the operation the description gives it, and none if it has none; what
\* asks for a bearer token is done for nobody without one.
RoutesAgree ==
  \A r \in Request :
    call[r] # <<>> /\ call[r].method # "OPTIONS" =>
      /\ service[r] # "none" =>
           {a.operation : a \in Described(call[r])} = {Operation(call[r])} \ {"none"}
      /\ service[r] = "none" /\ seen[r].status = 404 => Described(call[r]) = {}
      /\ service[r] = "replied" /\ reply[r].status = 200 =>
           \E a \in Described(call[r]) : a.protected => call[r].token = "good"

\* proxy_test.go, TestGatewayNormalizesPlainTextErrors: every error that a client
\* gets is JSON, whichever router, wrapper, middleware or handler wrote it.
ErrorsAreJSON ==
  \A r \in Request : seen[r].complete /\ seen[r].status >= 400 => seen[r].body = "json"

\* What a client that was told 200 has asked for is done, and what a client that
\* was refused has asked for is not, and will not be done later.
Told(r) ==
  seen[r].complete =>
    /\ seen[r].status = 200 /\ Operation(call[r]) \in {"PostBooking", "DeleteBookingId"} =>
         r \in effect
    /\ seen[r].status \in 400..499 => r \notin effect

\* AccessLog: a line tells what the client got, and only preflights and answers
\* cut off in the middle have none.
Logged(r) ==
  gateway[r] = "done" =>
    IF logged[r] # 0 THEN seen[r].complete => logged[r] = seen[r].status
    ELSE call[r].method = "OPTIONS" \/ seen[r].body = "spoiled" \/ seen[r] = NoAnswer

\* Whatever dies on the way, the client and the access log are told the truth.
AnswerTruthful == \A r \in Request : Told(r) /\ Logged(r)

\* gateway-api.yaml: a complete answer with status 200 has the body described,
\* that is, the one its handler wrote.
OKMeansWhole ==
  \A r \in Request : seen[r].complete /\ seen[r].status = 200 => seen[r].body = "whole"

=============================================================================
