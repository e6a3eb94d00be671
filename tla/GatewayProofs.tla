---------------------------- MODULE GatewayProofs ----------------------------
(***************************************************************************)
(* Proofs about Gateway, for any number of requests and any calls.         *)
(*                                                                         *)
(* A service that has replied, or is gone, does nothing more for a call;   *)
(* the gateway passes on as a success or a refusal only what a service has *)
(* replied, and answers 502 while the service may still be at work.  That  *)
(* is what keeps an answer true after it was given, and what Point says of *)
(* one request.  No step changes anything about another request (Same), so *)
(* the invariant is proved for the request that moves.                     *)
(*                                                                         *)
(* The routes are compared row by row: a path that meets a row of the      *)
(* gateway's table, rewritten, meets the row of the same operation in the  *)
(* service's table, and no other one before it.                            *)
(***************************************************************************)
EXTENDS Gateway, TLAPS

Writes == {"PostBooking", "DeleteBookingId"}

\* The variables are functions of the requests.
Base ==
  /\ DOMAIN call = Request /\ DOMAIN gateway = Request /\ DOMAIN service = Request
  /\ DOMAIN reply = Request /\ DOMAIN seen = Request /\ DOMAIN logged = Request

\* A reply says what its call has done.
GoodReply(r) ==
  /\ reply[r].status \in Nat \ {0}
  /\ reply[r].status = 200 /\ Operation(call[r]) \in Writes => r \in effect
  /\ reply[r].status \in 400 .. 499 => r \notin effect

\* What a client was refused will not be done later: nobody works on it.
OverWhenRefused(r) ==
  seen[r].complete /\ seen[r].status \in 400 .. 499 =>
    service[r] \in {"replied", "gone"} \/ Upstream(call[r].path) = "none"

\* What a service has done, by the state it is in.
ServicePoint(r) ==
  /\ service[r] \in {"none", "run", "replied", "gone"}
  /\ service[r] # "none" => gateway[r] # "idle" /\ Upstream(call[r].path) # "none"
  /\ service[r] \in {"none", "run"} => r \notin effect
  /\ service[r] = "replied" => GoodReply(r)

\* What the gateway has passed on, by the state it is in.
GatewayPoint(r) ==
  /\ gateway[r] \in {"idle", "await", "copy", "done"}
  /\ gateway[r] \in {"idle", "await"} => seen[r] = NoAnswer
  /\ gateway[r] = "copy" =>
       /\ service[r] \in {"replied", "gone"} /\ GoodReply(r) /\ reply[r].status < 400
       /\ ~seen[r].complete
  /\ gateway[r] # "done" => logged[r] = 0

SeenPoint(r) ==
  /\ Told(r) /\ Logged(r) /\ OverWhenRefused(r)
  /\ seen[r].complete => gateway[r] = "done"
  /\ seen[r].complete /\ seen[r].status >= 400 => seen[r].body = "json"

Point(r) == ServicePoint(r) /\ GatewayPoint(r) /\ SeenPoint(r)

GatewayInv == Base /\ \A r \in Request : Point(r)

\* A step leaves everything about request q alone.
Same(q) ==
  /\ call'[q] = call[q] /\ gateway'[q] = gateway[q] /\ service'[q] = service[q]
  /\ reply'[q] = reply[q] /\ seen'[q] = seen[q] /\ logged'[q] = logged[q]
  /\ q \in effect' <=> q \in effect

-----------------------------------------------------------------------------
\* Routes.

LEMMA RouteFields ==
  \A s, m, p, o : Route(s, m, p, o).service = s /\ Route(s, m, p, o).method = m
BY DEF Route

LEMMA RouteKinds ==
  \A x \in Routes : \E s, m, p, o :
    x = Route(s, m, p, o) /\ s \in {"auth", "booking"} /\ m \in {"GET", "POST", "DELETE"}
BY ZenonT(30) DEF Routes

\* A path that belongs to no service names no operation.
LEMMA NowhereNoOperation ==
  ASSUME NEW c, Upstream(c.path) = "none"
  PROVE  Operation(c) = "none"
<1>1. \A x \in Routes : x.service # "none"
  BY RouteFields, RouteKinds
<1>2. Matching(c) = {}
  BY <1>1 DEF Matching
<1>. QED  BY <1>2 DEF Operation

-----------------------------------------------------------------------------

LEMMA Elsewhere ==
  ASSUME NEW q \in Request, Point(q), Same(q)
  PROVE  Point(q)'
<1>1. GoodReply(q)' <=> GoodReply(q)
  BY DEF Same, GoodReply
<1>. QED  BY <1>1 DEF Same, Point, ServicePoint, GatewayPoint, SeenPoint, Told, Logged, OverWhenRefused

\* So a step has to be looked at where it happens.
LEMMA Locally ==
  ASSUME GatewayInv, NEW r \in Request, Base', Point(r)', \A q \in Request \ {r} : Same(q)
  PROVE  GatewayInv'
BY Elsewhere DEF GatewayInv

LEMMA NothingSeen ==
  /\ NoAnswer.complete = FALSE
  /\ \A s : [NoAnswer EXCEPT !.status = s].complete = NoAnswer.complete
BY DEF NoAnswer

LEMMA InitHolds == Init => GatewayInv
<1>. SUFFICES ASSUME Init PROVE GatewayInv
  OBVIOUS
<1>1. Base
  BY DEF Init, Base
<1>2. ASSUME NEW r \in Request PROVE Point(r)
  BY <1>2 DEF Init, NoAnswer, Point, ServicePoint, GatewayPoint, SeenPoint, Told, Logged,
              OverWhenRefused
<1>. QED  BY <1>1, <1>2 DEF GatewayInv

-----------------------------------------------------------------------------

\* A call that the gateway answers itself.
AnsweredHere(r, c, status, body) ==
  /\ gateway[r] = "idle" /\ call' = [call EXCEPT ![r] = c]
  /\ Finish(r, status, body) /\ UNCHANGED serviceVars
  /\ status \in {200, 204, 301, 404}
  /\ LogLine(r, status) \/ (c.method = "OPTIONS" /\ UNCHANGED logged)
  /\ status = 404 => body = "json" /\ Upstream(c.path) = "none"
  /\ status = 200 => Operation(c) = "none"

LEMMA AnsweredHereKeeps ==
  ASSUME GatewayInv, NEW r \in Request, NEW c, NEW status, NEW body,
         AnsweredHere(r, c, status, body)
  PROVE  GatewayInv'
<1>1. Base' /\ \A q \in Request \ {r} : Same(q)
  BY DEF AnsweredHere, Finish, LogLine, serviceVars, GatewayInv, Base, Same
<1>2. /\ call'[r] = c /\ gateway'[r] = "done" /\ service'[r] = "none" /\ r \notin effect'
      /\ seen'[r].status = status /\ seen'[r].body = body /\ seen'[r].complete = TRUE
      /\ logged'[r] = status \/ (logged'[r] = 0 /\ c.method = "OPTIONS")
  BY DEF AnsweredHere, Finish, LogLine, serviceVars, GatewayInv, Base, Point, ServicePoint,
         GatewayPoint
<1>3. Operation(c) \in Writes => Operation(c) # "none"
  BY DEF Writes
<1>4. /\ status \in {200, 204, 301, 404}
      /\ status = 404 => body = "json" /\ Upstream(c.path) = "none"
      /\ status = 200 => Operation(c) = "none"
  BY DEF AnsweredHere
<1>5. Point(r)'
  BY <1>2, <1>3, <1>4 DEF Point, ServicePoint, GatewayPoint, SeenPoint, Told, Logged,
                          OverWhenRefused, Writes
<1>. QED  BY <1>1, <1>5, Locally

LEMMA MakeKeeps ==
  ASSUME GatewayInv, NEW r \in Request, NEW c \in Call, Make(r, c)
  PROVE  GatewayInv'
<1>1. CASE Preflight(r, c)
  <2>1. AnsweredHere(r, c, 204, "whole")
    BY <1>1 DEF Preflight, AnsweredHere
  <2>. QED  BY <2>1, AnsweredHereKeeps
<1>2. CASE Health(r, c)
  <2>1. Upstream(c.path) = "none"
    BY <1>2 DEF Health, Upstream
  <2>2. Operation(c) = "none"
    BY <2>1, NowhereNoOperation
  <2>3. AnsweredHere(r, c, 200, "whole")
    BY <1>2, <2>2 DEF Health, AnsweredHere
  <2>. QED  BY <2>3, AnsweredHereKeeps
<1>3. CASE NotFound(r, c)
  <2>1. AnsweredHere(r, c, 404, "json")
    BY <1>3 DEF NotFound, AnsweredHere
  <2>. QED  BY <2>1, AnsweredHereKeeps
<1>4. CASE Redirect(r, c)
  <2>1. AnsweredHere(r, c, 301, "whole")
    BY <1>4 DEF Redirect, AnsweredHere
  <2>. QED  BY <2>1, AnsweredHereKeeps
<1>5. CASE Forward(r, c)
  <2>1. Base' /\ \A q \in Request \ {r} : Same(q)
    BY <1>5 DEF Forward, serviceVars, GatewayInv, Base, Same
  <2>2. /\ call'[r] = c /\ gateway'[r] = "await" /\ service'[r] = "none" /\ r \notin effect'
        /\ seen'[r] = NoAnswer /\ logged'[r] = 0
    BY <1>5 DEF Forward, serviceVars, GatewayInv, Base, Point, ServicePoint, GatewayPoint
  <2>3. ServicePoint(r)' /\ GatewayPoint(r)'
    BY <2>2 DEF ServicePoint, GatewayPoint
  <2>4. seen'[r].complete = FALSE
    BY <2>2, NothingSeen
  <2>5. SeenPoint(r)'
    BY <2>2, <2>4 DEF SeenPoint, Told, Logged, OverWhenRefused
  <2>. QED  BY <2>1, <2>3, <2>5, Locally DEF Point
<1>. QED  BY <1>1, <1>2, <1>3, <1>4, <1>5 DEF Make

-----------------------------------------------------------------------------
\* The services.

\* A service takes a call, or dies.
LEMMA ServiceMoves ==
  ASSUME GatewayInv, NEW r \in Request, Arrive(r) \/ ServiceDies(r)
  PROVE  GatewayInv'
<1>1. Base' /\ \A q \in Request \ {r} : Same(q)
  BY DEF Arrive, ServiceDies, GatewayInv, Base, Same
<1>2. /\ call' = call /\ gateway' = gateway /\ reply' = reply /\ seen' = seen /\ logged' = logged
      /\ effect' = effect /\ gateway[r] # "idle" /\ Upstream(call[r].path) # "none"
      /\ \/ service[r] = "none" /\ service'[r] = "run"
         \/ service[r] \in {"run", "replied"} /\ service'[r] = "gone"
  BY DEF Arrive, ServiceDies, GatewayInv, Base, Point, ServicePoint
<1>3. Point(r) /\ (GoodReply(r)' <=> GoodReply(r))
  BY <1>2 DEF GatewayInv, GoodReply
<1>4. ServicePoint(r)' /\ GatewayPoint(r)'
  BY <1>2, <1>3 DEF Point, ServicePoint, GatewayPoint
<1>5. SeenPoint(r)'
  BY <1>2, <1>3 DEF Point, SeenPoint, Told, Logged, OverWhenRefused
<1>. QED  BY <1>1, <1>4, <1>5, Locally DEF Point

\* A service replies, and may have done what it was asked for.
LEMMA RepliedKeeps ==
  ASSUME GatewayInv, NEW r \in Request, service[r] = "run",
         UNCHANGED <<call, gateway, seen, logged>>,
         NEW status \in Nat \ {0}, NEW body, Reply(r, status, body),
         effect' = effect \/ effect' = effect \cup {r},
         status = 200 /\ Operation(call[r]) \in Writes => r \in effect',
         status \in 400 .. 499 => r \notin effect'
  PROVE  GatewayInv'
<1>1. Base' /\ \A q \in Request \ {r} : Same(q)
  BY DEF Reply, GatewayInv, Base, Same
<1>2. /\ call' = call /\ gateway' = gateway /\ seen' = seen /\ logged' = logged
      /\ service'[r] = "replied" /\ reply'[r].status = status
  BY DEF Reply, GatewayInv, Base
<1>3. /\ gateway[r] # "idle" /\ gateway[r] # "copy" /\ Upstream(call[r].path) # "none"
      /\ r \notin effect /\ Point(r)
  BY DEF GatewayInv, Point, ServicePoint, GatewayPoint
<1>4. GoodReply(r)'
  BY <1>2 DEF GoodReply
<1>5. ServicePoint(r)' /\ GatewayPoint(r)'
  BY <1>2, <1>3, <1>4 DEF Point, ServicePoint, GatewayPoint
<1>6. ~(seen[r].complete /\ seen[r].status \in 400 .. 499)
  BY <1>3 DEF Point, SeenPoint, OverWhenRefused
<1>7. r \in effect => r \in effect'
  BY <1>3
<1>8. SeenPoint(r)'
  BY <1>2, <1>3, <1>6, <1>7 DEF Point, SeenPoint, Told, Logged, OverWhenRefused
<1>. QED  BY <1>1, <1>5, <1>8, Locally DEF Point

LEMMA WorkKeeps ==
  ASSUME GatewayInv, NEW r \in Request, Work(r)
  PROVE  GatewayInv'
<1>0. service[r] = "run" => r \notin effect
  BY DEF GatewayInv, Point, ServicePoint
<1>1. CASE Arrive(r) \/ ServiceDies(r)
  BY <1>1, ServiceMoves
<1>2. ASSUME NEW status \in {400, 401, 403, 404, 405, 409, 500}, NEW body, service[r] = "run",
             UNCHANGED <<call, gateway, effect, seen, logged>>, Reply(r, status, body)
      PROVE  GatewayInv'
  BY <1>0, <1>2, RepliedKeeps
<1>3. CASE Refuse(r)
  <2>1. NoRouteStatus(call[r]) \in {404, 405}
    BY DEF NoRouteStatus
  <2>2. \E status \in {400, 401, 404, 405}, body \in {"json", "text"} : Reply(r, status, body)
    BY <1>3, <2>1 DEF Refuse
  <2>3. service[r] = "run" /\ UNCHANGED <<call, gateway, effect, seen, logged>>
    BY <1>3 DEF Refuse
  <2>. QED  BY <2>2, <2>3, <1>2
<1>4. CASE HandlerRefuses(r)
  <2>1. \A o : Refusals(o) \subseteq {400, 401, 403, 404, 409}
    BY DEF Refusals
  <2>2. \E status \in {400, 401, 403, 404, 409} : Reply(r, status, "json")
    BY <1>4, <2>1 DEF HandlerRefuses
  <2>3. service[r] = "run" /\ UNCHANGED <<call, gateway, effect, seen, logged>>
    BY <1>4 DEF HandlerRefuses, Reached
  <2>. QED  BY <2>2, <2>3, <1>2
<1>5. CASE Serve(r)
  <2>1. /\ service[r] = "run" /\ UNCHANGED <<call, gateway, effect, seen, logged>>
        /\ Operation(call[r]) \notin Writes
    BY <1>5 DEF Serve, Reached, Writes
  <2>2. Reply(r, 200, "whole") \/ Reply(r, 500, "json")
    BY <1>5 DEF Serve
  <2>3. CASE Reply(r, 200, "whole")
    BY <1>0, <2>1, <2>3, RepliedKeeps
  <2>. QED  BY <2>1, <2>2, <2>3, <1>2
<1>6. ASSUME NEW holder, service[r] = "run", Change(r, holder)
      PROVE  GatewayInv'
  <2>1. UNCHANGED <<call, gateway, seen, logged>> /\ effect' = effect \cup {r}
    BY <1>6 DEF Change
  <2>2. \E status \in {200, 500}, body \in {"whole", "json"} : Reply(r, status, body)
    BY <1>6 DEF Change
  <2>. QED  BY <1>6, <2>1, <2>2, RepliedKeeps
<1>7. ASSUME NEW status \in {404, 409}, service[r] = "run", Unchanged(r, status)
      PROVE  GatewayInv'
  <2>1. UNCHANGED <<call, gateway, effect, seen, logged>>
    BY <1>7 DEF Unchanged
  <2>2. \E s \in {404, 409, 500} : Reply(r, s, "json")
    BY <1>7 DEF Unchanged
  <2>. QED  BY <1>7, <2>1, <2>2, <1>2
<1>8. CASE Book(r) \/ Cancel(r)
  BY <1>6, <1>7, <1>8 DEF Book, Cancel, Reached
<1>. QED  BY <1>1, <1>3, <1>4, <1>5, <1>8 DEF Work

-----------------------------------------------------------------------------
\* The gateway hands an answer over.

\* The gateway is done with a call; its service goes on as it likes.
Over(r) ==
  /\ gateway[r] \in {"await", "copy"} /\ gateway' = [gateway EXCEPT ![r] = "done"]
  /\ UNCHANGED <<call, serviceVars>>

LEMMA OverKeeps ==
  ASSUME GatewayInv, NEW r \in Request, Over(r), SeenPoint(r)',
         NEW answer, seen' = [seen EXCEPT ![r] = answer],
         DOMAIN logged' = Request, \A q \in Request \ {r} : logged'[q] = logged[q]
  PROVE  GatewayInv'
<1>1. Base' /\ \A q \in Request \ {r} : Same(q)
  BY DEF Over, serviceVars, GatewayInv, Base, Same
<1>2. /\ call' = call /\ service' = service /\ reply' = reply /\ effect' = effect
      /\ gateway'[r] = "done" /\ gateway[r] # "idle" /\ Point(r)
  BY DEF Over, serviceVars, GatewayInv, Base
<1>3. GoodReply(r)' <=> GoodReply(r)
  BY <1>2 DEF GoodReply
<1>4. ServicePoint(r)' /\ GatewayPoint(r)'
  BY <1>2, <1>3 DEF Point, ServicePoint, GatewayPoint
<1>. QED  BY <1>1, <1>4, Locally DEF Point

LEMMA CompletedKeeps ==
  ASSUME GatewayInv, NEW r \in Request, Over(r), NEW status, NEW body,
         Finish(r, status, body), LogLine(r, status),
         (status = 502 /\ body = "json") \/ GoodReply(r),
         status # 502 => status = reply[r].status /\ service[r] \in {"replied", "gone"},
         status >= 400 => body = "json"
  PROVE  GatewayInv'
<1>1. /\ seen' = [seen EXCEPT ![r] = [status |-> status, body |-> body, complete |-> TRUE]]
      /\ logged' = [logged EXCEPT ![r] = status]
  BY DEF Finish, LogLine
<1>2. /\ seen'[r].status = status /\ seen'[r].body = body /\ seen'[r].complete = TRUE
      /\ logged'[r] = status
  BY <1>1 DEF GatewayInv, Base
<1>3. /\ call' = call /\ service' = service /\ reply' = reply /\ effect' = effect
      /\ gateway'[r] = "done"
  BY DEF Over, serviceVars, GatewayInv, Base
<1>4. status \in Nat \ {0}
  BY DEF GoodReply
<1>5. SeenPoint(r)'
  BY <1>2, <1>3, <1>4 DEF SeenPoint, Told, Logged, OverWhenRefused, GoodReply, Writes
<1>6. DOMAIN logged' = Request /\ \A q \in Request \ {r} : logged'[q] = logged[q]
  BY <1>1 DEF GatewayInv, Base
<1>. QED  BY <1>1, <1>5, <1>6, OverKeeps

LEMMA GiveBackKeeps ==
  ASSUME GatewayInv, NEW r \in Request, GiveBack(r) \/ HangUp(r)
  PROVE  GatewayInv'
<1>0. Point(r) /\ Base
  BY DEF GatewayInv
<1>1. CASE Unavailable(r)
  <2>1. Over(r) /\ Finish(r, 502, "json") /\ LogLine(r, 502)
    BY <1>1 DEF Unavailable, Over, Finish
  <2>. QED  BY <2>1, CompletedKeeps
<1>2. CASE NormalizeError(r)
  <2>1. /\ Over(r) /\ Finish(r, reply[r].status, "json") /\ LogLine(r, reply[r].status)
        /\ service[r] = "replied"
    BY <1>2 DEF NormalizeError, Over, Finish
  <2>2. GoodReply(r)
    BY <1>0, <2>1 DEF Point, ServicePoint
  <2>. QED  BY <2>1, <2>2, CompletedKeeps
<1>3. CASE StartCopy(r)
  <2>1. Base' /\ \A q \in Request \ {r} : Same(q)
    BY <1>3 DEF StartCopy, serviceVars, GatewayInv, Base, Same
  <2>2. /\ call' = call /\ service' = service /\ reply' = reply /\ effect' = effect
        /\ gateway'[r] = "copy" /\ logged' = logged /\ service[r] = "replied"
        /\ reply[r].status < 400 /\ gateway[r] = "await" /\ seen[r] = NoAnswer
    BY <1>0, <1>3 DEF StartCopy, serviceVars, Base, Point, GatewayPoint
  <2>3. seen'[r] = [seen[r] EXCEPT !.status = reply[r].status]
    BY <1>0, <1>3 DEF StartCopy, Base
  <2>4. seen'[r].complete = FALSE
    BY <2>2, <2>3, NothingSeen
  <2>5. GoodReply(r) /\ (GoodReply(r)' <=> GoodReply(r))
    BY <1>0, <2>2 DEF Point, ServicePoint, GoodReply
  <2>6. ServicePoint(r)' /\ GatewayPoint(r)'
    BY <1>0, <2>2, <2>4, <2>5 DEF Point, ServicePoint, GatewayPoint
  <2>7. SeenPoint(r)'
    BY <2>2, <2>4 DEF SeenPoint, Told, Logged, OverWhenRefused
  <2>. QED  BY <2>1, <2>6, <2>7, Locally DEF Point
<1>4. CASE EndCopy(r)
  <2>1. /\ Over(r) /\ Finish(r, reply[r].status, reply[r].body) /\ LogLine(r, reply[r].status)
        /\ gateway[r] = "copy"
    BY <1>4 DEF EndCopy, Over, Finish
  <2>2. GoodReply(r) /\ reply[r].status < 400 /\ service[r] \in {"replied", "gone"}
    BY <1>0, <2>1 DEF Point, GatewayPoint
  <2>3. ~(reply[r].status >= 400)
    BY <2>2 DEF GoodReply
  <2>. QED  BY <2>1, <2>2, <2>3, CompletedKeeps
<1>5. CASE BreakCopy(r)
  <2>1. /\ Over(r) /\ logged' = logged
        /\ seen' = [seen EXCEPT ![r] = [status |-> reply[r].status, body |-> "spoiled",
                                       complete |-> Chunked(r)]]
        /\ gateway[r] = "copy"
    BY <1>5 DEF BreakCopy, Over
  <2>2. GoodReply(r) /\ reply[r].status < 400 /\ service[r] \in {"replied", "gone"}
        /\ logged[r] = 0
    BY <1>0, <2>1 DEF Point, GatewayPoint
  <2>3. /\ call' = call /\ service' = service /\ reply' = reply /\ effect' = effect
        /\ gateway'[r] = "done" /\ logged'[r] = 0
        /\ seen'[r].status = reply[r].status /\ seen'[r].body = "spoiled"
    BY <1>0, <2>1, <2>2 DEF Over, serviceVars, Base
  <2>4. SeenPoint(r)'
    BY <2>2, <2>3 DEF SeenPoint, Told, Logged, OverWhenRefused, GoodReply, Writes
  <2>5. DOMAIN logged' = Request /\ \A q \in Request \ {r} : logged'[q] = logged[q]
    BY <1>0, <2>1 DEF Base
  <2>. QED  BY <2>1, <2>4, <2>5, OverKeeps
<1>6. CASE HangUp(r)
  <2>1. Over(r) /\ seen' = [seen EXCEPT ![r] = NoAnswer]
    BY <1>6 DEF HangUp, Over
  <2>2. DOMAIN logged' = Request /\ \A q \in Request \ {r} : logged'[q] = logged[q]
    BY <1>0, <1>6 DEF HangUp, LogLine, Base
  <2>3. seen'[r] = NoAnswer /\ seen'[r].complete = FALSE
    BY <1>0, <2>1, NothingSeen DEF Base
  <2>4. SeenPoint(r)'
    BY <2>1, <2>3 DEF SeenPoint, Told, Logged, OverWhenRefused, Over
  <2>. QED  BY <2>1, <2>2, <2>4, OverKeeps
<1>. QED  BY <1>1, <1>2, <1>3, <1>4, <1>5, <1>6 DEF GiveBack

-----------------------------------------------------------------------------

LEMMA StepKeeps == GatewayInv /\ [Next]_vars => GatewayInv'
<1>. SUFFICES ASSUME GatewayInv, [Next]_vars PROVE GatewayInv'
  OBVIOUS
<1>1. CASE UNCHANGED vars
  <2>1. Base' /\ \A q \in Request : Same(q)
    BY <1>1 DEF vars, GatewayInv, Base, Same
  <2>. QED  BY <2>1, Elsewhere DEF GatewayInv
<1>2. ASSUME NEW r \in Request, NEW c \in Call, Make(r, c) PROVE GatewayInv'
  BY <1>2, MakeKeeps
<1>3. ASSUME NEW r \in Request, Work(r) PROVE GatewayInv'
  BY <1>3, WorkKeeps
<1>4. ASSUME NEW r \in Request, GiveBack(r) \/ HangUp(r) PROVE GatewayInv'
  BY <1>4, GiveBackKeeps
<1>. QED  BY <1>1, <1>2, <1>3, <1>4 DEF Next

LEMMA Always == Spec => []GatewayInv
BY InitHolds, StepKeeps, PTL DEF Spec

\* Through the proxy of proxy.go, whatever dies on the way: a call answered with
\* success is done, one that was refused is not and never will be, and the line
\* of the access log is the answer that the client got.
THEOREM AnswersAreTrue == Spec => []AnswerTruthful
<1>1. GatewayInv => AnswerTruthful
  BY DEF GatewayInv, Point, SeenPoint, AnswerTruthful
<1>. QED  BY <1>1, Always, PTL

\* Whoever wrote an error, a client gets JSON (normalizeErrorResponse).
THEOREM ErrorsArriveAsJSON == Spec => []ErrorsAreJSON
<1>1. GatewayInv => ErrorsAreJSON
  BY DEF GatewayInv, Point, SeenPoint, ErrorsAreJSON
<1>. QED  BY <1>1, Always, PTL

-----------------------------------------------------------------------------
\* Two descriptions of the same operations: the routes of the services, behind
\* those of the gateway, and gateway-api.yaml.

Path == {path \in Seq(STRING) : Len(path) > 0}

\* What a segment of a pattern says of a segment of a path.
Fits(p, s) == p = s \/ (p = "{id}" /\ s # "")

LEMMA MatchOne ==
  ASSUME NEW a, NEW path \in Path
  PROVE  Matches(<<a>>, path) <=> Len(path) = 1 /\ Fits(a, path[1])
<1>. DEFINE pattern == <<a>>
<1>1. Len(pattern) = 1 /\ pattern[1] = a
  OBVIOUS
<1>. HIDE DEF pattern
<1>2. Matches(pattern, path) <=>
        Len(path) = 1 /\ \A i \in 1 .. 1 : Fits(pattern[i], path[i])
  BY <1>1 DEF Matches, Fits
<1>. QED  BY <1>1, <1>2 DEF pattern

LEMMA MatchTwo ==
  ASSUME NEW a, NEW b, NEW path \in Path
  PROVE  Matches(<<a, b>>, path) <=> Len(path) = 2 /\ Fits(a, path[1]) /\ Fits(b, path[2])
<1>. DEFINE pattern == <<a, b>>
<1>1. Len(pattern) = 2 /\ pattern[1] = a /\ pattern[2] = b
  OBVIOUS
<1>. HIDE DEF pattern
<1>2. Matches(pattern, path) <=>
        Len(path) = 2 /\ \A i \in 1 .. 2 : Fits(pattern[i], path[i])
  BY <1>1 DEF Matches, Fits
<1>3. 1 .. 2 = {1, 2}
  OBVIOUS
<1>. QED  BY <1>1, <1>2, <1>3 DEF pattern

LEMMA MatchPrefixed ==
  ASSUME NEW a, NEW b, NEW path \in Path
  PROVE  Matches(<<"api", a, b>>, <<"api">> \o path) <=>
           Len(path) = 2 /\ Fits(a, path[1]) /\ Fits(b, path[2])
<1>. DEFINE long == <<"api">> \o path
            pattern == <<"api", a, b>>
<1>1. /\ Len(long) = 1 + Len(path) /\ long[1] = "api"
      /\ \A i \in 1 .. Len(path) : long[i + 1] = path[i]
  BY DEF Path
<1>2. Len(pattern) = 3 /\ pattern[1] = "api" /\ pattern[2] = a /\ pattern[3] = b
  OBVIOUS
<1>3. Len(path) \in Nat
  BY DEF Path
<1>. HIDE DEF long, pattern
<1>4. CASE Len(path) = 2
  <2>1. Len(long) = 3 /\ long[1] = "api" /\ long[2] = path[1] /\ long[3] = path[2]
    BY <1>1, <1>4
  <2>2. 1 .. 3 = {1, 2, 3}
    OBVIOUS
  <2>3. Matches(pattern, long) <=> \A i \in 1 .. 3 : Fits(pattern[i], long[i])
    BY <1>2, <2>1 DEF Matches, Fits
  <2>4. Matches(pattern, long) <=> Fits(a, path[1]) /\ Fits(b, path[2])
    BY <1>2, <2>1, <2>2, <2>3 DEF Fits
  <2>. QED  BY <1>4, <2>4 DEF long, pattern
<1>5. CASE Len(path) # 2
  <2>1. Len(pattern) # Len(long)
    BY <1>1, <1>2, <1>3, <1>5
  <2>2. ~Matches(pattern, long)
    BY <2>1 DEF Matches
  <2>. QED  BY <1>5, <2>2 DEF long, pattern
<1>. QED  BY <1>4, <1>5

\* Where the gateway sends a path, by its segments.
LEMMA UpstreamOf ==
  ASSUME NEW path \in Path
  PROVE  /\ Upstream(path) = "auth" <=> path[1] = "auth" /\ Len(path) > 1
         /\ Upstream(path) = "booking" <=>
              \/ path[1] \in {"rooms", "booking"}
              \/ Len(path) = 2 /\ path[1] = "parser" /\ path[2] = "status"
<1>1. path = <<"parser", "status">> <=>
        Len(path) = 2 /\ path[1] = "parser" /\ path[2] = "status"
  BY DEF Path
<1>. QED  BY <1>1 DEF Upstream

\* The operation a method and a path can belong to, if they belong to one.
Intended(m, path) ==
  IF m = "POST"
  THEN IF path[1] = "booking" THEN "PostBooking"
       ELSE IF path[2] = "login" THEN "PostAuthLogin" ELSE "PostAuthRegister"
  ELSE IF m = "DELETE" THEN "DeleteBookingId"
  ELSE IF path[1] = "auth" THEN "GetAuthMe"
  ELSE IF path[1] = "parser" THEN "ParserStatus"
  ELSE IF path[1] = "booking" THEN "GetBookingMy"
  ELSE IF Len(path) = 1 THEN "GetRooms" ELSE "GetRoomsId"

\* A route and a line of the description speak of the same operation.
Agree(t, a) ==
  /\ t.method = a.method /\ t.operation = a.operation /\ t.operation # "none"
  /\ a.protected <=> NeedsIdentity(t.operation)
  /\ t.service # "none"
  /\ \A path \in Path :
       /\ Matches(a.path, path) <=> t.service = Upstream(path) /\ Matches(t.path, Rewrite(path))
       /\ Matches(a.path, path) => a.operation = Intended(a.method, path)

\* A path that belongs to no other service reaches the booking service as it is,
\* one of the auth service with a prefix.
LEMMA Rewritten ==
  \A path : Rewrite(path) = IF Upstream(path) = "auth" THEN <<"api">> \o path ELSE path
BY DEF Rewrite

\* What makes a route and a line of the description agree.
LEMMA RowAgrees ==
  ASSUME NEW s, NEW m, NEW p, NEW q, NEW o, NEW b \in BOOLEAN,
         s # "none", o # "none", b <=> NeedsIdentity(o),
         \A path \in Path :
           /\ Matches(q, path) <=> Upstream(path) = s /\ Matches(p, Rewrite(path))
           /\ Matches(q, path) => o = Intended(m, path)
  PROVE  Agree(Route(s, m, p, o), Public(m, q, o, b))
<1>. DEFINE t == Route(s, m, p, o)
            a == Public(m, q, o, b)
<1>1. t.service = s /\ t.method = m /\ t.path = p /\ t.operation = o
  BY DEF Route
<1>2. a.method = m /\ a.path = q /\ a.operation = o /\ a.protected = b
  BY DEF Public
<1>. HIDE DEF t, a
<1>3. Agree(t, a)
  BY <1>1, <1>2 DEF Agree
<1>. QED  BY <1>3 DEF t, a

\* The nine operations.
LEMMA RowsAgree ==
  /\ Agree(Route("auth", "POST", <<"api", "auth", "register">>, "PostAuthRegister"),
           Public("POST", <<"auth", "register">>, "PostAuthRegister", FALSE))
  /\ Agree(Route("auth", "POST", <<"api", "auth", "login">>, "PostAuthLogin"),
           Public("POST", <<"auth", "login">>, "PostAuthLogin", FALSE))
  /\ Agree(Route("auth", "GET", <<"api", "auth", "me">>, "GetAuthMe"),
           Public("GET", <<"auth", "me">>, "GetAuthMe", TRUE))
  /\ Agree(Route("booking", "GET", <<"parser", "status">>, "ParserStatus"),
           Public("GET", <<"parser", "status">>, "ParserStatus", FALSE))
  /\ Agree(Route("booking", "POST", <<"booking">>, "PostBooking"),
           Public("POST", <<"booking">>, "PostBooking", TRUE))
  /\ Agree(Route("booking", "GET", <<"booking", "my">>, "GetBookingMy"),
           Public("GET", <<"booking", "my">>, "GetBookingMy", TRUE))
  /\ Agree(Route("booking", "DELETE", <<"booking", "{id}">>, "DeleteBookingId"),
           Public("DELETE", <<"booking", "{id}">>, "DeleteBookingId", TRUE))
  /\ Agree(Route("booking", "GET", <<"rooms">>, "GetRooms"),
           Public("GET", <<"rooms">>, "GetRooms", FALSE))
  /\ Agree(Route("booking", "GET", <<"rooms", "{id}">>, "GetRoomsId"),
           Public("GET", <<"rooms", "{id}">>, "GetRoomsId", FALSE))
<1>1. Agree(Route("auth", "POST", <<"api", "auth", "register">>, "PostAuthRegister"),
         Public("POST", <<"auth", "register">>, "PostAuthRegister", FALSE))
  <2>1. ASSUME NEW path \in Path
        PROVE  /\ Matches(<<"auth", "register">>, path) <=>
                    Upstream(path) = "auth" /\ Matches(<<"api", "auth", "register">>, Rewrite(path))
               /\ Matches(<<"auth", "register">>, path) => "PostAuthRegister" = Intended("POST", path)
    <3>1. Matches(<<"auth", "register">>, path) <=>
            Len(path) = 2 /\ Fits("auth", path[1]) /\ Fits("register", path[2])
      BY MatchTwo
    <3>2. Matches(<<"auth", "register">>, path) => Upstream(path) = "auth"
      BY <3>1, UpstreamOf DEF Fits
    <3>3. Matches(<<"auth", "register">>, path) => "PostAuthRegister" = Intended("POST", path)
      BY <3>1 DEF Intended, Fits
    <3>4. Upstream(path) = "auth" => (Matches(<<"auth", "register">>, path) <=> Matches(<<"api", "auth", "register">>, Rewrite(path)))
      BY <3>1, MatchPrefixed, Rewritten
    <3>. QED  BY <3>2, <3>3, <3>4
  <2>2. FALSE <=> NeedsIdentity("PostAuthRegister")
    BY DEF NeedsIdentity
  <2>. QED  BY <2>1, <2>2, RowAgrees
<1>2. Agree(Route("auth", "POST", <<"api", "auth", "login">>, "PostAuthLogin"),
         Public("POST", <<"auth", "login">>, "PostAuthLogin", FALSE))
  <2>1. ASSUME NEW path \in Path
        PROVE  /\ Matches(<<"auth", "login">>, path) <=>
                    Upstream(path) = "auth" /\ Matches(<<"api", "auth", "login">>, Rewrite(path))
               /\ Matches(<<"auth", "login">>, path) => "PostAuthLogin" = Intended("POST", path)
    <3>1. Matches(<<"auth", "login">>, path) <=>
            Len(path) = 2 /\ Fits("auth", path[1]) /\ Fits("login", path[2])
      BY MatchTwo
    <3>2. Matches(<<"auth", "login">>, path) => Upstream(path) = "auth"
      BY <3>1, UpstreamOf DEF Fits
    <3>3. Matches(<<"auth", "login">>, path) => "PostAuthLogin" = Intended("POST", path)
      BY <3>1 DEF Intended, Fits
    <3>4. Upstream(path) = "auth" => (Matches(<<"auth", "login">>, path) <=> Matches(<<"api", "auth", "login">>, Rewrite(path)))
      BY <3>1, MatchPrefixed, Rewritten
    <3>. QED  BY <3>2, <3>3, <3>4
  <2>2. FALSE <=> NeedsIdentity("PostAuthLogin")
    BY DEF NeedsIdentity
  <2>. QED  BY <2>1, <2>2, RowAgrees
<1>3. Agree(Route("auth", "GET", <<"api", "auth", "me">>, "GetAuthMe"),
         Public("GET", <<"auth", "me">>, "GetAuthMe", TRUE))
  <2>1. ASSUME NEW path \in Path
        PROVE  /\ Matches(<<"auth", "me">>, path) <=>
                    Upstream(path) = "auth" /\ Matches(<<"api", "auth", "me">>, Rewrite(path))
               /\ Matches(<<"auth", "me">>, path) => "GetAuthMe" = Intended("GET", path)
    <3>1. Matches(<<"auth", "me">>, path) <=>
            Len(path) = 2 /\ Fits("auth", path[1]) /\ Fits("me", path[2])
      BY MatchTwo
    <3>2. Matches(<<"auth", "me">>, path) => Upstream(path) = "auth"
      BY <3>1, UpstreamOf DEF Fits
    <3>3. Matches(<<"auth", "me">>, path) => "GetAuthMe" = Intended("GET", path)
      BY <3>1 DEF Intended, Fits
    <3>4. Upstream(path) = "auth" => (Matches(<<"auth", "me">>, path) <=> Matches(<<"api", "auth", "me">>, Rewrite(path)))
      BY <3>1, MatchPrefixed, Rewritten
    <3>. QED  BY <3>2, <3>3, <3>4
  <2>2. TRUE <=> NeedsIdentity("GetAuthMe")
    BY DEF NeedsIdentity
  <2>. QED  BY <2>1, <2>2, RowAgrees
<1>4. Agree(Route("booking", "GET", <<"parser", "status">>, "ParserStatus"),
         Public("GET", <<"parser", "status">>, "ParserStatus", FALSE))
  <2>1. ASSUME NEW path \in Path
        PROVE  /\ Matches(<<"parser", "status">>, path) <=>
                    Upstream(path) = "booking" /\ Matches(<<"parser", "status">>, Rewrite(path))
               /\ Matches(<<"parser", "status">>, path) => "ParserStatus" = Intended("GET", path)
    <3>1. Matches(<<"parser", "status">>, path) <=>
            Len(path) = 2 /\ Fits("parser", path[1]) /\ Fits("status", path[2])
      BY MatchTwo
    <3>2. Matches(<<"parser", "status">>, path) => Upstream(path) = "booking"
      BY <3>1, UpstreamOf DEF Fits
    <3>3. Matches(<<"parser", "status">>, path) => "ParserStatus" = Intended("GET", path)
      BY <3>1 DEF Intended, Fits
    <3>4. Upstream(path) = "booking" => Rewrite(path) = path
      BY Rewritten
    <3>. QED  BY <3>2, <3>3, <3>4
  <2>2. FALSE <=> NeedsIdentity("ParserStatus")
    BY DEF NeedsIdentity
  <2>. QED  BY <2>1, <2>2, RowAgrees
<1>5. Agree(Route("booking", "POST", <<"booking">>, "PostBooking"),
         Public("POST", <<"booking">>, "PostBooking", TRUE))
  <2>1. ASSUME NEW path \in Path
        PROVE  /\ Matches(<<"booking">>, path) <=>
                    Upstream(path) = "booking" /\ Matches(<<"booking">>, Rewrite(path))
               /\ Matches(<<"booking">>, path) => "PostBooking" = Intended("POST", path)
    <3>1. Matches(<<"booking">>, path) <=>
            Len(path) = 1 /\ Fits("booking", path[1])
      BY MatchOne
    <3>2. Matches(<<"booking">>, path) => Upstream(path) = "booking"
      BY <3>1, UpstreamOf DEF Fits
    <3>3. Matches(<<"booking">>, path) => "PostBooking" = Intended("POST", path)
      BY <3>1 DEF Intended, Fits
    <3>4. Upstream(path) = "booking" => Rewrite(path) = path
      BY Rewritten
    <3>. QED  BY <3>2, <3>3, <3>4
  <2>2. TRUE <=> NeedsIdentity("PostBooking")
    BY DEF NeedsIdentity
  <2>. QED  BY <2>1, <2>2, RowAgrees
<1>6. Agree(Route("booking", "GET", <<"booking", "my">>, "GetBookingMy"),
         Public("GET", <<"booking", "my">>, "GetBookingMy", TRUE))
  <2>1. ASSUME NEW path \in Path
        PROVE  /\ Matches(<<"booking", "my">>, path) <=>
                    Upstream(path) = "booking" /\ Matches(<<"booking", "my">>, Rewrite(path))
               /\ Matches(<<"booking", "my">>, path) => "GetBookingMy" = Intended("GET", path)
    <3>1. Matches(<<"booking", "my">>, path) <=>
            Len(path) = 2 /\ Fits("booking", path[1]) /\ Fits("my", path[2])
      BY MatchTwo
    <3>2. Matches(<<"booking", "my">>, path) => Upstream(path) = "booking"
      BY <3>1, UpstreamOf DEF Fits
    <3>3. Matches(<<"booking", "my">>, path) => "GetBookingMy" = Intended("GET", path)
      BY <3>1 DEF Intended, Fits
    <3>4. Upstream(path) = "booking" => Rewrite(path) = path
      BY Rewritten
    <3>. QED  BY <3>2, <3>3, <3>4
  <2>2. TRUE <=> NeedsIdentity("GetBookingMy")
    BY DEF NeedsIdentity
  <2>. QED  BY <2>1, <2>2, RowAgrees
<1>7. Agree(Route("booking", "DELETE", <<"booking", "{id}">>, "DeleteBookingId"),
         Public("DELETE", <<"booking", "{id}">>, "DeleteBookingId", TRUE))
  <2>1. ASSUME NEW path \in Path
        PROVE  /\ Matches(<<"booking", "{id}">>, path) <=>
                    Upstream(path) = "booking" /\ Matches(<<"booking", "{id}">>, Rewrite(path))
               /\ Matches(<<"booking", "{id}">>, path) => "DeleteBookingId" = Intended("DELETE", path)
    <3>1. Matches(<<"booking", "{id}">>, path) <=>
            Len(path) = 2 /\ Fits("booking", path[1]) /\ Fits("{id}", path[2])
      BY MatchTwo
    <3>2. Matches(<<"booking", "{id}">>, path) => Upstream(path) = "booking"
      BY <3>1, UpstreamOf DEF Fits
    <3>3. Matches(<<"booking", "{id}">>, path) => "DeleteBookingId" = Intended("DELETE", path)
      BY <3>1 DEF Intended, Fits
    <3>4. Upstream(path) = "booking" => Rewrite(path) = path
      BY Rewritten
    <3>. QED  BY <3>2, <3>3, <3>4
  <2>2. TRUE <=> NeedsIdentity("DeleteBookingId")
    BY DEF NeedsIdentity
  <2>. QED  BY <2>1, <2>2, RowAgrees
<1>8. Agree(Route("booking", "GET", <<"rooms">>, "GetRooms"),
         Public("GET", <<"rooms">>, "GetRooms", FALSE))
  <2>1. ASSUME NEW path \in Path
        PROVE  /\ Matches(<<"rooms">>, path) <=>
                    Upstream(path) = "booking" /\ Matches(<<"rooms">>, Rewrite(path))
               /\ Matches(<<"rooms">>, path) => "GetRooms" = Intended("GET", path)
    <3>1. Matches(<<"rooms">>, path) <=>
            Len(path) = 1 /\ Fits("rooms", path[1])
      BY MatchOne
    <3>2. Matches(<<"rooms">>, path) => Upstream(path) = "booking"
      BY <3>1, UpstreamOf DEF Fits
    <3>3. Matches(<<"rooms">>, path) => "GetRooms" = Intended("GET", path)
      BY <3>1 DEF Intended, Fits
    <3>4. Upstream(path) = "booking" => Rewrite(path) = path
      BY Rewritten
    <3>. QED  BY <3>2, <3>3, <3>4
  <2>2. FALSE <=> NeedsIdentity("GetRooms")
    BY DEF NeedsIdentity
  <2>. QED  BY <2>1, <2>2, RowAgrees
<1>9. Agree(Route("booking", "GET", <<"rooms", "{id}">>, "GetRoomsId"),
         Public("GET", <<"rooms", "{id}">>, "GetRoomsId", FALSE))
  <2>1. ASSUME NEW path \in Path
        PROVE  /\ Matches(<<"rooms", "{id}">>, path) <=>
                    Upstream(path) = "booking" /\ Matches(<<"rooms", "{id}">>, Rewrite(path))
               /\ Matches(<<"rooms", "{id}">>, path) => "GetRoomsId" = Intended("GET", path)
    <3>1. Matches(<<"rooms", "{id}">>, path) <=>
            Len(path) = 2 /\ Fits("rooms", path[1]) /\ Fits("{id}", path[2])
      BY MatchTwo
    <3>2. Matches(<<"rooms", "{id}">>, path) => Upstream(path) = "booking"
      BY <3>1, UpstreamOf DEF Fits
    <3>3. Matches(<<"rooms", "{id}">>, path) => "GetRoomsId" = Intended("GET", path)
      <4>1. Fits("rooms", path[1]) => path[1] = "rooms"
        BY DEF Fits
      <4>2. Len(path) = 2 /\ path[1] = "rooms" => Intended("GET", path) = "GetRoomsId"
        BY DEF Intended
      <4>. QED  BY <3>1, <4>1, <4>2
    <3>4. Upstream(path) = "booking" => Rewrite(path) = path
      BY Rewritten
    <3>. QED  BY <3>2, <3>3, <3>4
  <2>2. FALSE <=> NeedsIdentity("GetRoomsId")
    BY DEF NeedsIdentity
  <2>. QED  BY <2>1, <2>2, RowAgrees
<1>. QED  BY <1>1, <1>2, <1>3, <1>4, <1>5, <1>6, <1>7, <1>8, <1>9

\* Every route is in the description, and everything described has a route.
LEMMA Table ==
  /\ \A t \in Routes : \E a \in PublicAPI : Agree(t, a)
  /\ \A a \in PublicAPI : \E t \in Routes : Agree(t, a)
BY RowsAgree DEF Routes, PublicAPI

\* For every call: the operation it reaches is the one described, if there is
\* one, and asks for an identity if the description says so.
LEMMA SameOperation ==
  ASSUME NEW c, c.path \in Path
  PROVE  /\ {a.operation : a \in Described(c)} = {Operation(c)} \ {"none"}
         /\ Described(c) # {} => Upstream(c.path) # "none"
         /\ Operation(c) # "none" =>
              \E a \in Described(c) : a.protected => NeedsIdentity(Operation(c))
<1>. DEFINE Found == {t \in Matching(c) : t.method = c.method}
<1>1. ASSUME NEW t \in Found
      PROVE  \E a \in Described(c) :
               a.operation = t.operation /\ (a.protected <=> NeedsIdentity(t.operation))
  <2>1. t \in Routes /\ t.service = Upstream(c.path) /\ Matches(t.path, Rewrite(c.path))
        /\ t.method = c.method
    BY DEF Matching
  <2>2. PICK a \in PublicAPI : Agree(t, a)
    BY <2>1, Table
  <2>. QED  BY <2>1, <2>2 DEF Agree, Described
<1>2. ASSUME NEW a \in Described(c)
      PROVE  /\ \E t \in Found : t.operation = a.operation
             /\ a.operation = Intended(c.method, c.path) /\ a.operation # "none"
             /\ Upstream(c.path) # "none"
  <2>1. a \in PublicAPI /\ a.method = c.method /\ Matches(a.path, c.path)
    BY DEF Described
  <2>2. PICK t \in Routes : Agree(t, a)
    BY <2>1, Table
  <2>3. t.method = c.method /\ t.service = Upstream(c.path) /\ Matches(t.path, Rewrite(c.path))
    BY <2>1, <2>2 DEF Agree
  <2>. QED  BY <2>1, <2>2, <2>3 DEF Agree, Matching
<1>3. Operation(c) = IF Found = {} THEN "none" ELSE (CHOOSE t \in Found : TRUE).operation
  BY DEF Operation
<1>. HIDE DEF Found
<1>4. CASE Found = {}
  BY <1>2, <1>3, <1>4
<1>5. CASE Found # {}
  <2>1. PICK t \in Found : Operation(c) = t.operation
    BY <1>3, <1>5
  <2>2. PICK a \in Described(c) :
          a.operation = t.operation /\ (a.protected <=> NeedsIdentity(t.operation))
    BY <1>1
  <2>3. \A b \in Described(c) : b.operation = Operation(c)
    BY <1>2, <2>1, <2>2
  <2>4. Operation(c) # "none" /\ Upstream(c.path) # "none"
    BY <1>2, <2>1, <2>2
  <2>. QED  BY <2>1, <2>2, <2>3, <2>4
<1>. QED  BY <1>4, <1>5

-----------------------------------------------------------------------------
\* Routes are taken as they are described.

\* A call that was answered as unknown before it reached a service belongs to
\* none; one that succeeded has passed its router, its token and its parameter.
RoutePoint(r) ==
  /\ gateway[r] # "idle" \/ call[r] # <<>> => call[r] \in Call
  /\ service[r] = "none" /\ seen[r].status = 404 => Upstream(call[r].path) = "none"
  /\ service[r] = "replied" /\ reply[r].status = 200 =>
       Operation(call[r]) # "none" /\ ~TokenRefused(call[r]) /\ ~BadParameter(call[r])

RouteInv == \A r \in Request : RoutePoint(r)

LEMMA NoStatus == NoAnswer.status # 404
BY DEF NoAnswer

LEMMA RouteElsewhere ==
  ASSUME NEW q \in Request, RoutePoint(q), Same(q)
  PROVE  RoutePoint(q)'
BY DEF Same, RoutePoint

LEMMA OnlyOne ==
  ASSUME GatewayInv, NEW r \in Request,
         (\E c \in Call : Make(r, c)) \/ Work(r) \/ GiveBack(r) \/ HangUp(r)
  PROVE  \A q \in Request \ {r} : Same(q)
<1>1. ASSUME NEW c \in Call, Make(r, c) PROVE \A q \in Request \ {r} : Same(q)
  BY <1>1 DEF Make, Preflight, Health, NotFound, Redirect, Forward, Finish, LogLine, serviceVars,
              GatewayInv, Base, Same
<1>2. CASE Arrive(r) \/ ServiceDies(r) \/ Refuse(r) \/ HandlerRefuses(r) \/ Serve(r)
  <2>1. /\ UNCHANGED <<call, gateway, seen, logged, effect>>
        /\ \A q \in Request \ {r} : service'[q] = service[q] /\ reply'[q] = reply[q]
    BY <1>2 DEF Arrive, ServiceDies, Refuse, HandlerRefuses, Serve, Reply, GatewayInv, Base
  <2>. QED  BY <2>1 DEF Same
<1>3. CASE Book(r) \/ Cancel(r)
  <2>1. /\ UNCHANGED <<call, gateway, seen, logged>>
        /\ effect' = effect \/ effect' = effect \cup {r}
        /\ \A q \in Request \ {r} : service'[q] = service[q] /\ reply'[q] = reply[q]
    BY <1>3 DEF Book, Cancel, Change, Unchanged, Reply, GatewayInv, Base
  <2>. QED  BY <2>1 DEF Same
<1>4. CASE GiveBack(r) \/ HangUp(r)
  <2>1. /\ UNCHANGED <<call, serviceVars>>
        /\ \A q \in Request \ {r} :
             gateway'[q] = gateway[q] /\ seen'[q] = seen[q] /\ logged'[q] = logged[q]
    BY <1>4 DEF GiveBack, HangUp, Unavailable, NormalizeError, StartCopy, EndCopy, BreakCopy,
                Finish, LogLine, GatewayInv, Base
  <2>. QED  BY <2>1 DEF Same, serviceVars
<1>. QED  BY <1>1, <1>2, <1>3, <1>4 DEF Work

\* A call is made.
LEMMA MakeRoutes ==
  ASSUME GatewayInv, NEW r \in Request, NEW c \in Call, Make(r, c)
  PROVE  RoutePoint(r)'
<1>1. gateway[r] = "idle" /\ call'[r] = c /\ UNCHANGED serviceVars
  BY DEF Make, Preflight, Health, NotFound, Redirect, Forward, GatewayInv, Base
<1>2. service'[r] = "none"
  BY <1>1 DEF GatewayInv, Point, ServicePoint, serviceVars
<1>3. seen[r].status # 404
  <2>1. seen[r] = NoAnswer
    BY <1>1 DEF GatewayInv, Point, GatewayPoint
  <2>. QED  BY <2>1, NoStatus
<1>4. seen'[r].status = 404 => Upstream(c.path) = "none"
  BY <1>3 DEF Make, Preflight, Health, NotFound, Redirect, Forward, Finish, GatewayInv, Base
<1>. QED  BY <1>1, <1>2, <1>4 DEF RoutePoint

\* A service works on a call.
LEMMA WorkRoutes ==
  ASSUME GatewayInv, NEW r \in Request, RoutePoint(r), Work(r)
  PROVE  RoutePoint(r)'
<1>1. UNCHANGED <<call, gateway, seen>>
  BY DEF Work, Arrive, Refuse, HandlerRefuses, Serve, Book, Cancel, Change, Unchanged, ServiceDies
<1>2. CASE Arrive(r) \/ ServiceDies(r)
  <2>1. service'[r] \in {"run", "gone"}
    BY <1>2 DEF Arrive, ServiceDies, GatewayInv, Base
  <2>. QED  BY <1>1, <2>1 DEF RoutePoint
<1>3. ASSUME NEW status, NEW body, Reply(r, status, body),
             status = 200 => /\ Operation(call[r]) # "none"
                             /\ ~TokenRefused(call[r]) /\ ~BadParameter(call[r])
      PROVE  RoutePoint(r)'
  <2>1. service'[r] = "replied" /\ reply'[r].status = status
    BY <1>3 DEF Reply, GatewayInv, Base
  <2>. QED  BY <1>1, <1>3, <2>1 DEF RoutePoint
<1>4. CASE Refuse(r)
  <2>1. NoRouteStatus(call[r]) # 200
    BY DEF NoRouteStatus
  <2>2. \E status, body : Reply(r, status, body) /\ status # 200
    BY <1>4, <2>1 DEF Refuse
  <2>. QED  BY <1>3, <2>2
<1>5. CASE HandlerRefuses(r)
  <2>1. \A o : 200 \notin Refusals(o)
    BY DEF Refusals
  <2>2. \E status, body : Reply(r, status, body) /\ status # 200
    BY <1>5, <2>1 DEF HandlerRefuses
  <2>. QED  BY <1>3, <2>2
<1>6. CASE Serve(r) \/ Book(r) \/ Cancel(r)
  <2>1. \E status, body : Reply(r, status, body)
    BY <1>6 DEF Serve, Book, Cancel, Change, Unchanged
  <2>2. \A t \in Routes : t.operation # "none"
    BY Table DEF Agree
  <2>3. \E o : Reached(r, o) /\ o # "none"
    BY <1>6, <2>2 DEF Serve, Book, Cancel
  <2>. QED  BY <1>3, <2>1, <2>3 DEF Reached
<1>. QED  BY <1>2, <1>4, <1>5, <1>6 DEF Work

\* The gateway hands an answer over.
LEMMA GiveBackRoutes ==
  ASSUME GatewayInv, NEW r \in Request, RoutePoint(r), GiveBack(r) \/ HangUp(r)
  PROVE  RoutePoint(r)'
<1>1. UNCHANGED <<call, service, reply>> /\ gateway[r] # "idle"
  BY DEF GiveBack, HangUp, Unavailable, NormalizeError, StartCopy, EndCopy, BreakCopy, serviceVars
<1>2. service[r] = "none" => seen'[r].status # 404
  <2>1. gateway[r] = "copy" => service[r] # "none"
    BY DEF GatewayInv, Point, GatewayPoint
  <2>2. CASE Unavailable(r)
    BY <2>2 DEF Unavailable, Finish, GatewayInv, Base
  <2>3. CASE HangUp(r)
    <3>1. seen'[r] = NoAnswer
      BY <2>3 DEF HangUp, GatewayInv, Base
    <3>. QED  BY <3>1, NoStatus
  <2>4. CASE NormalizeError(r) \/ StartCopy(r) \/ EndCopy(r) \/ BreakCopy(r)
    BY <2>1, <2>4 DEF NormalizeError, StartCopy, EndCopy, BreakCopy
  <2>. QED  BY <2>2, <2>3, <2>4 DEF GiveBack
<1>. QED  BY <1>1, <1>2 DEF RoutePoint

LEMMA RouteInvariant == Spec => []RouteInv
<1>1. Init => RouteInv
  <2>. SUFFICES ASSUME Init, NEW r \in Request PROVE RoutePoint(r)
    BY DEF RouteInv
  <2>1. seen[r] = NoAnswer /\ call[r] = <<>> /\ gateway[r] = "idle" /\ service[r] = "none"
    BY DEF Init
  <2>. QED  BY <2>1, NoStatus DEF RoutePoint
<1>2. GatewayInv /\ RouteInv /\ [Next]_vars => RouteInv'
  <2>. SUFFICES ASSUME GatewayInv, RouteInv, [Next]_vars PROVE RouteInv'
    OBVIOUS
  <2>1. CASE UNCHANGED vars
    BY <2>1 DEF vars, RouteInv, RoutePoint
  <2>2. ASSUME NEW r \in Request,
               (\E c \in Call : Make(r, c)) \/ Work(r) \/ GiveBack(r) \/ HangUp(r)
        PROVE  RouteInv'
    <3>1. RoutePoint(r)'
      BY <2>2, MakeRoutes, WorkRoutes, GiveBackRoutes DEF RouteInv
    <3>2. \A q \in Request \ {r} : RoutePoint(q)'
      BY <2>2, OnlyOne, RouteElsewhere DEF RouteInv
    <3>. QED  BY <3>1, <3>2 DEF RouteInv
  <2>. QED  BY <2>1, <2>2 DEF Next
<1>. QED  BY <1>1, <1>2, Always, PTL DEF Spec

\* Whatever is called, with whatever token: the routers of gateway and service
\* take a call to the operation that gateway-api.yaml gives its method and path,
\* to none if it has none, and past the identity only if it has one.
THEOREM CallsReachTheirOperation == Spec => []RoutesAgree
<1>1. GatewayInv /\ RouteInv => RoutesAgree
  <2>. SUFFICES ASSUME GatewayInv, RouteInv, NEW r \in Request,
                       call[r] # <<>>, call[r].method # "OPTIONS"
       PROVE  /\ {a.operation : a \in Described(call[r])} = {Operation(call[r])} \ {"none"}
              /\ service[r] = "none" /\ seen[r].status = 404 => Described(call[r]) = {}
              /\ service[r] = "replied" /\ reply[r].status = 200 =>
                   \E a \in Described(call[r]) : a.protected => call[r].token = "good"
    BY DEF RoutesAgree
  <2>1. RoutePoint(r)
    BY DEF RouteInv
  <2>2. call[r].path \in Path
    BY <2>1, CallAssumption DEF RoutePoint, Path
  <2>3. service[r] = "replied" /\ reply[r].status = 200 =>
          \E a \in Described(call[r]) : a.protected => call[r].token = "good"
    BY <2>1, <2>2, SameOperation DEF RoutePoint, TokenRefused
  <2>. QED  BY <2>1, <2>2, <2>3, SameOperation DEF RoutePoint
<1>. QED  BY <1>1, Always, RouteInvariant, PTL

=============================================================================
