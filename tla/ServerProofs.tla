---------------------------- MODULE ServerProofs -----------------------------
(***************************************************************************)
(* Proofs about what every service process shares: its end and its log.    *)
(*                                                                         *)
(* ServerShutdown, for any number of requests.  What is closed when        *)
(* follows from where run() is (MainInv); whom it is closed under follows  *)
(* from how serving ended: once run() has left the server, no handler is   *)
(* running that was not cut off, unless the listener failed (DrainInv).    *)
(* The fate of an event follows from the phase of its handler (EventInv):  *)
(* before the commit there is none, between commit and publication it is   *)
(* nowhere, and then it is accounted for.                                  *)
(*                                                                         *)
(* AsyncLogWriter, for a queue of any size and any number of lines: what   *)
(* is on its way to Logstash stands in one order, from what has arrived    *)
(* over the connection and the line being sent back to the channel, and    *)
(* with the lines dropped and lost it is all that was logged (LogInv).     *)
(***************************************************************************)
EXTENDS ServerProcess, Naturals, Sequences, TLAPS

Serving == {"start", "serve", "shutdown"}

\* Order of the closing, and the import before all of it.
MainInv ==
  /\ publisher = "closed" => main \in {"close_pool", "drain_pool", "exited", "killed"}
  /\ pool = "closed" => main \in {"drain_pool", "exited", "killed"}
  /\ main \in {"close_publisher", "close_pool", "drain_pool", "exited"} => import = "done"
  /\ publisher = "closed" => import = "done"
  /\ pool = "closed" => publisher = "closed"
  /\ main \in {"close_pool", "drain_pool", "exited"} => publisher = "closed"

\* Who is still running when run() no longer serves.
DrainInv ==
  /\ main = "start" => \A r \in Request : phase[r] = "idle"
  /\ main \notin Serving => \/ ended = "failed"
                            \/ \A r \in Request : phase[r] \in {"idle", "done"} \/ r \in cut
  /\ main \in Serving => ended = ""

\* Where the event of a request is, by the phase of its handler.
EventInv ==
  /\ \A r \in Request :
       /\ phase[r] \in {"idle", "acquire", "query"} => r \notin committed
       /\ phase[r] = "publish" => r \in committed /\ r \notin transit \cup delivered \cup logged
       /\ phase[r] \in {"reply", "done"} /\ r \in committed =>
            r \in transit \cup delivered \cup logged \cup cut
  /\ broker # "down" /\ publisher = "open" => logged = {}

\* Once the publisher is closed, the broker has what it can have.
DeliveredInv ==
  publisher = "closed" /\ ended # "failed" /\ broker = "up" => committed \subseteq delivered \cup cut

ShutdownInv == TypeOK /\ MainInv /\ DrainInv /\ EventInv /\ DeliveredInv

\* What a request does, or is done to.
Act(r) == Accept(r) \/ Handle(r) \/ Statement(r) \/ HangUp(r)

-----------------------------------------------------------------------------

LEMMA InitHolds == Init => ShutdownInv
BY DEF Init, ShutdownInv, TypeOK, MainInv, DrainInv, EventInv, DeliveredInv, Serving

\* A handler's step, its statement and its client keep the invariant.
LEMMA ActKeeps ==
  ASSUME ShutdownInv, NEW r \in Request, Act(r)
  PROVE  ShutdownInv'
<1>. USE DEF ShutdownInv, TypeOK, MainInv, DrainInv, EventInv, DeliveredInv, Serving, Goto, Alive,
             serverVars, resourceVars, eventVars
<1>1. CASE Accept(r)
  <2>1. /\ main # "start" /\ phase[r] = "idle" /\ phase' = [phase EXCEPT ![r] = "acquire"]
        /\ \/ cut' = cut /\ (main \in Serving \/ ended = "failed")
           \/ cut' = cut \cup {r}
        /\ UNCHANGED <<serverVars, resourceVars, committed, eventVars>>
    BY <1>1 DEF Accept, Connected
  <2>. QED  BY <2>1
<1>2. CASE Acquire(r)
  BY <1>2 DEF Acquire
<1>3. CASE Publish(r)
  BY <1>3 DEF Publish
<1>4. CASE PublishFails(r)
  BY <1>4 DEF PublishFails
<1>5. CASE Answer(r)
  BY <1>5 DEF Answer
<1>6. CASE Query(r)
  BY <1>6 DEF Query
<1>7. CASE QueryFails(r)
  BY <1>7 DEF QueryFails
<1>8. CASE HangUp(r)
  BY <1>8 DEF HangUp, Running
<1>. QED  BY <1>1, <1>2, <1>3, <1>4, <1>5, <1>6, <1>7, <1>8 DEF Act, Handle, Statement

\* The steps of run(), up to the end of serving and from there on.
LEMMA RunKeeps ==
  ASSUME ShutdownInv, Run
  PROVE  ShutdownInv'
<1>. USE DEF ShutdownInv, TypeOK, MainInv, DrainInv, EventInv, DeliveredInv, Serving, Running,
             resourceVars, eventVars
<1>1. CASE Serve
  BY <1>1 DEF Serve
<1>2. CASE BeginShutdown
  BY <1>2 DEF BeginShutdown
<1>3. CASE Drained
  BY <1>3 DEF Drained
<1>4. CASE Expired
  BY <1>4 DEF Expired
<1>5. CASE Stop
  BY <1>5 DEF Stop
<1>6. CASE JoinImport
  BY <1>6 DEF JoinImport
<1>7. CASE ClosePublisher
  BY <1>7 DEF ClosePublisher
<1>8. CASE ClosePool
  BY <1>8 DEF ClosePool
<1>9. CASE Exit
  BY <1>9 DEF Exit
<1>. QED  BY <1>1, <1>2, <1>3, <1>4, <1>5, <1>6, <1>7, <1>8, <1>9 DEF Run

\* The broker, the signals, a failing listener and the import.
LEMMA SurroundingsKeep ==
  ASSUME ShutdownInv,
         ServeFails \/ Signal \/ Kill \/ EndImport \/ Deliver \/ BrokerDies \/ NoticeDeath
  PROVE  ShutdownInv'
<1>. USE DEF ShutdownInv, TypeOK, MainInv, DrainInv, EventInv, DeliveredInv, Serving, Alive,
             serverVars, resourceVars, eventVars
<1>1. CASE ServeFails
  BY <1>1 DEF ServeFails
<1>2. CASE Signal
  BY <1>2 DEF Signal
<1>3. CASE Kill
  BY <1>3 DEF Kill
<1>4. CASE EndImport
  BY <1>4 DEF EndImport
<1>5. CASE Deliver
  BY <1>5 DEF Deliver
<1>6. CASE BrokerDies
  BY <1>6 DEF BrokerDies
<1>7. CASE NoticeDeath
  BY <1>7 DEF NoticeDeath
<1>. QED  BY <1>1, <1>2, <1>3, <1>4, <1>5, <1>6, <1>7

LEMMA InvariantHolds == Spec => []ShutdownInv
<1>1. ShutdownInv /\ [Next]_vars => ShutdownInv'
  <2>. SUFFICES ASSUME ShutdownInv, [Next]_vars
                PROVE  ShutdownInv'
    OBVIOUS
  <2>1. CASE UNCHANGED vars
    BY <2>1 DEF vars, serverVars, resourceVars, eventVars, ShutdownInv, TypeOK, MainInv, DrainInv,
                EventInv, DeliveredInv, Serving
  <2>2. CASE Next
    BY <2>2, ActKeeps, RunKeeps, SurroundingsKeep DEF Next, Act
  <2>. QED  BY <2>1, <2>2
<1>. QED  BY InitHolds, <1>1, PTL DEF Spec

-----------------------------------------------------------------------------
(***************************************************************************)
(* The theorems.                                                           *)
(***************************************************************************)

\* The variables stay in their types, events are events of committed bookings,
\* and none is in two places.
THEOREM ShutdownTypeCorrect == Spec => []TypeOK
BY InvariantHolds, PTL DEF ShutdownInv

\* README.md, Shutdown: however many handlers there are, the publisher and the
\* pool are closed under none that was not cut off before, unless the listener
\* failed.
THEOREM RequestsFinish == Spec => []ActiveRequestsFinish
<1>1. ShutdownInv => ActiveRequestsFinish
  BY DEF ShutdownInv, TypeOK, MainInv, DrainInv, ActiveRequestsFinish, Running, Alive, Serving
<1>. QED  BY InvariantHolds, <1>1, PTL

\* README.md, Shutdown: nothing is closed under a running import.
THEOREM ImportBeforeClose == Spec => []ImportEndsFirst
<1>1. ShutdownInv => ImportEndsFirst
  BY DEF ShutdownInv, TypeOK, MainInv, ImportEndsFirst
<1>. QED  BY InvariantHolds, <1>1, PTL

\* An orderly stop loses the event of no request that was not cut off.
THEOREM NoEventLost == Spec => []StopLosesNoEvent
<1>1. ShutdownInv => StopLosesNoEvent
  BY DEF ShutdownInv, TypeOK, MainInv, DeliveredInv, StopLosesNoEvent
<1>. QED  BY InvariantHolds, <1>1, PTL

\* publisher.go: the event of a finished request is on its way, with the broker
\* or in the log, or the request was cut off.
THEOREM EventsAccountedFor == Spec => []EventAccountedFor
<1>1. ShutdownInv => EventAccountedFor
  BY DEF ShutdownInv, TypeOK, EventInv, EventAccountedFor
<1>. QED  BY InvariantHolds, <1>1, PTL

-----------------------------------------------------------------------------
\* The log writer of the process.

\* The lines of a sequence, and lines that come before others: a line of which
\* Logstash got the beginning (those of T) may come again.
Lines(s) == {s[i] : i \in DOMAIN s}
Follows(x, y, T) == x < y \/ (x = y /\ x \in T)
Ascending(s, T) == \A i, j \in DOMAIN s : i < j => Follows(s[i], s[j], T)
Before(S, R, T) == \A x \in S, y \in R : Follows(x, y, T)

\* The line being sent.
Held == {message} \ {0}

\* What is on its way stands in one order, from Logstash back to the channel.
LogInv ==
  /\ stdout \in Nat /\ message \in Nat
  /\ channel \in Seq(Nat) /\ socket \in Seq(Nat) /\ received \in Seq(Nat)
  /\ Ascending(received, torn) /\ Ascending(socket, torn) /\ Ascending(channel, torn)
  /\ Before(Lines(received), Lines(socket) \cup Held \cup Lines(channel), torn)
  /\ Before(Lines(socket), Held \cup Lines(channel), torn) /\ Before(Held, Lines(channel), torn)
  /\ begun => message # 0
  /\ 1 .. stdout = Lines(received) \cup Lines(socket) \cup Held \cup Lines(channel) \cup dropped \cup lost

LEMMA InLines ==
  ASSUME NEW s
  PROVE  /\ \A i \in DOMAIN s : s[i] \in Lines(s)
         /\ \A x \in Lines(s) : \E i \in DOMAIN s : x = s[i]
BY DEF Lines

LEMMA LinesOfAppend ==
  ASSUME NEW T, NEW s \in Seq(Nat), NEW n \in Nat
  PROVE  /\ Append(s, n) \in Seq(Nat) /\ Lines(Append(s, n)) = Lines(s) \cup {n}
         /\ Ascending(s, T) /\ Before(Lines(s), {n}, T) => Ascending(Append(s, n), T)
<1>. DEFINE t == Append(s, n)
<1>1. t \in Seq(Nat) /\ DOMAIN t = 1 .. Len(s) + 1 /\ t[Len(s) + 1] = n /\ Len(s) \in Nat
      /\ DOMAIN s = 1 .. Len(s) /\ \A i \in 1 .. Len(s) : t[i] = s[i]
  OBVIOUS
<1>. HIDE DEF t
<1>2. Lines(t) = Lines(s) \cup {n}
  <2>1. \A i \in 1 .. Len(s) + 1 : i \in 1 .. Len(s) \/ i = Len(s) + 1
    BY <1>1
  <2>. QED  BY <1>1, <2>1 DEF Lines
<1>3. ASSUME Ascending(s, T), Before(Lines(s), {n}, T)
      PROVE  Ascending(t, T)
  <2>1. SUFFICES ASSUME NEW i \in 1 .. Len(s) + 1, NEW j \in 1 .. Len(s) + 1, i < j
                 PROVE  Follows(t[i], t[j], T)
    BY <1>1 DEF Ascending
  <2>2. i \in 1 .. Len(s) /\ t[i] = s[i] /\ s[i] \in Lines(s)
    BY <1>1, <2>1, InLines
  <2>3. CASE j = Len(s) + 1
    BY <1>1, <1>3, <2>2, <2>3 DEF Before
  <2>4. CASE j # Len(s) + 1
    <3>1. j \in 1 .. Len(s) /\ t[j] = s[j]
      BY <1>1, <2>4
    <3>. QED  BY <1>1, <1>3, <2>1, <2>2, <3>1 DEF Ascending
  <2>. QED  BY <2>3, <2>4
<1>. QED  BY <1>1, <1>2, <1>3 DEF t

LEMMA LinesOfTail ==
  ASSUME NEW T, NEW s \in Seq(Nat), s # <<>>, Ascending(s, T)
  PROVE  /\ Head(s) \in Nat /\ Tail(s) \in Seq(Nat) /\ Lines(s) = {Head(s)} \cup Lines(Tail(s))
         /\ Ascending(Tail(s), T) /\ Before({Head(s)}, Lines(Tail(s)), T)
<1>. DEFINE t == Tail(s)
            n == Len(t)
<1>1. /\ t \in Seq(Nat) /\ n \in Nat /\ Len(s) = n + 1 /\ DOMAIN s = 1 .. n + 1 /\ DOMAIN t = 1 .. n
      /\ Head(s) = s[1] /\ \A i \in 1 .. n : t[i] = s[i + 1]
  OBVIOUS
<1>. HIDE DEF t, n
<1>2. s[1] \in Nat
  OBVIOUS
<1>3. Lines(s) = {s[1]} \cup Lines(t)
  <2>1. \A i \in 1 .. n + 1 : i = 1 \/ (i - 1 \in 1 .. n /\ t[i - 1] = s[i])
    BY <1>1
  <2>2. \A i \in 1 .. n : i + 1 \in 1 .. n + 1
    BY <1>1
  <2>3. 1 \in 1 .. n + 1
    BY <1>1
  <2>4. ASSUME NEW x \in Lines(s)
        PROVE  x = s[1] \/ x \in Lines(t)
    <3>1. PICK i \in 1 .. n + 1 : x = s[i]
      BY <1>1, InLines
    <3>. QED  BY <1>1, <2>1, <3>1, InLines
  <2>5. ASSUME NEW x \in Lines(t)
        PROVE  x \in Lines(s)
    <3>1. PICK i \in 1 .. n : x = t[i]
      BY <1>1, InLines
    <3>. QED  BY <1>1, <2>2, <3>1, InLines
  <2>6. s[1] \in Lines(s)
    BY <1>1, <2>3, InLines
  <2>. QED  BY <2>4, <2>5, <2>6
<1>4. Ascending(t, T)
  <2>1. SUFFICES ASSUME NEW i \in 1 .. n, NEW j \in 1 .. n, i < j
                 PROVE  Follows(t[i], t[j], T)
    BY <1>1 DEF Ascending
  <2>2. i + 1 \in DOMAIN s /\ j + 1 \in DOMAIN s /\ i + 1 < j + 1
    BY <1>1, <2>1
  <2>. QED  BY <1>1, <2>2 DEF Ascending
<1>5. Before({s[1]}, Lines(t), T)
  <2>1. SUFFICES ASSUME NEW x \in Lines(t)
                 PROVE  Follows(s[1], x, T)
    BY DEF Before
  <2>2. PICK i \in 1 .. n : x = t[i]
    BY <1>1, InLines
  <2>3. 1 \in DOMAIN s /\ i + 1 \in DOMAIN s /\ 1 < i + 1
    BY <1>1
  <2>. QED  BY <1>1, <2>2, <2>3 DEF Ascending
<1>. QED  BY <1>1, <1>2, <1>3, <1>4, <1>5 DEF t

LEMMA LinesOfConcat ==
  ASSUME NEW T, NEW s \in Seq(Nat), NEW t \in Seq(Nat),
         Ascending(s, T), Ascending(t, T), Before(Lines(s), Lines(t), T)
  PROVE  s \o t \in Seq(Nat) /\ Ascending(s \o t, T) /\ Lines(s \o t) = Lines(s) \cup Lines(t)
<1>. DEFINE u == s \o t
            n == Len(s)
            m == Len(t)
<1>1. /\ u \in Seq(Nat) /\ n \in Nat /\ m \in Nat
      /\ DOMAIN s = 1 .. n /\ DOMAIN t = 1 .. m /\ DOMAIN u = 1 .. n + m
      /\ \A i \in 1 .. n + m : u[i] = IF i <= n THEN s[i] ELSE t[i - n]
  OBVIOUS
<1>. HIDE DEF u, n, m
<1>2. \A i \in 1 .. n : i \in 1 .. n + m /\ u[i] = s[i]
  BY <1>1
<1>3. \A i \in 1 .. m : i + n \in 1 .. n + m /\ u[i + n] = t[i]
  <2>1. \A i \in 1 .. m : i + n \in 1 .. n + m /\ ~(i + n <= n) /\ (i + n) - n = i
    BY <1>1
  <2>. QED  BY <1>1, <2>1
<1>4. \A i \in 1 .. n + m : i \in 1 .. n \/ \E k \in 1 .. m : i = k + n
  <2>1. \A i \in 1 .. n + m : i \in 1 .. n \/ (i - n \in 1 .. m /\ i = (i - n) + n)
    BY <1>1
  <2>. QED  BY <2>1
<1>5. ASSUME NEW i \in 1 .. n + m, NEW j \in 1 .. n + m, i < j
      PROVE  Follows(u[i], u[j], T)
  <2>1. CASE i \in 1 .. n /\ j \in 1 .. n
    BY <1>1, <1>2, <1>5, <2>1 DEF Ascending
  <2>2. ASSUME i \in 1 .. n, NEW k \in 1 .. m, j = k + n
        PROVE  Follows(u[i], u[j], T)
    BY <1>1, <1>2, <1>3, <2>2, InLines DEF Before
  <2>3. ASSUME NEW k \in 1 .. m, i = k + n, NEW l \in 1 .. m, j = l + n
        PROVE  Follows(u[i], u[j], T)
    <3>1. k < l
      BY <1>1, <1>5, <2>3
    <3>. QED  BY <1>1, <1>3, <2>3, <3>1 DEF Ascending
  <2>4. ASSUME NEW k \in 1 .. m, i = k + n, j \in 1 .. n
        PROVE  FALSE
    BY <1>1, <1>5, <2>4
  <2>. QED  BY <1>4, <1>5, <2>1, <2>2, <2>3, <2>4
<1>6. ASSUME NEW x \in Lines(u)
      PROVE  x \in Lines(s) \cup Lines(t)
  <2>1. PICK i \in 1 .. n + m : x = u[i]
    BY <1>1, InLines
  <2>2. CASE i \in 1 .. n
    BY <1>1, <1>2, <2>1, <2>2, InLines
  <2>3. ASSUME NEW k \in 1 .. m, i = k + n
        PROVE  x \in Lines(t)
    BY <1>1, <1>3, <2>1, <2>3, InLines
  <2>. QED  BY <1>4, <2>2, <2>3
<1>7. ASSUME NEW x \in Lines(s) \cup Lines(t)
      PROVE  x \in Lines(u)
  <2>1. CASE x \in Lines(s)
    <3>1. PICK i \in 1 .. n : x = s[i]
      BY <1>1, <2>1, InLines
    <3>. QED  BY <1>1, <1>2, <3>1, InLines
  <2>2. CASE x \in Lines(t)
    <3>1. PICK i \in 1 .. m : x = t[i]
      BY <1>1, <2>2, InLines
    <3>. QED  BY <1>1, <1>3, <3>1, InLines
  <2>. QED  BY <1>7, <2>1, <2>2
<1>8. Ascending(u, T)
  BY <1>1, <1>5 DEF Ascending
<1>9. Lines(u) = Lines(s) \cup Lines(t)
  BY <1>6, <1>7
<1>. QED  BY <1>1, <1>8, <1>9 DEF u

\* More beginnings spoil no order.
LEMMA StillInOrder ==
  ASSUME NEW T, NEW U, T \subseteq U
  PROVE  /\ \A s : Ascending(s, T) => Ascending(s, U)
         /\ \A R, S : Before(R, S, T) => Before(R, S, U)
BY DEF Ascending, Before, Follows

LEMMA LogInit == Log!Init => LogInv
<1>. SUFFICES ASSUME Log!Init
              PROVE  LogInv
  OBVIOUS
<1>1. Lines(<<>>) = {} /\ Ascending(<<>>, torn) /\ <<>> \in Seq(Nat)
  BY DEF Lines, Ascending
<1>2. 1 .. 0 = {} /\ Held = {}
  BY DEF Log!Init, Held
<1>. QED  BY <1>1, <1>2 DEF Log!Init, LogInv, Before

\* A line that leaves the channel, the goroutine or the connection enters the
\* next one at its end, or is lost.
LEMMA LogStep == LogInv /\ [Log!Next]_(Log!vars) => LogInv'
<1>. SUFFICES ASSUME LogInv, [Log!Next]_(Log!vars)
              PROVE  LogInv'
  OBVIOUS
<1>. DEFINE R == Lines(received)
            K == Lines(socket)
            M == Held
            C == Lines(channel)
<1>t. /\ stdout \in Nat /\ message \in Nat
      /\ channel \in Seq(Nat) /\ socket \in Seq(Nat) /\ received \in Seq(Nat)
      /\ Ascending(received, torn) /\ Ascending(socket, torn) /\ Ascending(channel, torn)
  BY DEF LogInv
<1>i. /\ Before(R, K \cup M \cup C, torn) /\ Before(K, M \cup C, torn) /\ Before(M, C, torn)
      /\ 1 .. stdout = R \cup K \cup M \cup C \cup dropped \cup lost
  BY DEF LogInv
<1>e. Lines(<<>>) = {} /\ Ascending(<<>>, torn) /\ <<>> \in Seq(Nat)
  BY DEF Lines, Ascending
<1>1. CASE Log!Write
  <2>1. /\ stdout' = stdout + 1 /\ UNCHANGED <<message, begun, socket, received, lost, torn>>
        /\ \/ channel' = Append(channel, stdout + 1) /\ dropped' = dropped
           \/ channel' = channel /\ dropped' = dropped \cup {stdout + 1}
    BY <1>1 DEF Log!Write, Log!Enqueue, Log!senderVars
  <2>2. stdout + 1 \in Nat /\ 1 .. stdout + 1 = 1 .. stdout \cup {stdout + 1}
        /\ \A x \in 1 .. stdout : x < stdout + 1
    BY <1>t
  <2>3. Before(R \cup K \cup M \cup C, {stdout + 1}, torn)
    BY <1>i, <2>2 DEF Before, Follows
  <2>4. Held' = Held
    BY <2>1 DEF Held
  <2>5. CASE channel' = channel /\ dropped' = dropped \cup {stdout + 1}
    BY <1>t, <1>i, <2>1, <2>2, <2>4, <2>5 DEF LogInv
  <2>6. CASE channel' = Append(channel, stdout + 1) /\ dropped' = dropped
    <3>1. /\ channel' \in Seq(Nat) /\ Lines(channel') = C \cup {stdout + 1} /\ Ascending(channel', torn)
      <4>1. Before(C, {stdout + 1}, torn)
        BY <2>3 DEF Before
      <4>. QED  BY <1>t, <2>2, <2>6, <4>1, LinesOfAppend
    <3>2. /\ Before(R, K \cup M \cup Lines(channel'), torn) /\ Before(K, M \cup Lines(channel'), torn)
          /\ Before(M, Lines(channel'), torn)
      BY <1>i, <2>3, <3>1 DEF Before
    <3>3. 1 .. stdout' = R \cup K \cup M \cup Lines(channel') \cup dropped' \cup lost'
      BY <1>i, <2>1, <2>2, <2>6, <3>1
    <3>. QED  BY <1>t, <2>1, <2>2, <2>4, <3>1, <3>2, <3>3 DEF LogInv
  <2>. QED  BY <2>1, <2>5, <2>6
<1>2. CASE Log!Take
  <2>1. /\ message = 0 /\ channel # <<>> /\ message' = Head(channel) /\ channel' = Tail(channel)
        /\ UNCHANGED <<stdout, begun, socket, received, dropped, lost, torn>>
    BY <1>2 DEF Log!Take
  <2>2. /\ Head(channel) \in Nat /\ Tail(channel) \in Seq(Nat)
        /\ C = {Head(channel)} \cup Lines(Tail(channel))
        /\ Ascending(Tail(channel), torn) /\ Before({Head(channel)}, Lines(Tail(channel)), torn)
    BY <1>t, <2>1, LinesOfTail
  <2>3. Head(channel) # 0
    <3>1. Head(channel) \in 1 .. stdout
      BY <1>i, <2>2
    <3>. QED  BY <1>t, <3>1
  <2>4. Held = {} /\ Held' = {Head(channel)}
    BY <2>1, <2>3 DEF Held
  <2>5. /\ Before(R, K \cup Held' \cup Lines(channel'), torn) /\ Before(K, Held' \cup Lines(channel'), torn)
        /\ Before(Held', Lines(channel'), torn)
    BY <1>i, <2>1, <2>2, <2>4 DEF Before
  <2>6. 1 .. stdout' = R \cup K \cup Held' \cup Lines(channel') \cup dropped' \cup lost'
    BY <1>i, <2>1, <2>2, <2>4
  <2>. QED  BY <1>t, <2>1, <2>2, <2>5, <2>6 DEF LogInv
<1>3. CASE Log!Send
  <2>1. /\ message # 0 /\ message' = 0 /\ begun' = FALSE
        /\ UNCHANGED <<stdout, channel, received, dropped, torn>>
        /\ \/ socket' = Append(socket, message) /\ lost' = lost
           \/ socket' = socket /\ lost' = lost \cup {message}
    BY <1>3 DEF Log!Send
  <2>2. Held = {message} /\ Held' = {}
    BY <2>1 DEF Held
  <2>3. CASE socket' = socket /\ lost' = lost \cup {message}
    <3>1. /\ Before(R, K \cup Held' \cup C, torn) /\ Before(K, Held' \cup C, torn) /\ Before(Held', C, torn)
      BY <1>i, <2>2 DEF Before
    <3>2. 1 .. stdout' = R \cup K \cup Held' \cup C \cup dropped' \cup lost'
      BY <1>i, <2>1, <2>2, <2>3
    <3>. QED  BY <1>t, <2>1, <2>3, <3>1, <3>2 DEF LogInv
  <2>4. CASE socket' = Append(socket, message) /\ lost' = lost
    <3>1. Before(K, {message}, torn)
      BY <1>i, <2>2 DEF Before
    <3>2. socket' \in Seq(Nat) /\ Lines(socket') = K \cup {message} /\ Ascending(socket', torn)
      BY <1>t, <2>4, <3>1, LinesOfAppend
    <3>3. /\ Before(R, Lines(socket') \cup Held' \cup C, torn) /\ Before(Lines(socket'), Held' \cup C, torn)
          /\ Before(Held', C, torn)
      BY <1>i, <2>2, <3>2 DEF Before
    <3>4. 1 .. stdout' = R \cup Lines(socket') \cup Held' \cup C \cup dropped' \cup lost'
      BY <1>i, <2>1, <2>2, <2>4, <3>2
    <3>. QED  BY <1>t, <2>1, <3>2, <3>3, <3>4 DEF LogInv
  <2>. QED  BY <2>1, <2>3, <2>4
<1>4. CASE Log!Receive
  <2>1. /\ socket # <<>> /\ received' = Append(received, Head(socket)) /\ socket' = Tail(socket)
        /\ UNCHANGED <<stdout, channel, message, begun, dropped, lost, torn>>
    BY <1>4 DEF Log!Receive
  <2>2. /\ Head(socket) \in Nat /\ Tail(socket) \in Seq(Nat)
        /\ K = {Head(socket)} \cup Lines(Tail(socket))
        /\ Ascending(Tail(socket), torn) /\ Before({Head(socket)}, Lines(Tail(socket)), torn)
    BY <1>t, <2>1, LinesOfTail
  <2>3. Before(R, {Head(socket)}, torn)
    BY <1>i, <2>2 DEF Before
  <2>4. received' \in Seq(Nat) /\ Lines(received') = R \cup {Head(socket)} /\ Ascending(received', torn)
    BY <1>t, <2>1, <2>2, <2>3, LinesOfAppend
  <2>5. Held' = Held
    BY <2>1 DEF Held
  <2>6. /\ Before(Lines(received'), Lines(socket') \cup M \cup C, torn)
        /\ Before(Lines(socket'), M \cup C, torn) /\ Before(M, C, torn)
    BY <1>i, <2>1, <2>2, <2>4 DEF Before
  <2>7. 1 .. stdout' = Lines(received') \cup Lines(socket') \cup M \cup C \cup dropped' \cup lost'
    BY <1>i, <2>1, <2>2, <2>4
  <2>. QED  BY <1>t, <2>1, <2>2, <2>4, <2>5, <2>6, <2>7 DEF LogInv
<1>5. CASE Log!Break \/ Log!LogstashStops
  <2>1. /\ socket' = <<>> /\ lost' = lost \cup K /\ begun' = FALSE
        /\ UNCHANGED <<stdout, channel, message, dropped>>
        /\ \/ UNCHANGED <<received, torn>>
           \/ /\ begun /\ received' = Append(received, message) /\ torn' = torn \cup {message}
    BY <1>5 DEF Log!Break, Log!LogstashStops, Log!Disconnect, Log!ToSet, Lines
  <2>2. Held' = Held
    BY <2>1 DEF Held
  <2>3. CASE UNCHANGED <<received, torn>>
    <3>1. /\ Before(R, Lines(socket') \cup M \cup C, torn)
          /\ Before(Lines(socket'), M \cup C, torn) /\ Before(M, C, torn)
      BY <1>e, <1>i, <2>1 DEF Before
    <3>2. 1 .. stdout' = R \cup Lines(socket') \cup M \cup C \cup dropped' \cup lost'
      BY <1>e, <1>i, <2>1
    <3>. QED  BY <1>e, <1>t, <2>1, <2>2, <2>3, <3>1, <3>2 DEF LogInv
  <2>4. CASE begun /\ received' = Append(received, message) /\ torn' = torn \cup {message}
    <3>1. M = {message} /\ Before(R, {message}, torn)
      <4>1. M = {message}
        BY <2>4 DEF LogInv, Held
      <4>. QED  BY <1>i, <4>1 DEF Before
    <3>2. /\ received' \in Seq(Nat) /\ Lines(received') = R \cup {message}
          /\ Ascending(received', torn)
      BY <1>t, <2>4, <3>1, LinesOfAppend
    <3>3. /\ Ascending(received', torn') /\ Ascending(channel, torn') /\ Ascending(<<>>, torn')
      <4>1. torn \subseteq torn'
        BY <2>4
      <4>. QED  BY <1>e, <1>t, <3>2, <4>1, StillInOrder
    <3>4. /\ Before(R, M \cup C, torn') /\ Before(M, C, torn') /\ Before({message}, {message}, torn')
      <4>1. torn \subseteq torn' /\ Before(R, M \cup C, torn) /\ Before(M, C, torn)
        BY <1>i, <2>4 DEF Before
      <4>2. Before({message}, {message}, torn')
        BY <2>4 DEF Before, Follows
      <4>. QED  BY <4>1, <4>2, StillInOrder
    <3>5. /\ Before(Lines(received'), Lines(socket') \cup M \cup C, torn')
          /\ Before(Lines(socket'), M \cup C, torn')
      BY <1>e, <2>1, <3>1, <3>2, <3>4 DEF Before
    <3>6. 1 .. stdout' = Lines(received') \cup Lines(socket') \cup M \cup C \cup dropped' \cup lost'
      BY <1>e, <1>i, <2>1, <3>1, <3>2
    <3>. QED  BY <1>e, <1>t, <2>1, <2>2, <3>2, <3>3, <3>4, <3>5, <3>6 DEF LogInv
  <2>. QED  BY <2>1, <2>3, <2>4
<1>7. CASE Log!Begin
  BY <1>7 DEF Log!Begin, LogInv, Held
<1>6. CASE Log!Dial \/ Log!SendFails \/ Log!LogstashStarts \/ UNCHANGED Log!vars
  <2>1. UNCHANGED <<stdout, channel, message, begun, socket, received, dropped, lost, torn>>
    BY <1>6 DEF Log!Dial, Log!SendFails, Log!LogstashStarts, Log!vars, Log!senderVars
  <2>. QED  BY <2>1 DEF LogInv, Held
<1>. QED  BY <1>1, <1>2, <1>3, <1>4, <1>5, <1>6, <1>7 DEF Log!Next, Log!Sender, Log!Environment

\* Any number of lines, a channel of any size: what Logstash gets is in the order
\* of standard output, again only after a beginning of it, and what it does not get
\* found the channel full or was in a connection that broke.
THEOREM LinesAreAccountedFor == Log!Spec => []EveryLineAccountedFor
<1>1. LogInv => EveryLineAccountedFor
  <2>. SUFFICES ASSUME LogInv
                PROVE  Log!EveryLineAccountedFor
    BY DEF EveryLineAccountedFor
  <2>. DEFINE sending == IF message = 0 THEN <<>> ELSE <<message>>
              pipeline == received \o socket \o sending \o channel
  <2>1. sending \in Seq(Nat) /\ Ascending(sending, torn) /\ Lines(sending) = Held
    BY DEF LogInv, Ascending, Follows, Lines, Held
  <2>. HIDE DEF sending
  <2>2. /\ received \o socket \in Seq(Nat) /\ Ascending(received \o socket, torn)
        /\ Lines(received \o socket) = Lines(received) \cup Lines(socket)
    <3>1. Before(Lines(received), Lines(socket), torn)
      BY DEF LogInv, Before
    <3>. QED  BY <3>1, LinesOfConcat DEF LogInv
  <2>. DEFINE a == received \o socket
              b == a \o sending
  <2>3. b \in Seq(Nat) /\ Ascending(b, torn) /\ Lines(b) = Lines(received) \cup Lines(socket) \cup Held
    <3>1. Before(Lines(a), Lines(sending), torn)
      BY <2>1, <2>2 DEF LogInv, Before
    <3>. HIDE DEF a
    <3>2. a \in Seq(Nat) /\ Ascending(a, torn)
      BY <2>2 DEF a
    <3>3. Lines(a) = Lines(received) \cup Lines(socket)
      BY <2>2 DEF a
    <3>4. /\ a \o sending \in Seq(Nat) /\ Ascending(a \o sending, torn)
          /\ Lines(a \o sending) = Lines(a) \cup Lines(sending)
      BY ONLY <2>1, <3>1, <3>2, LinesOfConcat
    <3>. QED  BY <2>1, <3>3, <3>4
  <2>4. /\ b \o channel \in Seq(Nat) /\ Ascending(b \o channel, torn)
        /\ Lines(b \o channel) = Lines(received) \cup Lines(socket) \cup Held \cup Lines(channel)
    <3>1. Before(Lines(b), Lines(channel), torn)
      BY <2>3 DEF LogInv, Before
    <3>. HIDE DEF b
    <3>2. channel \in Seq(Nat) /\ Ascending(channel, torn)
      BY DEF LogInv
    <3>3. b \in Seq(Nat) /\ Ascending(b, torn)
      BY <2>3
    <3>4. /\ b \o channel \in Seq(Nat) /\ Ascending(b \o channel, torn)
          /\ Lines(b \o channel) = Lines(b) \cup Lines(channel)
      BY ONLY <3>1, <3>2, <3>3, LinesOfConcat
    <3>. QED  BY <2>3, <3>4
  <2>5. pipeline = b \o channel
    OBVIOUS
  <2>6. /\ \A i, j \in DOMAIN pipeline : i < j => Follows(pipeline[i], pipeline[j], torn)
        /\ 1 .. stdout = Log!ToSet(pipeline) \cup dropped \cup lost
    <3>. HIDE DEF pipeline, b
    <3>. QED  BY <2>4, <2>5 DEF LogInv, Ascending, Lines, Log!ToSet
  <2>. QED  BY <2>6 DEF Log!EveryLineAccountedFor, Follows, sending
<1>. QED  BY <1>1, LogInit, LogStep, PTL DEF Log!Spec

==============================================================================
