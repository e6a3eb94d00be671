--------------------------- MODULE AsyncLogWriter ---------------------------
(***************************************************************************)
(* The log of a service (internal/platform/logging): every line goes to    *)
(* standard output and, when LOGSTASH_ADDR is set, through a bounded       *)
(* channel to a goroutine that keeps one TCP connection to Logstash.       *)
(*                                                                         *)
(* The connection is what the kernel and the network make of it: lines     *)
(* that were written to it may be lost when it breaks, and that it has     *)
(* broken is noticed later, by an error of a write that has sent a part    *)
(* of its line or none.  A part that has arrived when the connection ends  *)
(* Logstash takes for a line: it may lack the end of the line only.  Lines *)
(* are numbered in the order the logger wrote them; the handler of slog    *)
(* holds a mutex around a line.                                            *)
(***************************************************************************)
EXTENDS Naturals, Sequences, FiniteSets, SequencesExt

CONSTANTS
  QueueSize,   \* logstashQueueSize
  MaxLines,    \* bound of the model: lines that are logged
  MaxReceived  \* bound of the model: beginnings arrive among so many lines only

VARIABLES
  stdout,    \* how many lines have been written to standard output
  channel,   \* the lines that wait for the goroutine
  message,   \* the line that the goroutine is sending, 0: it waits for one
  begun,     \* a part of that line has been written to the connection
  conn,      \* "nil", "up", "broken"
  socket,    \* lines written to the connection and not yet received
  received,  \* the lines Logstash has received, or the beginnings of lines
  logstash,  \* whether Logstash accepts connections
  dropped,   \* history: lines for which the channel had no room
  lost,      \* history: lines written to a connection that broke
  torn       \* history: lines of which Logstash has received a beginning

senderVars == <<message, begun, conn, socket>>
vars == <<stdout, channel, senderVars, received, logstash, dropped, lost, torn>>

Init ==
  /\ stdout = 0 /\ channel = <<>> /\ message = 0 /\ begun = FALSE /\ conn = "nil"
  /\ socket = <<>> /\ received = <<>> /\ logstash = FALSE
  /\ dropped = {} /\ lost = {} /\ torn = {}

-----------------------------------------------------------------------------
\* The logger.

\* A send that never waits.
Enqueue(line) ==
  IF Len(channel) < QueueSize THEN channel' = Append(channel, line) /\ UNCHANGED dropped
                              ELSE dropped' = dropped \cup {line} /\ UNCHANGED channel

Write ==
  /\ stdout < MaxLines
  /\ stdout' = stdout + 1 /\ Enqueue(stdout + 1)
  /\ UNCHANGED <<senderVars, received, logstash, lost, torn>>

-----------------------------------------------------------------------------
\* The goroutine.

Take ==
  /\ message = 0 /\ channel # <<>>
  /\ message' = Head(channel) /\ channel' = Tail(channel)
  /\ UNCHANGED <<stdout, begun, conn, socket, received, logstash, dropped, lost, torn>>

\* A dial that fails sleeps and changes nothing.
Dial ==
  /\ message # 0 /\ conn = "nil" /\ logstash
  /\ conn' = "up"
  /\ UNCHANGED <<stdout, channel, message, begun, socket, received, logstash, dropped, lost, torn>>

\* A write that waits for room in the buffers after the first part of the line.
Begin ==
  /\ message # 0 /\ conn = "up" /\ ~begun
  /\ begun' = TRUE
  /\ UNCHANGED <<stdout, channel, message, conn, socket, received, logstash, dropped, lost, torn>>

\* A write to a connection that is up, or that is not known to be broken: then
\* the line is lost in the buffers of the kernel.
Send ==
  /\ message # 0 /\ conn # "nil"
  /\ message' = 0 /\ begun' = FALSE
  /\ IF conn = "up" THEN socket' = Append(socket, message) /\ UNCHANGED lost
                    ELSE lost' = lost \cup {message} /\ UNCHANGED socket
  /\ UNCHANGED <<stdout, channel, conn, received, logstash, dropped, torn>>

\* Fault: conn = nil is forgotten, and the closed connection is written to again.
SendFailsForEver ==
  /\ message # 0 /\ conn = "broken"
  /\ UNCHANGED vars

\* Fault: the line whose write has failed is given up.
SendFailsOnce ==
  /\ message # 0 /\ conn = "broken"
  /\ conn' = "nil" /\ message' = 0
  /\ UNCHANGED <<stdout, channel, begun, socket, received, logstash, dropped, lost, torn>>

\* The error of a write, whatever part of the line it has sent (Disconnect): the
\* message stays and is sent again from its start.
SendFails ==
  /\ message # 0 /\ conn = "broken"
  /\ conn' = "nil"
  /\ UNCHANGED <<stdout, channel, message, begun, socket, received, logstash, dropped, lost, torn>>

-----------------------------------------------------------------------------
\* Logstash and the network.

LogstashStarts ==
  /\ ~logstash
  /\ logstash' = TRUE
  /\ UNCHANGED <<stdout, channel, senderVars, received, dropped, lost, torn>>

Receive ==
  /\ conn = "up" /\ socket # <<>>
  /\ received' = Append(received, Head(socket)) /\ socket' = Tail(socket)
  /\ UNCHANGED <<stdout, channel, message, begun, conn, logstash, dropped, lost, torn>>

\* What was written to the connection and not received is gone with it; of a
\* line half written the beginning may have arrived, after all that was before.
Disconnect ==
  /\ conn' = IF conn = "up" THEN "broken" ELSE conn
  /\ socket' = <<>> /\ lost' = lost \cup ToSet(socket)
  /\ begun' = FALSE
  /\ \/ UNCHANGED <<received, torn>>
     \/ /\ begun /\ socket = <<>> /\ Len(received) < MaxReceived
        /\ received' = Append(received, message) /\ torn' = torn \cup {message}
  /\ UNCHANGED <<stdout, channel, message, dropped>>

Break == conn = "up" /\ Disconnect /\ UNCHANGED logstash

LogstashStops == logstash /\ Disconnect /\ logstash' = FALSE

-----------------------------------------------------------------------------

Sender == Take \/ Dial \/ Begin \/ Send \/ SendFails
Environment == LogstashStarts \/ LogstashStops \/ Receive \/ Break

Next == Write \/ Sender \/ Environment

Spec == Init /\ [][Next]_vars

\* The goroutine runs, a write to a broken connection fails in the end, and what
\* is written to a good one arrives.
Fairness ==
  /\ WF_vars(Take) /\ WF_vars(Dial) /\ WF_vars(Send /\ conn = "up") /\ WF_vars(SendFails)
  /\ WF_vars(Receive)

-----------------------------------------------------------------------------
(***************************************************************************)
(* Properties.                                                             *)
(***************************************************************************)

\* tcp_writer.go: what Logstash gets is what went to standard output, in its
\* order, over any number of connections and retries.  A line comes again only
\* after a beginning of it, of which the rest was not sent.  A line is missing
\* only because it found the channel full, or was in a connection that broke: a
\* retry gives nothing up.
EveryLineAccountedFor ==
  LET sending  == IF message = 0 THEN <<>> ELSE <<message>>
      pipeline == received \o socket \o sending \o channel
  IN  /\ \A i, j \in DOMAIN pipeline :
           i < j => \/ pipeline[i] < pipeline[j]
                    \/ pipeline[i] = pipeline[j] /\ pipeline[i] \in torn
      /\ 1..stdout = ToSet(pipeline) \cup dropped \cup lost

\* tcp_writer.go, run: once Logstash is there and connections hold, the channel is
\* emptied: the goroutine is never stuck with a dead connection, or one message.
ChannelDrains ==
  <>[]logstash /\ <>[][~Break]_vars => <>[](channel = <<>> /\ message = 0 /\ socket = <<>>)

=============================================================================
