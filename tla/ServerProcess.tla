---------------------------- MODULE ServerProcess ----------------------------
(***************************************************************************)
(* What the process of a service has beside its requests: its end          *)
(* (ServerShutdown) and its log (AsyncLogWriter).  They share nothing: the *)
(* logger never makes a handler wait, and nothing flushes the log when the *)
(* process ends.                                                           *)
(***************************************************************************)
EXTENDS ServerShutdown

CONSTANTS QueueSize, MaxLines, MaxReceived

VARIABLES stdout, channel, message, begun, conn, socket, received, logstash, dropped, lost, torn

Log == INSTANCE AsyncLogWriter

logVars == <<stdout, channel, message, begun, conn, socket, received, logstash, dropped, lost, torn>>

\* tcp_writer.go: what AsyncLogWriter promises of the lines, as a property
\* of the process.
EveryLineAccountedFor == Log!EveryLineAccountedFor

==============================================================================
