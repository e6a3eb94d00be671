------------------------------ MODULE MCServer -------------------------------
(***************************************************************************)
(* A small instance of ServerProcess for TLC.  A behaviour exercises the   *)
(* end of the process or its log, while the other rests in its initial     *)
(* state: two requests, and five lines through a channel of two.           *)
(***************************************************************************)
EXTENDS ServerProcess

CONSTANTS r1, r2

VARIABLE part  \* "stop" or "log"

MCInit == part \in {"stop", "log"} /\ Init /\ Log!Init

MCNext ==
  /\ UNCHANGED part
  /\ \/ part = "stop" /\ Next /\ UNCHANGED logVars
     \/ part = "log" /\ Log!Next /\ UNCHANGED vars

MCSpec ==
  /\ MCInit /\ [][MCNext]_<<part, vars, logVars>>
  /\ part = "stop" => Fairness
  /\ part = "log" => Log!Fairness

\* The promise of the sender, in the behaviours in which it moves.
ChannelDrains == part = "log" => Log!ChannelDrains

=============================================================================
