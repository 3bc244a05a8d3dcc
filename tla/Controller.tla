------------------------------ MODULE Controller ------------------------------
(***************************************************************************)
(* The UR controller, as far as this driver can tell: it runs one program, *)
(* the script sent last.  What the script does comes from the text         *)
(* tools/generate_ur_script.rs wraps around every template and from the    *)
(* trajectory templates; what a pause or a stop does to it comes from the  *)
(* dashboard and handle_request code that relies on it.                    *)
(***************************************************************************)
EXTENDS DriverState

Running(s) == robot.prog = s /\ ~ robot.held

\* How many waypoints a script moves through.
ScriptLength(s) ==
  IF Kind[s[1]] = "trajectory" THEN Waypoints - script[s].first ELSE 0

Send(s, pc, line) ==
  script' = [script EXCEPT ![s].pc = pc, ![s].lines = Append(@, line)]

Stopped == robot' = [prog |-> NoScript, held |-> FALSE]

\* socket_open: the connection waits in the listener's backlog.
Dial(s) ==
  /\ Running(s) /\ script[s].pc = "loaded"
  /\ script' = [script EXCEPT ![s].pc = "dialed", ![s].link = "queued"]
  /\ backlog' = Append(backlog, s)
  /\ UNCHANGED <<req, ds, cs, task, ss, dash, robot, client>>

\* The line it reads is echoed whatever it says, and the move starts.
Echo(s) ==
  /\ Running(s) /\ script[s].pc = "dialed" /\ script[s].link = "greeted"
  /\ Send(s, "moving", Line("echo", 0))
  /\ UNCHANGED <<req, ds, cs, task, ss, dash, backlog, robot, client>>

\* An empty read - dropped, or nothing within 1 s because the driver is still busy
\* with another connection - and the script ends without moving.
GiveUp(s) ==
  /\ Running(s) /\ script[s].pc = "dialed"
  /\ \/ script[s].link = "dropped"
     \/ script[s].link = "queued" /\ ss.pc # "accept"
  /\ script' = [script EXCEPT ![s].pc = "killed"]
  /\ Stopped
  /\ UNCHANGED <<req, ds, cs, task, ss, dash, backlog, client>>

ReachWaypoint(s) ==
  /\ Running(s) /\ script[s].pc = "moving" /\ script[s].at < ScriptLength(s)
  /\ script' = [script EXCEPT ![s].at = @ + 1,
                              ![s].lines = Append(@, Line("waypoint", script[s].at))]
  /\ UNCHANGED <<req, ds, cs, task, ss, dash, backlog, robot, client>>

FinishMove(s) ==
  /\ Running(s) /\ script[s].pc = "moving"
  /\ \/ script[s].at = ScriptLength(s) /\ Send(s, "done", Line("ok", 0))
     \/ Send(s, "failed", Line("error", 0))
  /\ Stopped
  /\ UNCHANGED <<req, ds, cs, task, ss, dash, backlog, client>>

\* A stop or an abort on the pendant, a dashboard stop from elsewhere, a safety
\* stop that ends the program; before it has dialed, a host it cannot reach.
KillProgram ==
  /\ "aborted" \in Faults /\ robot.prog # NoScript
  /\ script' = Killed(script, robot.prog)
  /\ Stopped
  /\ UNCHANGED <<req, ds, cs, task, ss, dash, backlog, client>>

ControllerNext ==
  \/ \E s \in Scripts :
       Dial(s) \/ Echo(s) \/ GiveUp(s) \/ ReachWaypoint(s) \/ FinishMove(s)
  \/ KillProgram
==============================================================================
