----------------------------- MODULE SocketServer -----------------------------
(***************************************************************************)
(* driver/socket_server.rs: accepts the connections scripts open back to   *)
(* the driver, one at a time.  A connection is tied to a goal only by the  *)
(* DriverState at that moment: the goal id it greets with, the             *)
(* handshake_sender it takes, and, for every line after that, whichever    *)
(* goal_sender is installed when the line is read.                         *)
(***************************************************************************)
EXTENDS DriverState

\* Resolves the installed goal_sender, if there is one.
Resolve(verdict) ==
  IF ds.goalSender = NoGoal THEN task
  ELSE [task EXCEPT ![ds.goalSender].verdict = verdict]

Expected == ds.handshakeSender # NoGoal /\ ds.goalId # NoGoal

\* A connection nobody expects is dropped; otherwise its goal's handshake_sender
\* is taken.
Accept ==
  /\ ss.pc = "accept" /\ backlog # <<>>
  /\ backlog' = Tail(backlog)
  /\ IF Expected
     THEN /\ ss' = [pc |-> "greet", conn |-> Head(backlog), handshake |-> ds.handshakeSender]
          /\ ds' = [ds EXCEPT !.handshakeSender = NoGoal]
          /\ script' = [script EXCEPT ![Head(backlog)].link = "accepted"]
     ELSE /\ script' = [script EXCEPT ![Head(backlog)].link = "dropped"]
          /\ UNCHANGED <<ss, ds>>
  /\ UNCHANGED <<req, cs, task, dash, robot, client>>

\* Writes the goal id on the connection.
Greet ==
  /\ ss.pc = "greet"
  /\ ss' = [ss EXCEPT !.pc = "echo"]
  /\ script' = [script EXCEPT ![ss.conn].link = "greeted"]
  /\ UNCHANGED <<req, ds, cs, task, dash, backlog, robot, client>>

\* Writing to a connection its script has already left may fail, which ends the
\* task and with it every task of the driver (UrDriver!Restart).
GreetFails == "greet_reset" \in Faults /\ ss.pc = "greet" /\ Ended(ss.conn)

Received == script[ss.conn].lines # <<>>
Closed == script[ss.conn].lines = <<>> /\ Ended(ss.conn)
Consume == script' = [script EXCEPT ![ss.conn].lines = Tail(@)]

\* The script echoes the goal id it was sent; anything else fails the handshake.
\* Either way the connection is read on.
ReadEcho ==
  /\ ss.pc = "echo"
  /\ \/ /\ Received /\ Consume
        /\ task' = [task EXCEPT ![ss.handshake].handshake =
                      IF Head(script[ss.conn].lines).kind = "echo" THEN "yes" ELSE "no"]
     \/ /\ Closed
        /\ task' = [task EXCEPT ![ss.handshake].handshake = "no"]
        /\ UNCHANGED script
  /\ ss' = [ss EXCEPT !.pc = "read", !.handshake = NoGoal]
  /\ UNCHANGED <<req, ds, cs, dash, backlog, robot, client>>

VerdictOf_Any(line) == "ok"                    \* mutant: "error" resolves it as well
VerdictOf(line) == IF line.kind = "ok" THEN "ok" ELSE "failed"

\* "ok", "error" and "waypoint_reached <n>"; feedback lines change no state here.
ReadLine ==
  /\ ss.pc = "read" /\ Received /\ Consume
  /\ LET line == Head(script[ss.conn].lines) IN
     \/ /\ line.kind \in {"ok", "error"}
        /\ task' = Resolve(VerdictOf(line))
        /\ ds' = [ds EXCEPT !.goalSender = NoGoal]
     \/ /\ line.kind = "waypoint"
        /\ ds' = [ds EXCEPT !.waypointsCompleted = line.n + 1]
        /\ UNCHANGED task
  /\ UNCHANGED <<req, cs, ss, dash, backlog, robot, client>>

ReadClose_Silent ==                  \* mutant: the loop over the lines just ends
  /\ ss.pc = "read" /\ Closed
  /\ ss' = NewSocketServer
  /\ UNCHANGED <<req, ds, cs, task, dash, script, backlog, robot, client>>

\* The script's end without a verdict resolves the goal, so that no task waits on
\* it forever.
AfterClose == [ds EXCEPT !.goalSender = NoGoal, !.goalId = NoGoal]

ReadClose ==
  /\ ss.pc = "read" /\ Closed
  /\ task' = Resolve("failed")
  /\ ds' = AfterClose
  /\ ss' = NewSocketServer
  /\ UNCHANGED <<req, cs, dash, script, backlog, robot, client>>

SocketServerNext == Accept \/ Greet \/ ReadEcho \/ ReadLine \/ ReadClose
==============================================================================
