---------------------------- MODULE HandleRequest ----------------------------
(***************************************************************************)
(* driver/handle_request.rs: the task that runs one admitted goal to a     *)
(* terminal state.  Tasks run on a pool of their own, so several can be    *)
(* alive, each between any two steps of the others.  They share one        *)
(* DriverState, and what they leave in it does not say whose it is.        *)
(*                                                                         *)
(* A receiver whose sender was dropped resolves too: a oneshot with an     *)
(* error, an mpsc recv() with None.  A sender is dropped when DriverState  *)
(* no longer holds it, which may be another task's doing.                  *)
(***************************************************************************)
EXTENDS DriverState

Goto(g, pc) == task' = [task EXCEPT ![g].pc = pc]
Finish(g, result) == task' = [task EXCEPT ![g].pc = "publish", ![g].result = result]

Script(g) == <<g, task[g].attempt>>

\* What the tokio::select! of the running goal sees as ready.
VerdictDropped(g) == task[g].verdict = "pending" /\ ds.goalSender # g
HandshakeDropped(g) ==
  task[g].handshake = "pending" /\ ds.handshakeSender # g /\ ss.handshake # g
CancelReady(g) == task[g].cancel \/ ds.cancelSender # g
ResumeReady(g) == task[g].resume \/ (ds.resumeSender # g /\ dash.resume # g)

(***************************************************************************)
(* One attempt: connect, install the channels, upload, handshake.          *)
(***************************************************************************)
Connect(g) ==
  /\ task[g].pc = "connect"
  /\ \/ Goto(g, "install")
     \/ "tcp_refused" \in Faults /\ Finish(g, "ABORTED")
  /\ UNCHANGED <<req, ds, cs, ss, dash, script, backlog, robot, client>>

Installed(g) ==
  [ds EXCEPT !.goalId = g, !.goalSender = g, !.handshakeSender = g,
             !.reissuing = FALSE]

InstallGoal(g) ==
  /\ task[g].pc = "install"
  /\ ds' = Installed(g)
  /\ task' = [task EXCEPT ![g].pc = "upload", ![g].verdict = "pending",
                          ![g].handshake = "pending"]
  /\ UNCHANGED <<req, cs, ss, dash, script, backlog, robot, client>>

\* The controller runs one program: the new one replaces whatever was running.
Upload(g) ==
  /\ task[g].pc = "upload"
  /\ Goto(g, "handshake")
  /\ script' = [Killed(script, robot.prog) EXCEPT
                  ![Script(g)] = [NewScript EXCEPT !.pc = "loaded", !.first = task[g].first]]
  /\ robot' = [prog |-> Script(g), held |-> FALSE]
  /\ UNCHANGED <<req, ds, cs, ss, dash, backlog, client>>

UploadFails_ReturnsEarly(g) ==      \* mutant: `?` instead of `break`, no teardown
  /\ task[g].pc = "upload" /\ "tcp_refused" \in Faults
  /\ Goto(g, "gone")
  /\ UNCHANGED <<req, ds, cs, ss, dash, script, backlog, robot, client>>

UploadFails(g) ==
  /\ task[g].pc = "upload" /\ "tcp_refused" \in Faults
  /\ Finish(g, "ABORTED")
  /\ UNCHANGED <<req, ds, cs, ss, dash, script, backlog, robot, client>>

HandshakeAnswered(g) ==
  /\ task[g].pc = "handshake"
  /\ \/ task[g].handshake = "yes" /\ Goto(g, "run")
     \/ (task[g].handshake = "no" \/ HandshakeDropped(g)) /\ Finish(g, "ABORTED")
  /\ UNCHANGED <<req, ds, cs, ss, dash, script, backlog, robot, client>>

\* HANDSHAKE_TIMEOUT.  Unless scripts may dial late, it outlasts every script that
\* is still going to dial back, or whose greeting is under way; it does not outlast
\* a pause that holds one.
HandshakeTimeout(g) ==
  /\ task[g].pc = "handshake" /\ task[g].handshake = "pending"
  /\ \/ "late_dial" \in Faults
     \/ robot.held
     \/ /\ script[Script(g)].link = "dropped" \/ Ended(Script(g))
        /\ ss.handshake # g
  /\ Finish(g, "ABORTED")
  /\ UNCHANGED <<req, ds, cs, ss, dash, script, backlog, robot, client>>

(***************************************************************************)
(* The wait on a running script: verdict, cancel or resume.                *)
(***************************************************************************)
VerdictResult_AnyResolves(g) == "SUCCEDED"     \* mutant: the bug the comment recalls
VerdictResult(g) == IF task[g].verdict = "ok" THEN "SUCCEDED" ELSE "ABORTED"

VerdictArrives(g) ==
  /\ task[g].verdict # "pending" \/ VerdictDropped(g)
  /\ Finish(g, VerdictResult(g))
  /\ UNCHANGED <<req, ds, cs, ss, dash, script, backlog, robot, client>>

RunningVerdict(g) == task[g].pc = "run" /\ VerdictArrives(g)

\* stop_script: a full channel answers None at once.
SendStop(g) == dash' = [dash EXCEPT !.stops = Append(@, g)]

CancelGoal(g) ==
  /\ task[g].pc = "run" /\ CancelReady(g)
  /\ \/ /\ SendStop(g)
        /\ task' = [task EXCEPT ![g].pc = "stopping", ![g].stop = "sent", ![g].cancel = FALSE]
     \/ /\ "queue_full" \in Faults
        /\ task' = [task EXCEPT ![g].pc = "publish", ![g].result = "ABORTED",
                                ![g].cancel = FALSE]
        /\ UNCHANGED dash
  /\ UNCHANGED <<req, ds, cs, ss, script, backlog, robot, client>>

StopReplied_AtOnce(g) == task[g].stop # "none"     \* mutant: the reply is not awaited
StopReplied(g) == task[g].stop \in {"ok", "failed"}

\* Any answer to the stop, a refusal included, ends the goal as cancelled.
StopAnswered(g) ==
  /\ task[g].pc = "stopping" /\ StopReplied(g)
  /\ Finish(g, "CANCELED")
  /\ UNCHANGED <<req, ds, cs, ss, dash, script, backlog, robot, client>>

\* The move can finish while the stop is still in flight; the stop is not recalled.
StoppingVerdict(g) == task[g].pc = "stopping" /\ VerdictArrives(g)

(***************************************************************************)
(* remaining_command: what is left to run, or a reason not to.             *)
(***************************************************************************)
ListLength(g) == IF Kind[g] = "trajectory" THEN Waypoints - task[g].first ELSE 0

Resumable_AnyKind(g) ==              \* mutant: a relative move is re-sent too
  ListLength(g) > 0 => ds.waypointsCompleted < ListLength(g)
Resumable(g) ==
  /\ Kind[g] # "relative"
  /\ ListLength(g) > 0 => ds.waypointsCompleted < ListLength(g)

\* The number of waypoints dropped from the list, and two off-by-ones.
Remaining_NextToo(g) == IF ListLength(g) = 0 THEN 0 ELSE ds.waypointsCompleted + 1
Remaining_OneBack(g) == ds.waypointsCompleted - 1
Remaining(g) == IF ListLength(g) = 0 THEN 0 ELSE ds.waypointsCompleted

\* Decides what is left to run before touching the robot: the goal is aborted when nothing
\* is, and when what is left does not render.
ResumeGoal(g) ==
  /\ task[g].pc = "run" /\ ResumeReady(g)
  /\ \/ task' = [task EXCEPT ![g].pc = "publish", ![g].result = "ABORTED",
                             ![g].resume = FALSE]
     \/ /\ Resumable(g) /\ task[g].attempt < MaxAttempts
        /\ task' = [task EXCEPT ![g].pc = "claim", ![g].resume = FALSE,
                                ![g].first = @ + Remaining(g)]
  /\ UNCHANGED <<req, ds, cs, ss, dash, script, backlog, robot, client>>

\* Claims the goal across the gap between two scripts and stops the paused one.
ClaimReissue(g) ==
  /\ task[g].pc = "claim"
  /\ ds' = [ds EXCEPT !.reissuing = TRUE]
  /\ \/ SendStop(g) /\ task' = [task EXCEPT ![g].pc = "reissue", ![g].stop = "sent"]
     \/ "queue_full" \in Faults /\ Goto(g, "drain") /\ UNCHANGED dash
  /\ UNCHANGED <<req, cs, ss, script, backlog, robot, client>>

ReissueStopped(g) ==
  /\ task[g].pc = "reissue" /\ StopReplied(g)
  /\ Goto(g, "drain")
  /\ UNCHANGED <<req, ds, cs, ss, dash, script, backlog, robot, client>>

Drained_AtOnce(g) == TRUE                      \* mutant: the old verdict is not awaited

\* The dead script's verdict has been consumed, or REISSUE_DRAIN_TIMEOUT is over:
\* a script that was not killed has nothing to report.
Drained(g) ==
  \/ task[g].verdict # "pending"
  \/ VerdictDropped(g)
  \/ ~ Ended(Script(g))
  \/ "drain_expires" \in Faults

NextAttempt(g) ==
  /\ task[g].pc = "drain" /\ Drained(g)
  /\ ds' = [ds EXCEPT !.waypointsCompleted = 0]
  /\ task' = [task EXCEPT ![g].pc = "connect", ![g].attempt = @ + 1, ![g].stop = "none"]
  /\ UNCHANGED <<req, cs, ss, dash, script, backlog, robot, client>>

(***************************************************************************)
(* The terminal state, then the teardown.                                  *)
(***************************************************************************)
\* A cancelled goal is published as succeeded.
TerminalState(result) == IF result = "ABORTED" THEN "failed" ELSE "succeeded"

Publish(g) ==
  /\ task[g].pc = "publish"
  /\ req' = [req EXCEPT !.state = TerminalState(task[g].result)]
  /\ task' = [task EXCEPT ![g].pc = "teardown",
                          ![g].answer = TerminalState(task[g].result)]
  /\ UNCHANGED <<ds, cs, ss, dash, script, backlog, robot, client>>

\* Everything a goal owns is cleared, whoever's it is by now.
TornDown ==
  [ds EXCEPT !.goalId = NoGoal, !.goalSender = NoGoal, !.handshakeSender = NoGoal,
             !.cancelSender = NoGoal, !.resumeSender = NoGoal,
             !.waypointsCompleted = 0, !.reissuing = FALSE, !.motionPaused = FALSE]

Teardown(g) ==
  /\ task[g].pc = "teardown"
  /\ ds' = TornDown
  /\ Goto(g, "gone")
  /\ UNCHANGED <<req, cs, ss, dash, script, backlog, robot, client>>

HandleRequestNext(g) ==
  \/ Connect(g) \/ InstallGoal(g) \/ Upload(g) \/ UploadFails(g)
  \/ HandshakeAnswered(g) \/ HandshakeTimeout(g)
  \/ RunningVerdict(g) \/ CancelGoal(g) \/ StopAnswered(g) \/ StoppingVerdict(g)
  \/ ResumeGoal(g) \/ ClaimReissue(g) \/ ReissueStopped(g) \/ NextAttempt(g)
  \/ Publish(g) \/ Teardown(g)
==============================================================================
