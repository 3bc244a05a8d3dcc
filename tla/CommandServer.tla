---------------------------- MODULE CommandServer ----------------------------
(***************************************************************************)
(* interfaces/command_server.rs: polls the request keys, hands a cancel to *)
(* the live goal, decides whether a request is admitted, and spawns its    *)
(* handle_request task.  It acts on the keys as it READ them, while the    *)
(* client, the goal tasks and the robot go on.                             *)
(***************************************************************************)
EXTENDS DriverState

\* SafetyMode::accepts_goal: NORMAL and REDUCED.
AcceptsGoal(mode) == mode \in {1, 2}

\* One tick: the keys are read in one MGET, and nothing happens unless one is set.
ReadRequestKeys ==
  /\ cs.pc = "idle"
  /\ req.cancel \/ req.trigger
  /\ cs' = [ pc |-> IF req.cancel THEN "cancel" ELSE "trigger", cancel |-> req.cancel,
             trigger |-> req.trigger, state |-> req.state, goal |-> req.goal ]
  /\ UNCHANGED <<req, ds, task, ss, dash, script, backlog, robot, client>>

CancelConsumed_Kept == req                     \* mutant: the flag is left set
CancelConsumed == [req EXCEPT !.cancel = FALSE]

\* Clears the flag, then takes the live goal's cancel_sender and signals it.
DeliverCancel ==
  /\ cs.pc = "cancel"
  /\ req' = CancelConsumed
  /\ cs' = [cs EXCEPT !.pc = IF cs.trigger THEN "trigger" ELSE "idle"]
  /\ ds' = [ds EXCEPT !.cancelSender = NoGoal]
  /\ task' = IF ds.cancelSender = NoGoal THEN task
             ELSE [task EXCEPT ![ds.cancelSender].cancel = TRUE]
  /\ UNCHANGED <<ss, dash, script, backlog, robot, client>>

\* Consumes the trigger.  A request_state that was not "initial" ends it there;
\* otherwise the parameters are read, looked up in TF, planned and rendered, and
\* any of that may refuse the request.
ConsumeTrigger ==
  /\ cs.pc = "trigger"
  /\ req' = [req EXCEPT !.trigger = FALSE]
  /\ \/ /\ cs.state # "initial"
        /\ cs' = NewCommandServer
     \/ /\ cs.state = "initial"
        /\ \E decision \in {"admit", "reject"} : cs' = [cs EXCEPT !.pc = decision]
  /\ UNCHANGED <<ds, task, ss, dash, script, backlog, robot, client>>

GoalRunning_IdOnly == ds.goalId # NoGoal       \* mutant: before `reissuing` existed
GoalRunning == ds.goalId # NoGoal \/ ds.reissuing

Rejected ==
  \/ ~ ds.connected
  \/ ds.motionPaused
  \/ ~ AcceptsGoal(ds.safetyMode)
  \/ GoalRunning

\* Admission control, under the lock.
Admit ==
  /\ cs.pc = "admit"
  /\ cs' = [cs EXCEPT !.pc = IF Rejected THEN "reject" ELSE "execute"]
  /\ UNCHANGED <<req, ds, task, ss, dash, script, backlog, robot, client>>

Reject_GoesOn ==                     \* mutant: no `continue` after fail_request
  /\ cs.pc = "reject"
  /\ req' = [req EXCEPT !.state = "failed"]
  /\ task' = [task EXCEPT ![cs.goal].answer = "failed"]
  /\ cs' = [cs EXCEPT !.pc = "execute"]
  /\ UNCHANGED <<ds, ss, dash, script, backlog, robot, client>>

\* fail_request: the reason, and request_state = failed.
Reject ==
  /\ cs.pc = "reject"
  /\ req' = [req EXCEPT !.state = "failed"]
  /\ task' = [task EXCEPT ![cs.goal].answer = "failed"]
  /\ cs' = NewCommandServer
  /\ UNCHANGED <<ds, ss, dash, script, backlog, robot, client>>

WriteExecuting ==
  /\ cs.pc = "execute"
  /\ req' = [req EXCEPT !.state = "executing"]
  /\ cs' = [cs EXCEPT !.pc = "install"]
  /\ UNCHANGED <<ds, task, ss, dash, script, backlog, robot, client>>

\* Installs the goal's cancel and resume senders and spawns its task.  goal_id is
\* still clear: the task sets it once it has connected to the robot.
SpawnGoal ==
  /\ cs.pc = "install"
  /\ ds' = [ds EXCEPT !.cancelSender = cs.goal, !.resumeSender = cs.goal,
                      !.waypointsCompleted = 0]
  /\ task' = [task EXCEPT ![cs.goal].pc = "connect"]
  /\ cs' = NewCommandServer
  /\ UNCHANGED <<req, ss, dash, script, backlog, robot, client>>

CommandServerNext ==
  \/ ReadRequestKeys
  \/ DeliverCancel
  \/ ConsumeTrigger
  \/ Admit
  \/ Reject
  \/ WriteExecuting
  \/ SpawnGoal
==============================================================================
