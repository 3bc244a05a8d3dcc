---------------------------- MODULE RealtimeReader ----------------------------
(***************************************************************************)
(* driver/realtime_reader.rs: the 30003 stream.  It publishes the safety   *)
(* mode and fails the active goal on every frame whose mode aborts one.    *)
(* The two locks of one frame have no await between them, and the only     *)
(* readers of safety_mode run on the same thread, so a frame is one step.  *)
(***************************************************************************)
EXTENDS DriverState

\* SafetyMode::aborts_goal: every stop, violation or fault.
AbortsGoal(mode) == mode \in {3, 5, 6, 7, 8, 9}

\* connect_loop, on start and after a failed read.  The mode of the last frame stays.
ConnectRealtime ==
  /\ ~ ds.connected
  /\ ds' = [ds EXCEPT !.connected = TRUE]
  /\ UNCHANGED <<req, cs, task, ss, dash, script, backlog, robot, client>>

LoseRealtime ==
  /\ "rt_lost" \in Faults /\ ds.connected
  /\ ds' = [ds EXCEPT !.connected = FALSE]
  /\ UNCHANGED <<req, cs, task, ss, dash, script, backlog, robot, client>>

AfterFrame(mode) ==
  IF AbortsGoal(mode)
  THEN [ds EXCEPT !.safetyMode = mode, !.goalSender = NoGoal, !.goalId = NoGoal]
  ELSE [ds EXCEPT !.safetyMode = mode]

ReadFrame ==
  /\ ds.connected
  /\ \E mode \in SafetyModes :
       /\ ds' = AfterFrame(mode)
       /\ task' = IF AbortsGoal(mode) /\ ds.goalSender # NoGoal
                  THEN [task EXCEPT ![ds.goalSender].verdict = "failed"]
                  ELSE task
  /\ UNCHANGED <<req, cs, ss, dash, script, backlog, robot, client>>

RealtimeReaderNext == ConnectRealtime \/ LoseRealtime \/ ReadFrame
==============================================================================
