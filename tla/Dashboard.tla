------------------------------ MODULE Dashboard ------------------------------
(***************************************************************************)
(* driver/dashboard.rs, the part that touches a goal: one task serves one  *)
(* command at a time - the stops handle_request sends, and the operator's  *)
(* pause and resume, each of which takes several round trips.              *)
(***************************************************************************)
EXTENDS DriverState

Serving == dash.pc = "serving"

\* The reply reaches the goal only while it still waits for it; the stop itself
\* kills whatever program is running by now.
Reply(g, answer) ==
  task' = IF task[g].pc \in {"stopping", "reissue"}
          THEN [task EXCEPT ![g].stop = answer] ELSE task

ServeStop ==
  /\ Serving /\ dash.stops # <<>>
  /\ dash' = [dash EXCEPT !.stops = Tail(@)]
  /\ \/ /\ Reply(Head(dash.stops), "ok")
        /\ script' = Killed(script, robot.prog)
        /\ robot' = [prog |-> NoScript, held |-> FALSE]
     \/ /\ "dash_lost" \in Faults \/ robot.prog = NoScript
        /\ Reply(Head(dash.stops), "failed")
        /\ script' = Killed(script, robot.prog)
        /\ robot' = [prog |-> NoScript, held |-> FALSE]
     \/ /\ {"dash_lost", "stop_refused"} \intersect Faults # {}
        /\ Reply(Head(dash.stops), "failed")
        /\ UNCHANGED <<script, robot>>
  /\ UNCHANGED <<req, ds, cs, ss, backlog, client>>

\* pause_motion: the controller acknowledges and starts to decelerate ...
Pause ==
  /\ Serving /\ client.pauses < MaxPauses /\ MayIntervene
  /\ robot.prog # NoScript /\ ~ robot.held
  /\ dash' = [dash EXCEPT !.pc = "pausing"]
  /\ client' = [client EXCEPT !.pauses = @ + 1]
  /\ UNCHANGED <<req, ds, cs, task, ss, script, backlog, robot>>

\* ... the program it was running may have come to a hold, or to its end ...
HoldOutcomes ==
  {robot} \union (IF robot.prog = NoScript THEN {} ELSE {[robot EXCEPT !.held = TRUE]})

\* ... and the hold is latched once PAUSED is reported, or after a second anyway.
LatchPause ==
  /\ dash.pc = "pausing"
  /\ robot' \in HoldOutcomes
  /\ ds' = [ds EXCEPT !.motionPaused = TRUE]
  /\ dash' = [dash EXCEPT !.pc = "serving"]
  /\ UNCHANGED <<req, cs, task, ss, script, backlog, client>>

LosePause ==
  /\ dash.pc = "pausing" /\ "dash_lost" \in Faults
  /\ robot' \in HoldOutcomes
  /\ dash' = [dash EXCEPT !.pc = "serving"]
  /\ UNCHANGED <<req, ds, cs, task, ss, script, backlog, client>>

\* resume_motion: the latch and the resume_sender are read before "play" is sent.
Resume ==
  /\ Serving /\ ds.motionPaused
  /\ dash' = [dash EXCEPT !.pc = "playing", !.resume = ds.resumeSender]
  /\ UNCHANGED <<req, ds, cs, task, ss, script, backlog, robot, client>>

Resumed == dash' = [dash EXCEPT !.pc = "serving", !.resume = NoGoal]
LatchCleared == [ds EXCEPT !.motionPaused = FALSE]

\* The program runs again within 500 ms.
PlayResumes ==
  /\ dash.pc = "playing" /\ robot.prog # NoScript
  /\ robot' = [robot EXCEPT !.held = FALSE]
  /\ ds' = LatchCleared
  /\ Resumed
  /\ UNCHANGED <<req, cs, task, ss, script, backlog, client>>

\* It does not: the goal whose sender was read is told to re-issue itself.  The
\* program may still start after the wait is over.
PlayFallsBack ==
  /\ dash.pc = "playing"
  /\ \E held \in {robot.held, FALSE} : robot' = [robot EXCEPT !.held = held]
  /\ ds' = LatchCleared
  /\ task' = IF dash.resume = NoGoal \/ ~ Live(dash.resume) THEN task
             ELSE [task EXCEPT ![dash.resume].resume = TRUE]
  /\ Resumed
  /\ UNCHANGED <<req, cs, ss, script, backlog, client>>

LosePlay ==
  /\ dash.pc = "playing" /\ "dash_lost" \in Faults
  /\ \E held \in {robot.held, FALSE} : robot' = [robot EXCEPT !.held = held]
  /\ Resumed
  /\ UNCHANGED <<req, ds, cs, task, ss, script, backlog, client>>

DashboardNext ==
  \/ ServeStop
  \/ Pause \/ LatchPause \/ LosePause
  \/ Resume \/ PlayResumes \/ PlayFallsBack \/ LosePlay
==============================================================================
