------------------------------- MODULE UrDriver -------------------------------
(***************************************************************************)
(* main.rs: the driver's tasks run side by side over one DriverState and   *)
(* one set of Redis keys, with the client and the controller around them.  *)
(***************************************************************************)
EXTENDS Client, CommandServer, HandleRequest, SocketServer, RealtimeReader,
        Dashboard, Controller

Init ==
  /\ req = SeededRequest
  /\ ds = NewDriverState
  /\ cs = NewCommandServer
  /\ task = [g \in Goals |-> NewTask]
  /\ ss = NewSocketServer
  /\ dash = NewDashboard
  /\ script = [s \in Scripts |-> NewScript]
  /\ backlog = <<>>
  /\ robot = [prog |-> NoScript, held |-> FALSE]
  /\ client = [submitted |-> {}, cancelled |-> {}, cancels |-> 0, pauses |-> 0]

\* One task of try_join! returning an error ends run() and every other task with
\* it; main() then runs again, over freshly seeded keys.  The client still waits
\* for the request it submitted last.
Restart ==
  /\ GreetFails
  /\ req' = [SeededRequest EXCEPT !.goal = req.goal]
  /\ ds' = NewDriverState
  /\ cs' = NewCommandServer
  /\ task' = [g \in Goals |-> IF Live(g) THEN [task[g] EXCEPT !.pc = "gone"] ELSE task[g]]
  /\ ss' = NewSocketServer
  /\ dash' = NewDashboard
  /\ script' = [s \in Scripts |-> IF script[s].link = "queued"
                                  THEN [script[s] EXCEPT !.link = "dropped"] ELSE script[s]]
  /\ backlog' = <<>>
  /\ UNCHANGED <<robot, client>>

Next ==
  \/ \E g \in Goals : ClientSubmit(g)
  \/ ClientCancel
  \/ CommandServerNext
  \/ \E g \in Goals : HandleRequestNext(g)
  \/ SocketServerNext
  \/ RealtimeReaderNext
  \/ DashboardNext
  \/ ControllerNext
  \/ Restart

Spec == Init /\ [][Next]_vars

------------------------------------------------------------------------------
(***************************************************************************)
(* Safety.                                                                 *)
(***************************************************************************)
\* A goal is between the script that was paused and the one that will finish it.
BetweenScripts(g) ==
  \/ task[g].pc \in {"reissue", "drain"}
  \/ task[g].attempt > 1 /\ task[g].pc \in {"connect", "install"}

\* It may have failed on the way there, and not yet have cleared the claim.
MayHoldClaim(g) ==
  \/ BetweenScripts(g)
  \/ task[g].attempt > 1 /\ task[g].pc \in {"publish", "teardown"}

\* Whatever makes admission control say "a goal is already running", and every
\* channel left in DriverState, belongs to a task that is still alive and will
\* clear it, so no order of failures leaves the driver refusing work for good
\* (handle_request.rs:96-98, socket_server.rs:130-134).
GuardIsOwned ==
  /\ \A field \in {"goalId", "goalSender", "handshakeSender", "cancelSender", "resumeSender"} :
       ds[field] # NoGoal => Live(ds[field])
  /\ ds.reissuing => \E g \in Goals : MayHoldClaim(g)

\* Only one goal runs at a time (README.md:110): no two tasks are both short of
\* their terminal state.
Unanswered(g) == Live(g) /\ task[g].pc # "teardown"
OneGoalAtATime == \A g, h \in Goals : Unanswered(g) /\ Unanswered(h) => g = h

\* A goal goes into its cancel path only if the client asked for that request to be
\* cancelled (command_server.rs:133-146, handle_request.rs:140).
CancelWasAsked == \A g \in Goals : task[g].pc = "stopping" => g \in client.cancelled

\* The count of finished waypoints a resume drops is one the running script has
\* really reached (structs.rs:77-81).
ProgressIsReal ==
  \A g \in Goals :
    task[g].pc = "run" => ds.waypointsCompleted <= script[Script(g)].at

\* A re-issued trajectory starts at or before the first waypoint its predecessor
\* did not reach: no waypoint is ever skipped (handle_request.rs:361-370).
NoWaypointSkipped ==
  \A g \in Goals : \A a \in 2 .. MaxAttempts :
    script[<<g, a>>].pc # "absent" =>
      script[<<g, a>>].first <= script[<<g, a - 1>>].first + script[<<g, a - 1>>].at

\* While a goal is between the script that was paused and the one that will finish it,
\* a request that comes is told "a goal is already running", although the socket of
\* the first script has closed and its goal_id is gone (structs.rs:88-92).
ReissueIsGuarded == (\E g \in Goals : BetweenScripts(g)) => GoalRunning

ScriptsOf(g) == {s \in Scripts : s[1] = g}

\* A goal is reported succeeded only after one of its scripts got to its end, or
\* after the client asked for the goal to be cancelled (handle_request.rs:146-151).
SuccessIsEarned ==
  \A g \in Goals :
    task[g].answer = "succeeded" =>
      \/ \E s \in ScriptsOf(g) : script[s].pc = "done"
      \/ g \in client.cancelled

\* Once a cancel has been answered the script is not running: one that may still be
\* running is an abort, not a clean cancel (handle_request.rs:315-317).
CancelStopsScript ==
  \A g \in Goals : task[g].result = "CANCELED" => Ended(Script(g))

\* A relative move drives its offset once, however often the goal is paused and
\* resumed (handle_request.rs:345-347).
RelativeMovesOnce ==
  \A s, t \in Scripts :
    /\ s[1] = t[1] /\ Kind[s[1]] = "relative"
    /\ script[s].link = "greeted" /\ script[t].link = "greeted"
    => s = t

\* While the robot is told to hold, a goal that is held exists: the latch does not
\* outlive the motion it was holding (README.md:242-245).
HoldHasGoal == ds.motionPaused => \E g \in Goals : Live(g)

------------------------------------------------------------------------------
(***************************************************************************)
(* Action properties.                                                      *)
(***************************************************************************)
\* What a verdict says is what its script did.
Backed(s, verdict) == IF verdict = "ok" THEN script[s].pc = "done" ELSE Ended(s)

\* The connection being read is of a script of this goal that reported by a line of its
\* own, and only its close is still to be read.
LateClose(g) ==
  ss.conn \in ScriptsOf(g) /\ Closed /\ script[ss.conn].pc \in {"done", "failed"}

\* A goal is judged by the script it is running, on that script's own connection and as
\* that script ended: a re-issued goal is not told what the script it had killed reports
\* (handle_request.rs:230-242).  Two things are outside of that: a safety mode that
\* aborts goals, and the close of an earlier script that had reported by itself while
\* it was being stopped, which can only fail the goal.
OwnVerdict ==
  [][\A g \in Goals :
       task'[g].verdict \notin {task[g].verdict, "pending"} =>
         \/ ss.conn = Script(g) /\ Backed(Script(g), task'[g].verdict)
         \/ task'[g].verdict = "failed" /\ (LateClose(g) \/ AbortsGoal(ds'.safetyMode))]_vars

------------------------------------------------------------------------------
(***************************************************************************)
(* The contract with the client, and liveness.                             *)
(***************************************************************************)
Contract == INSTANCE MotionRequest
              WITH asked <- client.submitted, current <- req.goal, state <- req.state,
                   answer <- [g \in Goals |-> task[g].answer]

\* The driver implements MotionRequest for a client that waits for its answer.
ImplementsContract == Contract!Spec

\* Tokio polls every ready task; the controller runs the program it was given; the
\* operator releases the holds he asked for.
Fairness ==
  /\ WF_vars(CommandServerNext)
  /\ \A g \in Goals : WF_vars(HandleRequestNext(g))
  /\ WF_vars(SocketServerNext)
  /\ WF_vars(ServeStop \/ LatchPause \/ PlayResumes \/ PlayFallsBack)
  /\ WF_vars(Resume)
  /\ \A s \in Scripts :
       WF_vars(Dial(s) \/ Echo(s) \/ GiveUp(s) \/ ReachWaypoint(s) \/ FinishMove(s))

FairSpec == Spec /\ Fairness

\* A request always reaches a terminal state (README.md:60-61), unless the driver was
\* started again under its task.
RequestTerminates ==
  \A g \in Goals :
    g \in client.submitted ~> task[g].answer # "none" \/ task[g].pc = "gone"
==============================================================================
