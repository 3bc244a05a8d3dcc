----------------------------- MODULE DriverState -----------------------------
(***************************************************************************)
(* The state the driver's tasks share while they run motion requests: the  *)
(* request keys in Redis, the DriverState behind one mutex, the local      *)
(* state of each task, and the robot controller as the driver sees it.     *)
(*                                                                         *)
(* Every task of main.rs is a module that EXTENDS this one and defines its *)
(* actions; UrDriver composes them.  One action is one stretch of code     *)
(* between two awaits: everything under one lock, and the Redis or socket  *)
(* operation it awaits.                                                    *)
(***************************************************************************)
EXTENDS Integers, Sequences

CONSTANTS
  Goals,        \* the motion requests the client may submit, one uuid each
  NoGoal,       \* None, for every Option that would hold a goal or its sender
  Kind,         \* [Goals -> CommandKinds]: what each request asks for
  Waypoints,    \* length of a trajectory's waypoint list
  SafetyModes,  \* the realtime safety modes the controller reports
  MaxAttempts,  \* bound: scripts rendered for one goal (1 + re-issues)
  MaxCancels,   \* bound: times the client sets request_cancel
  MaxPauses,    \* bound: pauses the operator asks for
  MaxInterventions, \* bound: cancels and pauses together
  Patience,     \* when the client submits its next request, see Client
  Faults        \* which of FaultKinds the environment may show

CommandKinds == {"trajectory", "single", "relative"}

FaultKinds ==
  { "rt_lost",       \* the realtime stream drops
    "tcp_refused",   \* a connect or write to port 30003 fails
    "aborted",       \* the program is stopped from the pendant or the dashboard
    "late_dial",     \* a script dials back after its handshake timed out
    "greet_reset",   \* a script is gone when the goal id is written to it
    "queue_full",    \* the dashboard channel has no free slot
    "stop_refused",  \* the dashboard answers a stop with a failure
    "drain_expires", \* a killed script's verdict takes longer than 2 s
    "dash_lost"      \* the dashboard socket fails between two round trips
  }

Patiences == {"none", "terminal", "settled"}

ASSUME ConstantsAssumption ==
  /\ NoGoal \notin Goals
  /\ Kind \in [Goals -> CommandKinds]
  /\ Waypoints \in Nat
  /\ SafetyModes \subseteq Int
  /\ MaxAttempts \in Nat \ {0}
  /\ MaxCancels \in Nat
  /\ MaxPauses \in Nat /\ MaxInterventions \in Nat
  /\ Patience \in Patiences
  /\ Faults \subseteq FaultKinds

VARIABLES
  req,      \* Redis: the request_* keys of one robot
  ds,       \* struct DriverState, the fields that steer a goal
  cs,       \* command_server: where it is, and the keys it read
  task,     \* handle_request: one spawned task per admitted goal
  ss,       \* socket_server: the one script connection it is serving
  dash,     \* dashboard: the composite command it is in the middle of
  script,   \* every script sent to the controller, and its connection
  backlog,  \* script connections waiting for accept, oldest first
  robot,    \* the program the controller runs
  client    \* what the client and the operator have done so far

vars == <<req, ds, cs, task, ss, dash, script, backlog, robot, client>>

------------------------------------------------------------------------------
OptGoal == Goals \union {NoGoal}

\* A script is named by its goal and by the attempt that rendered it.
Scripts == Goals \X (1 .. MaxAttempts)
NoScript == <<NoGoal, 0>>
OptScript == Scripts \union {NoScript}

Terminal == {"succeeded", "failed"}
RequestStates == {"initial", "executing"} \union Terminal

Requests ==
  [trigger : BOOLEAN, cancel : BOOLEAN, state : RequestStates, goal : OptGoal]

\* goal_id and feedback_sender are always set and cleared together, so one field
\* stands for both; active_command is written and never read.
DriverStates ==
  [ connected          : BOOLEAN,
    safetyMode         : SafetyModes \union {0},
    goalId             : OptGoal,   \* goal_id and feedback_sender
    goalSender         : OptGoal,   \* whose goal_receiver the sender reaches
    handshakeSender    : OptGoal,
    cancelSender       : OptGoal,
    resumeSender       : OptGoal,
    motionPaused       : BOOLEAN,
    waypointsCompleted : Nat,
    reissuing          : BOOLEAN ]

\* DriverState::new
NewDriverState ==
  [ connected |-> FALSE, safetyMode |-> 0, goalId |-> NoGoal,
    goalSender |-> NoGoal, handshakeSender |-> NoGoal, cancelSender |-> NoGoal,
    resumeSender |-> NoGoal, motionPaused |-> FALSE, waypointsCompleted |-> 0,
    reissuing |-> FALSE ]

\* The request keys set_state seeds on every start of run().
SeededRequest ==
  [trigger |-> FALSE, cancel |-> FALSE, state |-> "initial", goal |-> NoGoal]

\* Where a handle_request task is; "absent" before it is spawned, "gone" after.
TaskPcs ==
  { "absent", "connect", "install", "upload", "handshake", "run", "stopping",
    "claim", "reissue", "drain", "publish", "teardown", "gone" }

Tasks ==
  [ pc        : TaskPcs,
    attempt   : 1 .. MaxAttempts,
    first     : Nat,                          \* waypoints already dropped
    verdict   : {"pending", "ok", "failed"},  \* in goal_receiver
    handshake : {"pending", "yes", "no"},     \* in handshake_receiver
    stop      : {"none", "sent", "ok", "failed"}, \* the stop's reply channel
    cancel    : BOOLEAN,                      \* a () in cancel_receiver
    resume    : BOOLEAN,                      \* a () in resume_receiver
    result    : {"none", "SUCCEDED", "CANCELED", "ABORTED"},
    answer    : {"none", "succeeded", "failed"} ]  \* history: the state published

NewTask ==
  [ pc |-> "absent", attempt |-> 1, first |-> 0, verdict |-> "pending",
    handshake |-> "pending", stop |-> "none", cancel |-> FALSE,
    resume |-> FALSE, result |-> "none", answer |-> "none" ]

Line(kind, n) == [kind |-> kind, n |-> n]
Lines == [kind : {"echo", "waypoint", "ok", "error"}, n : Nat]

\* pc is where the URScript program is; link is its socket as the server sees it.
ScriptPcs == {"absent", "loaded", "dialed", "moving", "done", "failed", "killed"}
ScriptStates ==
  [ pc    : ScriptPcs,
    link  : {"none", "queued", "accepted", "greeted", "dropped"},
    first : Nat,        \* index of its first waypoint in the request's list
    at    : Nat,        \* waypoints of its own list it has reached
    lines : Seq(Lines) ]

NewScript == [pc |-> "absent", link |-> "none", first |-> 0, at |-> 0, lines |-> <<>>]

\* The dashboard task: the composite it is in, its clone of resume_sender, and the
\* stops waiting in its command channel.
Dashboards == [pc : {"serving", "pausing", "playing"}, resume : OptGoal, stops : Seq(Goals)]
NewDashboard == [pc |-> "serving", resume |-> NoGoal, stops |-> <<>>]

CommandServers ==
  [ pc : {"idle", "cancel", "trigger", "admit", "execute", "install", "reject"},
    cancel : BOOLEAN, trigger : BOOLEAN, state : RequestStates, goal : OptGoal ]
NewCommandServer ==
  [pc |-> "idle", cancel |-> FALSE, trigger |-> FALSE, state |-> "initial", goal |-> NoGoal]

SocketServers ==
  [pc : {"accept", "greet", "echo", "read"}, conn : OptScript, handshake : OptGoal]
NewSocketServer == [pc |-> "accept", conn |-> NoScript, handshake |-> NoGoal]

Robots == [prog : OptScript, held : BOOLEAN]

\* History of the environment: what was submitted, which requests the client asked
\* to cancel, and how much of each bound is spent.
Clients ==
  [ submitted : SUBSET Goals, cancelled : SUBSET Goals,
    cancels : 0 .. MaxCancels, pauses : 0 .. MaxPauses ]

TypeOK ==
  /\ req \in Requests
  /\ ds \in DriverStates
  /\ cs \in CommandServers
  /\ task \in [Goals -> Tasks]
  /\ ss \in SocketServers
  /\ dash \in Dashboards
  /\ script \in [Scripts -> ScriptStates]
  /\ backlog \in Seq(Scripts)
  /\ robot \in Robots
  /\ client \in Clients

\* Bounds how often the client and the operator step in.
MayIntervene == client.cancels + client.pauses < MaxInterventions

Live(g) == task[g].pc \notin {"absent", "gone"}
Ended(s) == script[s].pc \in {"done", "failed", "killed"}

\* The end of a program closes its socket; what it had sent can still be read.
Killed(scripts, s) ==
  IF s \in Scripts THEN [scripts EXCEPT ![s].pc = "killed"] ELSE scripts
==============================================================================
