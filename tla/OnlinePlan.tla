----------------------------- MODULE OnlinePlan -----------------------------
(***************************************************************************)
(* trajectory/online.rs and store.rs with the planner's place in           *)
(* command_server, beside bin/plan_trajectory.rs, a program of its own: an *)
(* optimal_trajectory request is planned from where the arm is, or replays *)
(* a trajectory that plan_trajectory has stored and that starts there;     *)
(* admission control comes after that.                                     *)
(*                                                                         *)
(* The planner reads nothing that another process writes, so the two plan  *)
(* one after the other here, with one set of variables.                    *)
(***************************************************************************)
EXTENDS Plan

CONSTANTS
  Requests,       \* sequences of waypoints the client may ask for
  ToolRequests,   \* and plan_trajectory
  Scalings,       \* global_velocity_scaling, in percent
  Starts,         \* where the arm may be taken by other goals, and stored plans start
  Patient,        \* whether the client waits for one goal before the next request
  MaxRequests,    \* bound: requests
  MaxRuns         \* bound: runs of plan_trajectory

ASSUME OnlineAssumption ==
  /\ Requests \subseteq Seq(PlanWaypoints) /\ ToolRequests \subseteq Seq(PlanWaypoints)
  /\ Scalings \subseteq Int /\ Starts \subseteq Configs
  /\ Patient \in BOOLEAN /\ MaxRequests \in Nat /\ MaxRuns \in Nat

VARIABLES
  origin,   \* whose plan it is: the client's, plan_trajectory's, or one from the file
  arm,      \* the joint state of the realtime stream, and whether a goal is moving it
  file,     \* the file of the trajectory's name, and how far it is written
  tool,     \* plan_trajectory: what it is storing
  saved,    \* history: the trajectories stored whole
  asked     \* requests so far

vars == <<planVars, origin, arm, file, tool, saved, asked>>
outside == <<origin, arm, file, tool, saved, asked>>

NoTrajectory == [configs |-> <<>>, planned |-> <<>>, blends |-> <<>>]
Trajectory == [configs |-> configs, planned |-> planned, blends |-> blends]

Init ==
  /\ request = [waypoints |-> <<>>, scaling |-> 0]
  /\ pc = "idle" /\ i = 0
  /\ configs = <<>> /\ followed = <<>> /\ planned = <<>> /\ blends = <<>> /\ error = NoError
  /\ origin = "client"
  /\ arm \in [at : Starts, moving : BOOLEAN]
  /\ file = [state |-> "none", kept |-> NoTrajectory]
  /\ tool = [pc |-> "idle", kept |-> NoTrajectory, runs |-> 0]
  /\ saved = {} /\ asked = 0

\* Another goal moves the arm, and ends; admission control holds the planned one back
\* until it has.
Move ==
  /\ arm.moving
  /\ arm' \in [at : Starts, moving : BOOLEAN]
  /\ UNCHANGED <<planVars, origin, file, tool, saved, asked>>

\* Nothing is kept of a plan once it has run or was refused.
DropPlan ==
  /\ pc' = "idle" /\ i' = 0 /\ error' = NoError /\ origin' = "client"
  /\ request' = [waypoints |-> <<>>, scaling |-> 0]
  /\ configs' = <<>> /\ followed' = <<>> /\ planned' = <<>> /\ blends' = <<>>

Refused ==
  /\ pc = "failed"
  /\ DropPlan
  /\ UNCHANGED <<arm, file, tool, saved, asked>>

\* plan::plan, from a start.
Begin(who, requests, start) ==
  /\ \E wps \in requests, s \in Scalings : request' = [waypoints |-> wps, scaling |-> s]
  /\ pc' = "check" /\ i' = 0 /\ error' = NoError
  /\ configs' = <<start>> /\ followed' = <<>> /\ planned' = <<>> /\ blends' = <<>>
  /\ origin' = who

------------------------------------------------------------------------------
(***************************************************************************)
(* The driver.                                                             *)
(***************************************************************************)
MayAsk == asked < MaxRequests /\ pc = "idle" /\ (Patient => ~ arm.moving)

\* trajectory_id empty: plan from the joints of this moment.
PlanHere ==
  /\ MayAsk
  /\ Begin("client", Requests, arm.at)
  /\ asked' = asked + 1
  /\ UNCHANGED <<arm, file, tool, saved>>

\* trajectory_id set.  The file has to be there and to parse, in this build's schema; what
\* it holds is not planned again, so the arm has to be where it begins.
Loads_Torn == file.state # "none"     \* mutant: what there is of it is taken
Loads == file.state = "whole"
StartMatches_Assumed == TRUE          \* mutant: no check_start_matches
StartMatches == file.kept.configs[1] = arm.at

Replay ==
  /\ MayAsk
  /\ origin' = "file"
  /\ UNCHANGED <<request, i, followed>>
  /\ IF Loads /\ StartMatches
     THEN /\ pc' = "planned" /\ error' = NoError
          /\ configs' = file.kept.configs /\ planned' = file.kept.planned
          /\ blends' = file.kept.blends
     ELSE /\ pc' = "failed" /\ error' = [kind |-> "NotReplayed", index |-> 0]
          /\ UNCHANGED <<configs, planned, blends>>
  /\ asked' = asked + 1
  /\ UNCHANGED <<arm, file, tool, saved>>

\* Admission control.
Admit ==
  /\ pc = "planned" /\ origin # "tool"
  /\ pc' = IF arm.moving THEN "failed" ELSE "admitted"
  /\ error' = IF arm.moving THEN [kind |-> "AlreadyRunning", index |-> 0] ELSE error
  /\ UNCHANGED <<request, i, configs, followed, planned, blends, outside>>

\* The admitted goal leaves the arm somewhere, and another client may start the next.
RunGoal ==
  /\ pc = "admitted"
  /\ arm' \in [at : Starts, moving : BOOLEAN]
  /\ DropPlan
  /\ UNCHANGED <<file, tool, saved, asked>>

------------------------------------------------------------------------------
(***************************************************************************)
(* plan_trajectory plan --input ... --name ...                             *)
(***************************************************************************)
ToolPlan ==
  /\ pc = "idle" /\ tool.pc = "idle" /\ tool.runs < MaxRuns
  /\ \E start \in Starts : Begin("tool", ToolRequests, start)
  /\ tool' = [tool EXCEPT !.runs = @ + 1]
  /\ UNCHANGED <<arm, file, saved, asked>>

\* fs::write truncates the file that is there and writes: what is in it meanwhile is some
\* of the waypoints, and does not parse.
FirstMoves(t, n) ==
  [configs |-> SubSeq(t.configs, 1, n + 1), planned |-> SubSeq(t.planned, 1, n),
   blends |-> SubSeq(t.blends, 1, n)]

OpenFile ==
  /\ pc = "planned" /\ origin = "tool"
  /\ \E n \in 0 .. Len(planned) - 1 :
       file' = [state |-> "torn", kept |-> FirstMoves(Trajectory, n)]
  /\ tool' = [tool EXCEPT !.pc = "write", !.kept = Trajectory]
  /\ DropPlan
  /\ UNCHANGED <<arm, saved, asked>>

\* --dry-run, or the directory or the file cannot be opened.
NotStored ==
  /\ pc = "planned" /\ origin = "tool"
  /\ DropPlan
  /\ UNCHANGED <<arm, file, tool, saved, asked>>

WriteFile ==
  /\ tool.pc = "write"
  /\ file' = [state |-> "whole", kept |-> tool.kept]
  /\ saved' = saved \union {tool.kept}
  /\ tool' = [tool EXCEPT !.pc = "idle", !.kept = NoTrajectory]
  /\ UNCHANGED <<planVars, origin, arm, asked>>

\* The disk is full, or the tool is killed.
WriteFails ==
  /\ tool.pc = "write"
  /\ tool' = [tool EXCEPT !.pc = "idle", !.kept = NoTrajectory]
  /\ UNCHANGED <<planVars, origin, arm, file, saved, asked>>

------------------------------------------------------------------------------
Next ==
  \/ PlanStep /\ UNCHANGED outside
  \/ Refused
  \/ Move
  \/ PlanHere
  \/ Replay
  \/ Admit
  \/ RunGoal
  \/ ToolPlan
  \/ OpenFile
  \/ NotStored
  \/ WriteFile
  \/ WriteFails

Spec == Init /\ [][Next]_vars

------------------------------------------------------------------------------
(***************************************************************************)
(* Properties.                                                             *)
(***************************************************************************)
Segments ==
  [q : Configs, linear : BOOLEAN, path : Seq(Configs), speed : [num : Nat, den : Nat \ {0}]]
Trajectories == [configs : Seq(Configs), planned : Seq(Segments), blends : Seq(Nat)]

\* Every variable of the planner stays in its type.
TypeOK ==
  /\ pc \in {"idle", "check", "resolve", "segment", "corner", "planned", "failed", "admitted"}
  /\ i \in Nat /\ asked \in 0 .. MaxRequests
  /\ Trajectory \in Trajectories /\ followed \in Seq(Configs)
  /\ Len(blends) = Len(planned)
  /\ origin \in {"client", "tool", "file"}
  /\ arm \in [at : Starts, moving : BOOLEAN]
  /\ file \in [state : {"none", "torn", "whole"}, kept : Trajectories]
  /\ tool \in [pc : {"idle", "write"}, kept : Trajectories, runs : 0 .. MaxRuns]

\* The blends at the two ends of a segment never overlap on it: an overlap makes the
\* controller skip the move (path.rs:26-33).
BlendsDoNotOverlap ==
  \A k \in 1 .. Len(blends) - 1 :
    blends[k] + blends[k + 1] <= 10 * Chord[<<configs[k + 1], configs[k + 2]>>]

\* The last move of a plan ends at rest, however the corners before it are blended
\* (plan.rs:297-299).
EndsAtRest == blends # <<>> => blends[Len(blends)] = 0

\* No joint is asked for more than its own limit on any segment, along a straight line at
\* every configuration it was followed through, whatever scaling the request's key held
\* (timing.rs:48-64, 97-110).
WithinLimits ==
  \A k \in 1 .. Len(planned) :
    LET seg == planned[k]
        d == Travel(configs[k], configs[k + 1])
    IN /\ seg.speed.num > 0
       /\ IF seg.linear
          THEN \A r \in Rates(seg.path, configs[k], configs[k + 1]) : \A j \in J :
                 r[j] * seg.speed.num <= 100 * VelocityMax[j] * seg.speed.den
          ELSE \A j \in J :
                 d[j] * seg.speed.num <= 100 * VelocityMax[j] * Longest(d) * seg.speed.den

\* A straight segment is followed from the waypoint before it, inside the position limits
\* and without flipping the wrist on the way: both ends in reach are not enough
\* (path.rs:207-209, 242).
StraightHoldsItsBranch ==
  \A k \in 1 .. Len(planned) :
    LET path == planned[k].path
    IN planned[k].linear =>
         /\ path[1] = configs[k] /\ \A n \in DOMAIN path : path[n] \in Limited
         /\ \A n \in 2 .. Len(path) : Distance(path[n], path[n - 1]) <= MaxJump

\* A trajectory is admitted only where it starts: planned from another place it traces
\* another path (online.rs:45-48, 69-74).
AdmittedAtItsStart == pc = "admitted" => arm.at = configs[1]

\* What is run by name is a trajectory that was stored whole, the one an operator has
\* reviewed: never what was there while it was written, or was left by a run that died
\* (online.rs:45-48, store.rs:102).
ReplayedAsStored == origin = "file" /\ pc \in {"planned", "admitted"} => Trajectory \in saved
==============================================================================
