---------------------------- MODULE RequestIntake ----------------------------
(***************************************************************************)
(* How command_server.rs turns the request keys into a command, and what   *)
(* is written when it cannot: the keys are read once, the request decoded, *)
(* its frames looked up one await at a time while the TF tree moves, and   *)
(* every refusal goes through fail_request, which the goal tasks use too.  *)
(*                                                                         *)
(* A goal's task is here only what it writes in Redis; HandleRequest has   *)
(* the rest of it, CommandServer the delivery of a cancel.                 *)
(***************************************************************************)
EXTENDS Integers, Sequences, SequencesExt

CONSTANTS
  Goals,       \* the requests the client may submit
  NoGoal,
  Ask,         \* [Goals -> Commands]: the parameters of each request
  Frames,      \* goal frames in the TF tree
  Tool,        \* the TCP frame, in the tree too
  Poses,       \* the poses a frame may have there
  Trees,       \* the TF trees there may be at the start
  Absent,      \* no frame of that name in the tree
  Identity,    \* SPTransform::default, what a target is before it is looked up
  NoName,      \* a waypoint's goal_feature_id that is not there
  Clients,     \* when a client may submit its next request, as Patience in Client
  MaxStored,   \* bound: joint targets in a stored trajectory
  MaxRequests, \* bound: requests the client submits
  MaxMoves,    \* bound: changes of the TF tree
  MaxStray     \* bound: triggers a client raises without resetting request_state

\* How one element of a numeric array is written in Redis.
Elements == {"float", "int", "other"}

\* One entry of waypoints: how its target is given, and its joint_positions.
RawWaypoints ==
  [by : {"frame", "joints", "relative"}, frame : Frames \union {NoName}, joints : Seq(Elements)]

Commands ==
  [ readable  : BOOLEAN,             \* every request key is there and deserializes
    known     : BOOLEAN,             \* there is a template of that name
    looksUp   : BOOLEAN,             \* its own target is a frame
    frame     : Frames,
    planner   : {"none", "plan", "stored"},  \* optimal_trajectory; "stored": trajectory_id is set
    aList     : BOOLEAN,             \* waypoints is an array, or UNKNOWN
    waypoints : Seq(RawWaypoints) ]

ASSUME IntakeAssumption ==
  /\ NoGoal \notin Goals /\ "server" \notin Goals
  /\ Ask \in [Goals -> Commands]
  /\ Tool \notin Frames /\ NoName \notin Frames
  /\ {Absent, Identity} \intersect Poses = {} /\ Absent # Identity
  /\ Trees \subseteq [Frames \union {Tool} -> Poses \union {Absent}]
  /\ Clients \subseteq {"none", "terminal", "settled"}
  /\ MaxStored \in Nat \ {0}
  /\ MaxRequests \in Nat /\ MaxMoves \in Nat /\ MaxStray \in [Clients -> Nat]

VARIABLES
  keys,      \* Redis: request_trigger, request_state, request_result
  counters,  \* Redis: total_fail_counter and subsequent_fail_counter
  tf,        \* Redis: the TF tree
  server,    \* command_server, what it has made of the request so far and, as
             \* history, the poses every frame has had since it read the request
  task,      \* where the task of each goal is
  goalId,    \* DriverState.goal_id
  failing,   \* fail_request, in each task that may be inside it; counted is history
  history    \* what was asked, seen and answered

vars == <<keys, counters, tf, server, task, goalId, failing, history>>

Places == Frames \union {Tool}
Callers == Goals \union {"server"}
Terminal == {"succeeded", "failed"}

NewServer ==
  [pc |-> "poll", id |-> NoGoal, state |-> "initial", target |-> Identity, tcp |-> Identity,
   pose |-> Identity, done |-> <<>>, seen |-> [p \in Places |-> {}]]
NotFailing == [pc |-> "no", total |-> 0, streak |-> 0, counted |-> TRUE]

Init ==
  /\ keys = [trigger |-> FALSE, state |-> "initial", id |-> NoGoal, result |-> NoGoal]
  /\ counters = [total |-> 0, streak |-> 0]
  /\ tf \in Trees
  /\ server = NewServer
  /\ task = [g \in Goals |-> "absent"]
  /\ goalId = NoGoal
  /\ failing = [c \in Callers |-> NotFailing]
  /\ \E patience \in Clients :
       history = [patience |-> patience, asked |-> {}, moves |-> 0, stray |-> 0,
                  failed |-> 0, recent |-> 0]

------------------------------------------------------------------------------
(***************************************************************************)
(* The client and whoever publishes frames.                                *)
(***************************************************************************)
Answered == keys.id = NoGoal \/ keys.state \in Terminal
AllGone == \A g \in Goals : task[g] \in {"absent", "gone"}

\* At any time the trigger is not set; once the last request has its answer; or once
\* the task of that goal is gone too.
Waits == history.patience # "none"
Submit(g) ==
  /\ ~ keys.trigger
  /\ Waits => Answered
  /\ history.patience = "settled" => AllGone
  /\ g \notin history.asked /\ Cardinality(history.asked) < MaxRequests
  /\ keys' = [keys EXCEPT !.trigger = TRUE, !.state = "initial", !.id = g]
  /\ history' = [history EXCEPT !.asked = @ \union {g}]
  /\ UNCHANGED <<counters, tf, server, task, goalId, failing>>

\* A trigger with request_state left as it is.
StrayTrigger ==
  /\ ~ keys.trigger /\ keys.state # "initial"
  /\ history.stray < MaxStray[history.patience]
  /\ keys' = [keys EXCEPT !.trigger = TRUE]
  /\ history' = [history EXCEPT !.stray = @ + 1]
  /\ UNCHANGED <<counters, tf, server, task, goalId, failing>>

\* The request has been read and is not yet settled.
Preparing == server.pc \notin {"poll", "failing", "execute", "spawn"}

MoveFrame(p, pose) ==
  /\ history.moves < MaxMoves /\ tf[p] # pose
  /\ tf' = [tf EXCEPT ![p] = pose]
  /\ history' = [history EXCEPT !.moves = @ + 1]
  /\ server' = IF Preparing THEN [server EXCEPT !.seen[p] = @ \union {pose}] ELSE server
  /\ UNCHANGED <<keys, counters, task, goalId, failing>>

------------------------------------------------------------------------------
(***************************************************************************)
(* fail_request: one await per line.                                       *)
(***************************************************************************)
Subject(c) == IF c = "server" THEN server.id ELSE c
Goto(c, pc) == failing' = [failing EXCEPT ![c].pc = pc]

\* Both counters in one MGET; without them neither is written.
CountersRead(c) ==
  /\ failing[c].pc = "read"
  /\ failing' \in
       {[failing EXCEPT ![c].pc = "total", ![c].total = counters.total,
                        ![c].streak = counters.streak],
        [failing EXCEPT ![c].pc = "result", ![c].counted = FALSE]}

ReadCounters_Answers(c) ==           \* mutant: the state before the counters
  /\ CountersRead(c)
  /\ keys' = [keys EXCEPT !.state = "failed"]
  /\ UNCHANGED <<counters, tf, server, task, goalId, history>>
ReadCounters(c) ==
  /\ CountersRead(c)
  /\ UNCHANGED <<keys, counters, tf, server, task, goalId, history>>

WriteTotal(c) ==
  /\ failing[c].pc = "total"
  /\ counters' = [counters EXCEPT !.total = failing[c].total + 1]
  /\ Goto(c, "streak")
  /\ UNCHANGED <<keys, tf, server, task, goalId, history>>

WriteStreak(c) ==
  /\ failing[c].pc = "streak"
  /\ counters' = [counters EXCEPT !.streak = failing[c].streak + 1]
  /\ Goto(c, "result")
  /\ UNCHANGED <<keys, tf, server, task, goalId, history>>

WriteResult_Lost(c) ==               \* mutant: only the state is written
  /\ failing[c].pc = "result"
  /\ Goto(c, "state")
  /\ UNCHANGED <<keys, counters, tf, server, task, goalId, history>>
WriteResult(c) ==
  /\ failing[c].pc = "result"
  /\ keys' = [keys EXCEPT !.result = Subject(c)]
  /\ Goto(c, "state")
  /\ UNCHANGED <<counters, tf, server, task, goalId, history>>

\* What the counters should be after this answer; a failure whose counters could not be
\* read is not counted.
Answer(state, new) ==
  /\ keys' = [keys EXCEPT !.state = state]
  /\ history' = [history EXCEPT !.failed = @ + new,
                                !.recent = IF state = "succeeded" THEN 0 ELSE @ + new]

\* request_state last; the caller goes on: the poll, or the task's teardown.
WriteFailed(c) ==
  /\ failing[c].pc = "state"
  /\ Answer("failed", IF failing[c].counted THEN 1 ELSE 0)
  /\ failing' = [failing EXCEPT ![c] = NotFailing]
  /\ IF c = "server" THEN server' = NewServer /\ UNCHANGED task
                     ELSE task' = [task EXCEPT ![c] = "teardown"] /\ UNCHANGED server
  /\ UNCHANGED <<counters, tf, goalId>>

FailRequest(c) ==
  ReadCounters(c) \/ WriteTotal(c) \/ WriteStreak(c) \/ WriteResult(c) \/ WriteFailed(c)

------------------------------------------------------------------------------
(***************************************************************************)
(* command_server.                                                         *)
(***************************************************************************)
Ours == Ask[server.id]
Handing == server.pc \in {"execute", "spawn"}
At(pc) == server' = [server EXCEPT !.pc = pc]

Refuse_Silent ==                     \* mutant: `continue` without fail_request
  server' = NewServer /\ UNCHANGED failing
Refuse ==
  /\ At("failing")
  /\ Goto("server", "read")

\* One tick: every key in one MGET.
ReadRequest ==
  /\ server.pc = "poll" /\ keys.trigger
  /\ server' = [NewServer EXCEPT !.pc = "consume", !.id = keys.id, !.state = keys.state,
                               !.seen = [p \in Places |-> {tf[p]}]]
  /\ UNCHANGED <<keys, counters, tf, task, goalId, failing, history>>

\* A request_state that was not "initial" ends it here, unanswered.
ConsumeTrigger ==
  /\ server.pc = "consume"
  /\ keys' = [keys EXCEPT !.trigger = FALSE]
  /\ IF server.state = "initial" THEN At("decode") ELSE server' = NewServer
  /\ UNCHANGED <<counters, tf, task, goalId, failing, history>>

\* A missing key, or no such template; then the scalars, which have defaults.
CheckCommand ==
  /\ server.pc = "decode"
  /\ IF Ours.readable /\ Ours.known
     THEN At(IF Ours.looksUp THEN "goal" ELSE "waypoints") /\ UNCHANGED failing
     ELSE Refuse
  /\ UNCHANGED <<keys, counters, tf, task, goalId, history>>

\* lookup_transform against baseframe_id or faceplate_id: a pose, or a refusal.
Lookup(place, found) ==
  /\ IF tf[place] = Absent THEN Refuse ELSE server' = found /\ UNCHANGED failing
  /\ UNCHANGED <<keys, counters, tf, task, goalId, history>>

LookupGoal ==
  /\ server.pc = "goal"
  /\ Lookup(Ours.frame, [server EXCEPT !.pc = "tool", !.target = tf[Ours.frame]])

LookupTool ==
  /\ server.pc = "tool"
  /\ Lookup(Tool, [server EXCEPT !.pc = "waypoints", !.tcp = tf[Tool]])

\* vec_from_sp_value: integers are numbers too, and one field that does not decode
\* ends the whole list.  A target of joints needs no frame.
Decodes(wp) ==
  /\ "other" \notin ToSet(wp.joints)
  /\ wp.frame = NoName => wp.by = "joints"

DecodeWaypoints ==
  /\ server.pc = "waypoints"
  /\ IF Ours.aList /\ \A k \in DOMAIN Ours.waypoints : Decodes(Ours.waypoints[k])
     THEN At("resolve") /\ UNCHANGED failing
     ELSE Refuse
  /\ UNCHANGED <<keys, counters, tf, task, goalId, history>>

\* A waypoint as a template gets it: joints, or a target that was looked up.  One that
\* is relative is not told from a target at the base frame.
Waypoint(wp, pose, tcp) == [joints |-> wp.by = "joints", target |-> pose, tcp |-> tcp]

Current == Ours.waypoints[Len(server.done) + 1]
Unresolved == server.pc = "resolve" /\ Len(server.done) < Len(Ours.waypoints)

\* Relative and joint targets are not looked up.
TakeWaypoint ==
  /\ Unresolved /\ Current.by # "frame"
  /\ server' = [server EXCEPT !.done = Append(@, Waypoint(Current, Identity, server.tcp))]
  /\ UNCHANGED <<keys, counters, tf, task, goalId, failing, history>>

ResolveTarget_Skips ==               \* mutant: `continue` for `break`, the point dropped
  /\ Unresolved /\ Current.by = "frame"
  /\ IF tf[Current.frame] = Absent
     THEN /\ server' = [server EXCEPT !.pc = "resolve_tool", !.pose = server.target]
          /\ UNCHANGED <<keys, counters, tf, task, goalId, failing, history>>
     ELSE Lookup(Current.frame,
                 [server EXCEPT !.pc = "resolve_tool", !.pose = tf[Current.frame]])
ResolveTarget ==
  /\ Unresolved /\ Current.by = "frame"
  /\ Lookup(Current.frame,
            [server EXCEPT !.pc = "resolve_tool", !.pose = tf[Current.frame]])

\* The TCP is looked up again for every waypoint that is a frame.
ResolveTool ==
  /\ server.pc = "resolve_tool"
  /\ Lookup(Tool, [server EXCEPT !.pc = "resolve", !.tcp = tf[Tool],
                     !.done = Append(@, Waypoint(Current, server.pose, tf[Tool]))])

\* The planning hook replaces the list with joint targets: one per waypoint of a list that
\* is not empty, or those of the stored trajectory, whatever the request's list is.
JointTargets(n) == [k \in 1 .. n |-> [joints |-> TRUE, target |-> Identity, tcp |-> server.tcp]]
Planned ==
  IF Ours.planner = "none" THEN {server.done}
  ELSE LET lengths == IF Ours.planner = "stored" THEN 1 .. MaxStored
                      ELSE {Len(server.done)} \ {0}
       IN {JointTargets(n) : n \in lengths}

\* Planning, rendering and admission control, without an await: any may refuse, and a
\* running goal always does.
Admit ==
  /\ server.pc = "resolve" /\ Len(server.done) = Len(Ours.waypoints)
  /\ \/ Refuse
     \/ /\ goalId = NoGoal
        /\ \E list \in Planned : server' = [server EXCEPT !.pc = "execute", !.done = list]
        /\ UNCHANGED failing
  /\ UNCHANGED <<keys, counters, tf, task, goalId, history>>

WriteExecuting ==
  /\ server.pc = "execute"
  /\ keys' = [keys EXCEPT !.state = "executing"]
  /\ At("spawn")
  /\ UNCHANGED <<counters, tf, task, goalId, failing, history>>

SpawnGoal ==
  /\ server.pc = "spawn"
  /\ task' = [task EXCEPT ![server.id] = "connect"]
  /\ server' = NewServer
  /\ UNCHANGED <<keys, counters, tf, goalId, failing, history>>

------------------------------------------------------------------------------
(***************************************************************************)
(* handle_request, as far as Redis and admission control see it.           *)
(***************************************************************************)
To(g, pc) == task' = [task EXCEPT ![g] = pc]

Fails(g) == To(g, "failing") /\ Goto(g, "read")

InstallGoal(g) ==
  /\ task[g] = "connect"
  /\ \/ goalId' = g /\ To(g, "run") /\ UNCHANGED failing
     \/ Fails(g) /\ UNCHANGED goalId
  /\ UNCHANGED <<keys, counters, tf, server, history>>

EndGoal(g) ==
  /\ task[g] = "run"
  /\ \/ To(g, "succeeded") /\ UNCHANGED failing
     \/ Fails(g)
  /\ UNCHANGED <<keys, counters, tf, server, goalId, history>>

PublishResult(g) ==
  /\ task[g] = "succeeded"
  /\ keys' = [keys EXCEPT !.result = g]
  /\ To(g, "publish")
  /\ UNCHANGED <<counters, tf, server, goalId, failing, history>>

PublishSucceeded(g) ==
  /\ task[g] = "publish"
  /\ Answer("succeeded", 0)
  /\ To(g, "reset")
  /\ UNCHANGED <<counters, tf, server, goalId, failing>>

AfterSuccess_Kept == counters                                   \* mutant: resets none
AfterSuccess_Less == [counters EXCEPT !.streak = @ - 1]         \* mutant: counts back
AfterSuccess == [counters EXCEPT !.streak = 0]

ResetStreak(g) ==
  /\ task[g] = "reset"
  /\ counters' = AfterSuccess
  /\ To(g, "teardown")
  /\ UNCHANGED <<keys, tf, server, goalId, failing, history>>

Teardown(g) ==
  /\ task[g] = "teardown"
  /\ goalId' = NoGoal
  /\ To(g, "gone")
  /\ UNCHANGED <<keys, counters, tf, server, failing, history>>

------------------------------------------------------------------------------
CommandServerStep ==
  \/ ReadRequest \/ ConsumeTrigger \/ CheckCommand \/ LookupGoal \/ LookupTool
  \/ DecodeWaypoints \/ TakeWaypoint \/ ResolveTarget \/ ResolveTool
  \/ Admit \/ WriteExecuting \/ SpawnGoal

TaskStep(g) ==
  \/ InstallGoal(g) \/ EndGoal(g) \/ PublishResult(g) \/ PublishSucceeded(g)
  \/ ResetStreak(g) \/ Teardown(g)

Next ==
  \/ \E g \in Goals : Submit(g)
  \/ StrayTrigger
  \/ \E p \in Places, pose \in Poses \union {Absent} : MoveFrame(p, pose)
  \/ \E c \in Callers : FailRequest(c)
  \/ CommandServerStep
  \/ \E g \in Goals : TaskStep(g)

\* Each of them is a task of its own that is polled again and again.
Fairness ==
  /\ WF_vars(CommandServerStep)
  /\ \A c \in Callers : WF_vars(FailRequest(c))
  /\ \A g \in Goals : WF_vars(TaskStep(g))

Spec == Init /\ [][Next]_vars
FairSpec == Spec /\ Fairness

------------------------------------------------------------------------------
(***************************************************************************)
(* Properties.                                                             *)
(***************************************************************************)
Handed ==
  [joints : BOOLEAN, target : Poses \union {Identity}, tcp : Poses \union {Identity}]

\* Every variable stays in its type; the counters never go below zero.
TypeOK ==
  /\ keys \in [trigger : BOOLEAN, state : {"initial", "executing"} \union Terminal,
               id : Goals \union {NoGoal}, result : Goals \union {NoGoal}]
  /\ counters \in [total : Nat, streak : Nat]
  /\ tf \in [Places -> Poses \union {Absent}]
  /\ goalId \in Goals \union {NoGoal}
  /\ server.id \in Goals \union {NoGoal} /\ server.done \in Seq(Handed)
  /\ server.target \in Poses \union {Identity} /\ server.tcp \in Poses \union {Identity}
  /\ task \in [Goals -> {"absent", "connect", "run", "succeeded", "publish", "reset",
                         "failing", "teardown", "gone"}]
  /\ failing \in [Callers -> [pc : {"no", "read", "total", "streak", "result", "state"},
                              total : Nat, streak : Nat, counted : BOOLEAN]]

\* A command that reaches the robot has every waypoint that was asked for, in order, each
\* where its own frame was after the request was read, and a TCP that was looked up if any
\* was: a path with a point missing or mistaken is another path (command_server.rs:461-462,
\* structs.rs:459-464).  A fresh plan has as many targets as were asked for; a stored one
\* has its own, and nothing is said of the request's list (online.rs:53-66).  That the TCP
\* is one and the same along a path is not so, whatever command_server.rs:458 says of it:
\* it is looked up again beside every frame.
FollowsRequest(got, asked, seen) ==
  /\ Len(got) = Len(asked)
  /\ \A k \in DOMAIN got :
       \/ asked[k].by = "joints" /\ got[k].joints
       \/ asked[k].by = "relative" /\ ~ got[k].joints /\ got[k].target = Identity
       \/ /\ asked[k].by = "frame" /\ ~ got[k].joints
          /\ got[k].target \in seen[asked[k].frame] /\ got[k].tcp \in seen[Tool]

OnlyJoints(got) == got # <<>> /\ \A k \in DOMAIN got : got[k].joints

WholePathOrNothing ==
  Handing =>
    LET asked == Ours.waypoints
        got == server.done
        seen == server.seen
    IN /\ Ours.planner = "none" => FollowsRequest(got, asked, seen)
       /\ Ours.planner # "none" => OnlyJoints(got)
       /\ Ours.planner = "plan" => Len(got) = Len(asked)
       /\ Ours.looksUp => server.target \in seen[Ours.frame]
       /\ Ours.looksUp \/ (\E k \in DOMAIN asked : asked[k].by = "frame")
            => server.tcp \in seen[Tool]

\* A terminal request_state is beside the result of that request, whoever answered it, for
\* a client that waits for its answer: the result is written first
\* (command_server.rs:711-734, handle_request.rs:277-280).
ResultBesideState == Waits /\ keys.state \in Terminal => keys.result = keys.id

Quiet == \A c \in Callers : failing[c].pc = "no"

\* total_fail_counter is the failures answered so far, less those whose counters could
\* not be read: the "Cumulative failures, never reset" of README.md:85, whichever of
\* command_server and the goals' tasks read it, added one and wrote it back
\* (command_server.rs:676-691).
EveryFailureCounted == Quiet => counters.total = history.failed

\* It is, for a client that waits for its answer: fail_request writes the counters before
\* the state, so the answer lets no second fail_request in before the first has written
\* them.  With a client that does not wait, two run side by side and lose an increment.
CountedBeforeAnswer == Waits => EveryFailureCounted

\* subsequent_fail_counter is the failures since the last success, for a client that lets
\* each goal's task end (handle_request.rs:282-286).  One that does not may fail a request
\* between the success it read and the reset that follows it.
StreakIsConsecutive ==
  Quiet /\ AllGone /\ history.patience = "settled" => counters.streak = history.recent

\* Every request that is submitted is answered, whichever check refuses it, for a client
\* that waits for it (command_server.rs:659-665).
EveryRequestAnswered ==
  Waits /\ keys.id # NoGoal /\ keys.state = "initial" ~> keys.state \in Terminal
==============================================================================
