------------------------- MODULE UrDriver_guard_proofs -------------------------
(***************************************************************************)
(* GuardIsOwned, RelativeMovesOnce and CancelStopsScript, for every value  *)
(* of the constants: any number of overlapping goals, any faults (but one  *)
(* kind for the last), a client that does not wait.                        *)
(*                                                                         *)
(* GuardIsOwned is inductive but for one thing: a goal's task is spawned   *)
(* at most once, or spawning it again would lose the claim it holds.       *)
(* OneTrigger says why it is not: a request is submitted once, its trigger *)
(* is consumed once, and it is past the trigger while it is decided on.    *)
(* The other two follow from SentInv, what is known of the scripts sent.   *)
(***************************************************************************)
EXTENDS UrDriver_proofs

NotYetSubmitted == \A g \in Goals : g \notin client.submitted => task[g].pc = "absent"

TriggerIsFresh == req.trigger => req.goal \in client.submitted /\ task[req.goal].pc = "absent"

TriggerAsRead == cs.pc \in {"cancel", "trigger"} /\ cs.trigger => req.trigger /\ cs.goal = req.goal

Deciding == cs.pc \in {"admit", "execute", "install", "reject"}
DecidedOnce ==
  Deciding =>
    /\ cs.goal \in client.submitted /\ task[cs.goal].pc = "absent"
    /\ req.trigger => req.goal # cs.goal

OneTrigger == NotYetSubmitted /\ TriggerIsFresh /\ TriggerAsRead /\ DecidedOnce

\* A step that only moves tasks which have been spawned keeps all of it, as long as it
\* leaves the request keys and command_server alone, publishing aside.
LEMMA OneTriggerKept ==
  ASSUME TypeInv, OneTrigger,
         req'.trigger = req.trigger, req'.goal = req.goal, UNCHANGED cs,
         client'.submitted = client.submitted,
         \A g \in Goals : task[g].pc = "absent" => task'[g].pc = "absent"
  PROVE  OneTrigger'
<1> USE DEF TypeInv, TypeOK
<1>1. NotYetSubmitted'
  BY DEF OneTrigger, NotYetSubmitted
<1>2. TriggerIsFresh'
  BY DEF OneTrigger, TriggerIsFresh, RequestNamed
<1>3. TriggerAsRead'
  BY DEF OneTrigger, TriggerAsRead
<1>4. DecidedOnce'
  BY DEF OneTrigger, DecidedOnce, Deciding, RequestNamed
<1> QED
  BY <1>1, <1>2, <1>3, <1>4 DEF OneTrigger

\* Where a task is, and in which attempt, is its own doing: the other tasks of the
\* driver only leave it a signal.
Place(g) == <<task[g].pc, task[g].attempt>>

\* A signal left to one task moves no task.
LEMMA SignalPlace ==
  ASSUME task \in [Goals -> Tasks], NEW h \in Goals, NEW v,
         \/ task' = [task EXCEPT ![h].verdict = v]
         \/ task' = [task EXCEPT ![h].handshake = v]
         \/ task' = [task EXCEPT ![h].stop = v]
         \/ task' = [task EXCEPT ![h].resume = v]
         \/ task' = [task EXCEPT ![h].cancel = v]
         \/ task' = [task EXCEPT ![h].answer = v]
  PROVE  \A g \in Goals : UNCHANGED Place(g)
BY DEF Tasks, Place

\* Resolving a goal moves no task.
LEMMA ResolvePlace ==
  ASSUME task \in [Goals -> Tasks], ds \in DriverStates, NEW v, task' = Resolve(v)
  PROVE  \A g \in Goals : UNCHANGED Place(g)
<1>1. CASE ds.goalSender = NoGoal
  BY <1>1 DEF Resolve, Place
<1>2. CASE ds.goalSender \in Goals /\ ds.goalSender # NoGoal
  BY <1>2, SignalPlace DEF Resolve
<1> QED
  BY <1>1, <1>2 DEF DriverStates, OptGoal

\* No step of the socket server moves a task.
LEMMA SocketServerPlace ==
  ASSUME TypeInv, SocketServerNext
  PROVE  \A g \in Goals : UNCHANGED Place(g)
<1> USE DEF TypeInv, TypeOK
<1>1. CASE Accept \/ Greet
  BY <1>1 DEF Accept, Greet, Place
<1>2. CASE ReadEcho
  <2>1. \E v : task' = [task EXCEPT ![ss.handshake].handshake = v]
    BY <1>2 DEF ReadEcho
  <2>2. ss.handshake \in Goals
    BY <1>2 DEF ReadEcho, ConnectionServed
  <2> QED
    BY <2>1, <2>2, SignalPlace
<1>3. CASE ReadLine
  <2>1. task' = task \/ \E v : task' = Resolve(v)
    BY <1>3 DEF ReadLine
  <2> QED
    BY <2>1, ResolvePlace DEF Place
<1>4. CASE ReadClose
  BY <1>4, ResolvePlace DEF ReadClose
<1> QED
  BY <1>1, <1>2, <1>3, <1>4 DEF SocketServerNext

\* No frame and no lost stream moves a task.
LEMMA RealtimeReaderPlace ==
  ASSUME TypeInv, RealtimeReaderNext
  PROVE  \A g \in Goals : UNCHANGED Place(g)
<1>1. task' = task \/ task' = Resolve("failed")
  BY DEF RealtimeReaderNext, ConnectRealtime, LoseRealtime, ReadFrame, Resolve
<1> QED
  BY <1>1, ResolvePlace DEF TypeInv, TypeOK, Place

\* No step of the dashboard task moves a task.
LEMMA DashboardPlace ==
  ASSUME TypeInv, DashboardNext
  PROVE  \A g \in Goals : UNCHANGED Place(g)
<1> USE DEF TypeInv, TypeOK
<1>1. CASE ServeStop
  <2>1. Head(dash.stops) \in Goals
    BY <1>1 DEF ServeStop, Dashboards
  <2>2. task' = task \/ \E v : task' = [task EXCEPT ![Head(dash.stops)].stop = v]
    BY <1>1 DEF ServeStop, Reply
  <2> QED
    BY <2>1, <2>2, SignalPlace DEF Place
<1>2. CASE PlayFallsBack
  <2>1. \/ task' = task
        \/ dash.resume \in Goals /\ task' = [task EXCEPT ![dash.resume].resume = TRUE]
    BY <1>2 DEF PlayFallsBack, Dashboards, OptGoal
  <2> QED
    BY <2>1, SignalPlace DEF Place
<1>3. CASE Pause \/ LatchPause \/ LosePause \/ Resume \/ PlayResumes \/ LosePlay
  BY <1>3 DEF Pause, LatchPause, LosePause, Resume, PlayResumes, LosePlay, Place
<1> QED
  BY <1>1, <1>2, <1>3 DEF DashboardNext

\* Nothing is submitted, triggered or decided on at first.
LEMMA InitOneTrigger == Init => OneTrigger
BY DEF Init, OneTrigger, NotYetSubmitted, TriggerIsFresh, TriggerAsRead, DecidedOnce, Deciding,
       SeededRequest, NewCommandServer, NewTask

\* Every step keeps OneTrigger: only ClientSubmit raises a trigger, and only for a
\* request that was never submitted.
LEMMA NextOneTrigger ==
  ASSUME TypeInv, OneTrigger, Next
  PROVE  OneTrigger'
<1> USE DEF TypeInv, TypeOK
<1>1. ASSUME NEW g \in Goals, ClientSubmit(g) PROVE OneTrigger'
  <2> USE <1>1 DEF ClientSubmit, MaySubmit
  <2>1. NotYetSubmitted' /\ TriggerIsFresh'
    BY DEF OneTrigger, NotYetSubmitted, TriggerIsFresh, Requests, Clients
  <2>2. TriggerAsRead'
    BY DEF OneTrigger, TriggerAsRead, Requests
  <2>3. DecidedOnce'
    BY DEF OneTrigger, DecidedOnce, Deciding, Requests, Clients
  <2> QED
    BY <2>1, <2>2, <2>3 DEF OneTrigger
<1>2. CASE ClientCancel
  BY <1>2, OneTriggerKept DEF ClientCancel, Requests, Clients
<1>3. CASE ReadRequestKeys
  BY <1>3 DEF ReadRequestKeys, OneTrigger, NotYetSubmitted, TriggerIsFresh, TriggerAsRead,
              DecidedOnce, Deciding
<1>4. CASE DeliverCancel
  <2>1. \A g \in Goals : task'[g].pc = task[g].pc
    BY <1>4 DEF DeliverCancel, Tasks
  <2>2. req'.trigger = req.trigger /\ req'.goal = req.goal
    BY <1>4 DEF DeliverCancel, CancelConsumed, Requests
  <2>3. /\ cs'.trigger = cs.trigger /\ cs'.goal = cs.goal
        /\ ~ Deciding' /\ cs'.pc \in {"trigger", "idle"}
    BY <1>4 DEF DeliverCancel, CommandServers, Deciding
  <2> QED
    BY <1>4, <2>1, <2>2, <2>3 DEF DeliverCancel, OneTrigger, NotYetSubmitted, TriggerIsFresh,
       TriggerAsRead, DecidedOnce, RequestNamed
<1>5. CASE ConsumeTrigger
  <2>1. cs.trigger /\ req.trigger /\ cs.goal = req.goal
    BY <1>5 DEF ConsumeTrigger, RequestNamed, OneTrigger, TriggerAsRead
  <2>2. ~ req'.trigger
    BY <1>5 DEF ConsumeTrigger, Requests
  <2>3. cs' = NewCommandServer \/ (cs'.goal = cs.goal /\ cs'.pc \in {"admit", "reject"})
    BY <1>5 DEF ConsumeTrigger, CommandServers
  <2> QED
    BY <1>5, <2>1, <2>2, <2>3 DEF ConsumeTrigger, NewCommandServer, OneTrigger, NotYetSubmitted,
       TriggerIsFresh, TriggerAsRead, DecidedOnce, Deciding
<1>6. CASE Admit
  <2>1. cs'.goal = cs.goal /\ Deciding /\ cs'.pc \in {"reject", "execute"}
    BY <1>6 DEF Admit, CommandServers, Deciding
  <2> QED
    BY <1>6, <2>1 DEF Admit, OneTrigger, NotYetSubmitted, TriggerIsFresh, TriggerAsRead,
       DecidedOnce, Deciding
<1>7. CASE Reject
  <2>1. \A g \in Goals : task'[g].pc = task[g].pc
    BY <1>7 DEF Reject, Tasks
  <2>2. req'.trigger = req.trigger /\ req'.goal = req.goal
    BY <1>7 DEF Reject, Requests
  <2> QED
    BY <1>7, <2>1, <2>2 DEF Reject, NewCommandServer, OneTrigger, NotYetSubmitted, TriggerIsFresh,
       TriggerAsRead, DecidedOnce, Deciding, RequestNamed
<1>8. CASE WriteExecuting
  <2>1. cs'.goal = cs.goal /\ Deciding /\ cs'.pc = "install"
    BY <1>8 DEF WriteExecuting, CommandServers, Deciding
  <2>2. req'.trigger = req.trigger /\ req'.goal = req.goal
    BY <1>8 DEF WriteExecuting, Requests
  <2> QED
    BY <1>8, <2>1, <2>2 DEF WriteExecuting, OneTrigger, NotYetSubmitted, TriggerIsFresh,
       TriggerAsRead, DecidedOnce, Deciding
<1>9. CASE SpawnGoal
  <2>1. \A g \in Goals : g # cs.goal => task'[g] = task[g]
    BY <1>9 DEF SpawnGoal
  <2>2. Deciding /\ cs.goal \in Goals
    BY <1>9 DEF SpawnGoal, Deciding, RequestNamed
  <2> QED
    BY <1>9, <2>1, <2>2 DEF SpawnGoal, NewCommandServer, OneTrigger, NotYetSubmitted,
       TriggerIsFresh, TriggerAsRead, DecidedOnce, Deciding, RequestNamed
<1>10. ASSUME NEW g \in Goals, HandleRequestNext(g) PROVE OneTrigger'
  <2>1. task[g].pc # "absent" /\ \A h \in Goals : h # g => task'[h] = task[h]
    BY <1>10 DEF HandleRequestNext, Connect, InstallGoal, Upload, UploadFails, HandshakeAnswered,
       HandshakeTimeout, RunningVerdict, CancelGoal, StopAnswered, StoppingVerdict, VerdictArrives,
       ResumeGoal, ClaimReissue, ReissueStopped, NextAttempt, Publish, Teardown, Goto, Finish
  <2>2. UNCHANGED <<cs, client>> /\ req'.trigger = req.trigger /\ req'.goal = req.goal
    BY <1>10 DEF HandleRequestNext, Connect, InstallGoal, Upload, UploadFails, HandshakeAnswered,
       HandshakeTimeout, RunningVerdict, CancelGoal, StopAnswered, StoppingVerdict, VerdictArrives,
       ResumeGoal, ClaimReissue, ReissueStopped, NextAttempt, Publish, Teardown, Requests
  <2> QED
    BY <2>1, <2>2, OneTriggerKept
<1>11. CASE SocketServerNext
  <2>1. \A g \in Goals : task'[g].pc = task[g].pc
    BY <1>11, SocketServerPlace DEF Place
  <2>2. UNCHANGED <<req, cs, client>>
    BY <1>11 DEF SocketServerNext, Accept, Greet, ReadEcho, ReadLine, ReadClose
  <2> QED
    BY <2>1, <2>2, OneTriggerKept
<1>12. CASE RealtimeReaderNext
  <2>1. \A g \in Goals : task'[g].pc = task[g].pc
    BY <1>12, RealtimeReaderPlace DEF Place
  <2>2. UNCHANGED <<req, cs, client>>
    BY <1>12 DEF RealtimeReaderNext, ConnectRealtime, LoseRealtime, ReadFrame
  <2> QED
    BY <2>1, <2>2, OneTriggerKept
<1>13. CASE DashboardNext
  <2>1. \A g \in Goals : task'[g].pc = task[g].pc
    BY <1>13, DashboardPlace DEF Place
  <2>2. UNCHANGED <<req, cs>> /\ client'.submitted = client.submitted
    BY <1>13 DEF DashboardNext, ServeStop, Pause, LatchPause, LosePause, Resume, PlayResumes,
       PlayFallsBack, LosePlay, Clients
  <2> QED
    BY <2>1, <2>2, OneTriggerKept
<1>14. CASE ControllerNext
  <2>1. UNCHANGED <<req, cs, task, client>>
    BY <1>14 DEF ControllerNext, Dial, Echo, GiveUp, ReachWaypoint, FinishMove, KillProgram
  <2> QED
    BY <2>1, OneTriggerKept
<1>15. CASE Restart
  <2>1. \A g \in Goals : task[g].pc = "absent" => task'[g].pc = "absent"
    BY <1>15 DEF Restart, Live
  <2> QED
    BY <1>15, <2>1 DEF Restart, SeededRequest, NewCommandServer, OneTrigger, NotYetSubmitted,
       TriggerIsFresh, TriggerAsRead, DecidedOnce, Deciding
<1> QED
  BY <1>1, <1>2, <1>3, <1>4, <1>5, <1>6, <1>7, <1>8, <1>9, <1>10, <1>11, <1>12, <1>13, <1>14,
     <1>15 DEF Next, CommandServerNext

(***************************************************************************)
(* The invariant itself.                                                   *)
(***************************************************************************)
SendersOwned(d) ==
  /\ d.goalId # NoGoal => Live(d.goalId)
  /\ d.goalSender # NoGoal => Live(d.goalSender)
  /\ d.handshakeSender # NoGoal => Live(d.handshakeSender)
  /\ d.cancelSender # NoGoal => Live(d.cancelSender)
  /\ d.resumeSender # NoGoal => Live(d.resumeSender)

ClaimOwned == ds.reissuing => \E g \in Goals : MayHoldClaim(g)

\* GuardIsOwned falls apart into the senders in DriverState and the claim.
LEMMA GuardInParts == GuardIsOwned <=> SendersOwned(ds) /\ ClaimOwned
BY DEF GuardIsOwned, SendersOwned, ClaimOwned

\* A step that installs nobody and ends nobody keeps every sender's owner.
LEMMA SendersKept ==
  ASSUME TypeInv, SendersOwned(ds), ds' \in DriverStates,
         \A g \in Goals : Live(g) => Live(g)',
         ds'.goalId \in {ds.goalId, NoGoal}, ds'.goalSender \in {ds.goalSender, NoGoal},
         ds'.handshakeSender \in {ds.handshakeSender, NoGoal},
         ds'.cancelSender \in {ds.cancelSender, NoGoal},
         ds'.resumeSender \in {ds.resumeSender, NoGoal}
  PROVE  SendersOwned(ds)'
BY DEF SendersOwned, TypeInv, TypeOK, DriverStates, OptGoal

\* The claim is kept by a step that neither makes one nor moves a goal that holds one.
LEMMA ClaimKept ==
  ASSUME ClaimOwned, ds'.reissuing => ds.reissuing,
         \A g \in Goals : MayHoldClaim(g) => MayHoldClaim(g)'
  PROVE  ClaimOwned'
BY DEF ClaimOwned

\* A step that moves no task and installs no sender keeps the guard owned.
LEMMA PlaceKeepsGuard ==
  ASSUME TypeInv, TypeInv', GuardIsOwned, \A g \in Goals : UNCHANGED Place(g),
         ds'.reissuing => ds.reissuing,
         ds'.goalId \in {ds.goalId, NoGoal}, ds'.goalSender \in {ds.goalSender, NoGoal},
         ds'.handshakeSender \in {ds.handshakeSender, NoGoal},
         ds'.cancelSender \in {ds.cancelSender, NoGoal},
         ds'.resumeSender \in {ds.resumeSender, NoGoal}
  PROVE  GuardIsOwned'
<1>1. \A g \in Goals : (Live(g) => Live(g)') /\ (MayHoldClaim(g) => MayHoldClaim(g)')
  BY DEF Place, Live, MayHoldClaim, BetweenScripts
<1>2. SendersOwned(ds) /\ ClaimOwned
  BY GuardInParts
<1>3. SendersOwned(ds)'
  BY <1>1, <1>2, SendersKept DEF TypeInv, TypeOK
<1>4. ClaimOwned'
  BY <1>1, <1>2, ClaimKept
<1> QED
  BY <1>3, <1>4 DEF GuardIsOwned, SendersOwned, ClaimOwned

\* A goal's task stays alive until its teardown, and keeps its claim until it has
\* installed its next script or is torn down.
LEMMA TaskKeepsGuard ==
  ASSUME TypeInv, TypeInv', GuardIsOwned, NEW g \in Goals, HandleRequestNext(g)
  PROVE  GuardIsOwned'
<1> USE DEF TypeInv, TypeOK
<1>others. \A h \in Goals : h # g => task'[h] = task[h]
  BY DEF HandleRequestNext, Connect, InstallGoal, Upload, UploadFails, HandshakeAnswered,
     HandshakeTimeout, RunningVerdict, CancelGoal, StopAnswered, StoppingVerdict, VerdictArrives,
     ResumeGoal, ClaimReissue, ReissueStopped, NextAttempt, Publish, Teardown, Goto, Finish
<1>parts. SendersOwned(ds) /\ ClaimOwned
  BY GuardInParts
<1>senders. ASSUME Live(g)', ds' = [ds EXCEPT !.reissuing = ds'.reissuing,
                                              !.waypointsCompleted = ds'.waypointsCompleted]
            PROVE  SendersOwned(ds)'
  <2>1. \A h \in Goals : Live(h) => Live(h)'
    BY <1>others, <1>senders DEF Live
  <2> QED
    BY <1>parts, <1>senders, <2>1, SendersKept DEF DriverStates
<1>claim. ASSUME MayHoldClaim(g) => MayHoldClaim(g)', ds'.reissuing = ds.reissuing
          PROVE  ClaimOwned'
  <2>1. \A h \in Goals : MayHoldClaim(h) => MayHoldClaim(h)'
    BY <1>others, <1>claim DEF MayHoldClaim, BetweenScripts
  <2> QED
    BY <1>parts, <1>claim, <2>1, ClaimKept
<1>same. ASSUME Live(g)', MayHoldClaim(g) => MayHoldClaim(g)', UNCHANGED ds
         PROVE  GuardIsOwned'
  <2>1. ds' = [ds EXCEPT !.reissuing = ds'.reissuing,
                         !.waypointsCompleted = ds'.waypointsCompleted]
    BY <1>same DEF DriverStates
  <2>2. SendersOwned(ds)' /\ ClaimOwned'
    BY <1>same, <1>senders, <1>claim, <2>1
  <2> QED
    BY <2>2 DEF GuardIsOwned, SendersOwned, ClaimOwned
<1>goto. ASSUME NEW pc \in TaskPcs \ {"absent", "gone"}, Goto(g, pc), UNCHANGED ds,
                \/ task[g].pc \in {"upload", "handshake", "run", "stopping", "claim"}
                \/ task[g].pc = "connect" /\ pc = "install"
                \/ task[g].pc = "reissue" /\ pc = "drain"
         PROVE  GuardIsOwned'
  <2>1. task'[g].pc = pc /\ task'[g].attempt = task[g].attempt
    BY <1>goto DEF Goto, Tasks
  <2> QED
    BY <1>goto, <1>same, <2>1 DEF Live, MayHoldClaim, BetweenScripts
<1>publish. ASSUME task'[g].pc = "publish", task'[g].attempt = task[g].attempt, UNCHANGED ds,
                   task[g].pc \in {"connect", "upload", "handshake", "run", "stopping"}
            PROVE  GuardIsOwned'
  BY <1>publish, <1>same DEF Live, MayHoldClaim, BetweenScripts
<1>finish. ASSUME NEW result, Finish(g, result), UNCHANGED ds,
                  task[g].pc \in {"connect", "upload", "handshake", "run", "stopping"}
           PROVE  GuardIsOwned'
  <2>1. task'[g].pc = "publish" /\ task'[g].attempt = task[g].attempt
    BY <1>finish DEF Finish, Tasks
  <2> QED
    BY <1>finish, <1>publish, <2>1
<1>1. CASE Connect(g)
  BY <1>1, <1>goto, <1>finish DEF Connect, TaskPcs
<1>2. CASE InstallGoal(g)
  <2>1. task'[g].pc = "upload"
    BY <1>2 DEF InstallGoal, Tasks
  <2>2. /\ ds'.goalId = g /\ ds'.goalSender = g /\ ds'.handshakeSender = g
        /\ ds'.cancelSender = ds.cancelSender /\ ds'.resumeSender = ds.resumeSender
        /\ ~ ds'.reissuing
    BY <1>2 DEF InstallGoal, Installed, DriverStates
  <2>3. \A h \in Goals : Live(h) => Live(h)'
    BY <2>1, <1>others DEF Live
  <2>4. SendersOwned(ds)'
    BY <1>parts, <2>1, <2>2, <2>3 DEF SendersOwned, Live, DriverStates, OptGoal
  <2> QED
    BY <2>2, <2>4 DEF GuardIsOwned, SendersOwned
<1>3. CASE Upload(g)
  BY <1>3, <1>goto DEF Upload, TaskPcs
<1>4. CASE UploadFails(g) \/ HandshakeTimeout(g) \/ RunningVerdict(g) \/ StoppingVerdict(g)
  BY <1>4, <1>finish DEF UploadFails, HandshakeTimeout, RunningVerdict, StoppingVerdict,
     VerdictArrives
<1>5. CASE HandshakeAnswered(g)
  BY <1>5, <1>goto, <1>finish DEF HandshakeAnswered, TaskPcs
<1>6. CASE CancelGoal(g)
  <2>1. task'[g].pc \in {"stopping", "publish"} /\ task'[g].attempt = task[g].attempt
    BY <1>6 DEF CancelGoal, Tasks
  <2> QED
    BY <1>6, <2>1, <1>same DEF CancelGoal, Live, MayHoldClaim, BetweenScripts
<1>7. CASE StopAnswered(g)
  BY <1>7, <1>finish DEF StopAnswered
<1>8. CASE ResumeGoal(g)
  <2>1. task'[g].pc \in {"claim", "publish"} /\ task'[g].attempt = task[g].attempt
    BY <1>8 DEF ResumeGoal, Tasks
  <2> QED
    BY <1>8, <2>1, <1>same DEF ResumeGoal, Live, MayHoldClaim, BetweenScripts
<1>9. CASE ClaimReissue(g)
  <2>1. task'[g].pc \in {"reissue", "drain"}
    BY <1>9 DEF ClaimReissue, Goto, Tasks
  <2>2. SendersOwned(ds)'
    <3>1. ds' = [ds EXCEPT !.reissuing = ds'.reissuing,
                           !.waypointsCompleted = ds'.waypointsCompleted]
      BY <1>9 DEF ClaimReissue, DriverStates
    <3> QED
      BY <2>1, <3>1, <1>senders DEF Live
  <2>3. ClaimOwned'
    BY <2>1 DEF ClaimOwned, MayHoldClaim, BetweenScripts
  <2> QED
    BY <2>2, <2>3 DEF GuardIsOwned, SendersOwned, ClaimOwned
<1>10. CASE ReissueStopped(g)
  BY <1>10, <1>goto DEF ReissueStopped, TaskPcs
<1>11. CASE NextAttempt(g)
  <2>1. task'[g].pc = "connect" /\ task'[g].attempt > 1
    BY <1>11 DEF NextAttempt, Tasks
  <2>2. SendersOwned(ds)'
    <3>1. ds' = [ds EXCEPT !.reissuing = ds'.reissuing,
                           !.waypointsCompleted = ds'.waypointsCompleted]
      BY <1>11 DEF NextAttempt, DriverStates
    <3> QED
      BY <2>1, <3>1, <1>senders DEF Live
  <2>3. ClaimOwned'
    BY <2>1, <1>11, <1>claim DEF NextAttempt, DriverStates, MayHoldClaim, BetweenScripts
  <2> QED
    BY <2>2, <2>3 DEF GuardIsOwned, SendersOwned, ClaimOwned
<1>12. CASE Publish(g)
  <2>1. task'[g].pc = "teardown" /\ task'[g].attempt = task[g].attempt
    BY <1>12 DEF Publish, Tasks
  <2> QED
    BY <1>12, <2>1, <1>same DEF Publish, Live, MayHoldClaim, BetweenScripts
<1>13. CASE Teardown(g)
  BY <1>13 DEF Teardown, TornDown, DriverStates, GuardIsOwned
<1> QED
  BY <1>1, <1>2, <1>3, <1>4, <1>5, <1>6, <1>7, <1>8, <1>9, <1>10, <1>11, <1>12, <1>13
     DEF HandleRequestNext

\* Every step keeps the guard owned.
LEMMA NextKeepsGuard ==
  ASSUME TypeInv, TypeInv', OneTrigger, GuardIsOwned, Next
  PROVE  GuardIsOwned'
<1> USE DEF TypeInv, TypeOK
<1>1. CASE (\E g \in Goals : ClientSubmit(g)) \/ ClientCancel
  BY <1>1, PlaceKeepsGuard DEF ClientSubmit, ClientCancel, Place
<1>2. CASE ReadRequestKeys \/ ConsumeTrigger \/ Admit \/ WriteExecuting
  BY <1>2, PlaceKeepsGuard DEF ReadRequestKeys, ConsumeTrigger, Admit, WriteExecuting, Place
<1>3. CASE DeliverCancel
  <2>1. \A g \in Goals : UNCHANGED Place(g)
    <3>1. \/ task' = task
          \/ ds.cancelSender \in Goals /\ task' = [task EXCEPT ![ds.cancelSender].cancel = TRUE]
      BY <1>3 DEF DeliverCancel, DriverStates, OptGoal
    <3> QED
      BY <3>1, SignalPlace DEF Place
  <2>2. ds' = [ds EXCEPT !.cancelSender = NoGoal]
    BY <1>3 DEF DeliverCancel
  <2> QED
    BY <2>1, <2>2, PlaceKeepsGuard DEF DriverStates
<1>4. CASE Reject
  <2>1. cs.goal \in Goals /\ task' = [task EXCEPT ![cs.goal].answer = "failed"]
    BY <1>4 DEF Reject, RequestNamed
  <2>2. \A g \in Goals : UNCHANGED Place(g)
    BY <2>1, SignalPlace
  <2> QED
    BY <1>4, <2>2, PlaceKeepsGuard DEF Reject
<1>5. CASE SpawnGoal
  <2>1. cs.goal \in Goals /\ task[cs.goal].pc = "absent"
    BY <1>5 DEF SpawnGoal, RequestNamed, OneTrigger, DecidedOnce, Deciding
  <2>2. task'[cs.goal].pc = "connect" /\ \A g \in Goals : g # cs.goal => task'[g] = task[g]
    BY <1>5, <2>1 DEF SpawnGoal, Tasks
  <2>3. \A g \in Goals : Live(g) => Live(g)'
    BY <2>2 DEF Live
  <2>4. /\ ds'.goalId = ds.goalId /\ ds'.goalSender = ds.goalSender
        /\ ds'.handshakeSender = ds.handshakeSender /\ ds'.cancelSender = cs.goal
        /\ ds'.resumeSender = cs.goal /\ ds'.reissuing = ds.reissuing
    BY <1>5 DEF SpawnGoal, DriverStates
  <2>5. SendersOwned(ds)'
    BY <2>1, <2>2, <2>3, <2>4, GuardInParts DEF SendersOwned, Live, DriverStates, OptGoal
  <2>6. \A g \in Goals : MayHoldClaim(g) => MayHoldClaim(g)'
    BY <2>1, <2>2 DEF MayHoldClaim, BetweenScripts
  <2>7. ClaimOwned'
    BY <2>4, <2>6, GuardInParts, ClaimKept
  <2> QED
    BY <2>5, <2>7 DEF GuardIsOwned, SendersOwned, ClaimOwned
<1>6. ASSUME NEW g \in Goals, HandleRequestNext(g) PROVE GuardIsOwned'
  BY <1>6, TaskKeepsGuard
<1>7. CASE SocketServerNext
  <2>1. /\ ds'.reissuing = ds.reissuing /\ ds'.cancelSender = ds.cancelSender
        /\ ds'.resumeSender = ds.resumeSender /\ ds'.goalId \in {ds.goalId, NoGoal}
        /\ ds'.goalSender \in {ds.goalSender, NoGoal}
        /\ ds'.handshakeSender \in {ds.handshakeSender, NoGoal}
    BY <1>7 DEF SocketServerNext, Accept, Greet, ReadEcho, ReadLine, ReadClose, AfterClose,
       DriverStates
  <2> QED
    BY <1>7, <2>1, SocketServerPlace, PlaceKeepsGuard
<1>8. CASE RealtimeReaderNext
  <2>1. /\ ds'.reissuing = ds.reissuing /\ ds'.cancelSender = ds.cancelSender
        /\ ds'.resumeSender = ds.resumeSender /\ ds'.goalId \in {ds.goalId, NoGoal}
        /\ ds'.goalSender \in {ds.goalSender, NoGoal} /\ ds'.handshakeSender = ds.handshakeSender
    BY <1>8 DEF RealtimeReaderNext, ConnectRealtime, LoseRealtime, ReadFrame, AfterFrame,
       DriverStates
  <2> QED
    BY <1>8, <2>1, RealtimeReaderPlace, PlaceKeepsGuard
<1>9. CASE DashboardNext
  <2>1. /\ ds'.reissuing = ds.reissuing /\ ds'.cancelSender = ds.cancelSender
        /\ ds'.resumeSender = ds.resumeSender /\ ds'.goalId = ds.goalId
        /\ ds'.goalSender = ds.goalSender /\ ds'.handshakeSender = ds.handshakeSender
    BY <1>9 DEF DashboardNext, ServeStop, Pause, LatchPause, LosePause, Resume, PlayResumes,
       PlayFallsBack, LosePlay, LatchCleared, DriverStates
  <2> QED
    BY <1>9, <2>1, DashboardPlace, PlaceKeepsGuard
<1>10. CASE ControllerNext
  <2>1. UNCHANGED <<ds, task>>
    BY <1>10 DEF ControllerNext, Dial, Echo, GiveUp, ReachWaypoint, FinishMove, KillProgram
  <2> QED
    BY <2>1, PlaceKeepsGuard DEF Place
<1>11. CASE Restart
  BY <1>11 DEF Restart, NewDriverState, GuardIsOwned
<1> QED
  BY <1>1, <1>2, <1>3, <1>4, <1>5, <1>6, <1>7, <1>8, <1>9, <1>10, <1>11 DEF Next, CommandServerNext

GuardInv == TypeInv /\ OneTrigger /\ GuardIsOwned

\* DriverState holds no sender at first.
LEMMA InitGuardInv == Init => GuardInv
BY InitTypeInv, InitOneTrigger DEF GuardInv, Init, GuardIsOwned, NewDriverState

\* The invariant is inductive.
LEMMA NextGuardInv == GuardInv /\ [Next]_vars => GuardInv'
<1> SUFFICES ASSUME GuardInv, [Next]_vars PROVE GuardInv'
  OBVIOUS
<1>1. TypeInv'
  BY NextTypeInv DEF GuardInv
<1>2. CASE Next
  BY <1>1, <1>2, NextOneTrigger, NextKeepsGuard DEF GuardInv
<1>3. CASE UNCHANGED vars
  BY <1>1, <1>3 DEF vars, GuardInv, OneTrigger, NotYetSubmitted, TriggerIsFresh, TriggerAsRead,
     DecidedOnce, Deciding, GuardIsOwned, Live, MayHoldClaim, BetweenScripts
<1> QED
  BY <1>2, <1>3

\* Nothing that makes admission control refuse work outlives the task that would clear
\* it, for any number of goals, in any interleaving, with any of the faults.
THEOREM GuardAlwaysOwned == Spec => []GuardIsOwned
<1>1. GuardInv => GuardIsOwned
  BY DEF GuardInv
<1> QED
  BY <1>1, InitGuardInv, NextGuardInv, PTL DEF Spec

------------------------------------------------------------------------------
(***************************************************************************)
(* The scripts a goal sends, for the same constants.  The controller runs  *)
(* one program, a script is sent by one upload of its goal's task and      *)
(* never changes before that, and one that has ended stays so.             *)
(***************************************************************************)
\* A script its goal's task has not come to yet.
Ahead(s) ==
  \/ s[2] > task[s[1]].attempt
  \/ s[2] = task[s[1]].attempt /\ task[s[1]].pc \in {"absent", "connect", "install", "upload"}

Unsent ==
  \A s \in Scripts :
    /\ Ahead(s) => script[s].pc = "absent"
    /\ script[s].pc = "absent" => script[s] = NewScript

\* A program that has been loaded and has not ended is the one the controller runs.
AtWork(s) == script[s].pc \in {"loaded", "dialed", "moving"}
OneProgram == \A s \in Scripts : AtWork(s) <=> robot.prog = s

\* Where a task waits on the script it sent last.
WaitsOnScript == {"handshake", "run", "stopping", "claim", "reissue", "drain"}
Uploaded == \A g \in Goals : task[g].pc \in WaitsOnScript => script[Script(g)].pc # "absent"

\* Only scripts that were sent connect.
Connected ==
  /\ \A i \in 1 .. Len(backlog) : script[backlog[i]].pc # "absent"
  /\ ss.pc # "accept" => script[ss.conn].pc # "absent"

SentInv == Unsent /\ OneProgram /\ Uploaded /\ Connected

\* A step that sends no script brings no task nearer to one it has not sent, and to
\* waiting on one.
NoUpload ==
  /\ \A s \in Scripts : Ahead(s)' => Ahead(s)
  /\ \A g \in Goals :
       task'[g].pc \in WaitsOnScript =>
         task[g].pc \in WaitsOnScript /\ task'[g].attempt = task[g].attempt

\* It leaves scripts that were not sent as they are, and those that ended, ended.
ScriptsGoOn ==
  /\ \A s \in Scripts : script[s].pc = "absent" => script'[s] = script[s]
  /\ \A s \in Scripts : script[s].pc # "absent" => script'[s].pc # "absent"
  /\ \A s \in Scripts : Ended(s) => script'[s].pc = script[s].pc
  /\ OneProgram' /\ Connected'

\* A step that moves no task sends no script.
LEMMA PlaceSendsNothing ==
  ASSUME \A g \in Goals : UNCHANGED Place(g)
  PROVE  NoUpload
BY DEF NoUpload, Ahead, Place, Scripts

\* A goal's task sends a script by uploading it, and in no other step.
LEMMA TaskSendsByUpload ==
  ASSUME TypeInv, NEW g \in Goals, HandleRequestNext(g), ~ Upload(g)
  PROVE  NoUpload
<1> USE DEF TypeInv, TypeOK
<1>1. \A h \in Goals : h # g => task'[h] = task[h]
  BY DEF HandleRequestNext, Connect, InstallGoal, UploadFails, HandshakeAnswered,
     HandshakeTimeout, RunningVerdict, CancelGoal, StopAnswered, StoppingVerdict, VerdictArrives,
     ResumeGoal, ClaimReissue, ReissueStopped, NextAttempt, Publish, Teardown, Goto, Finish
<1>2. /\ task'[g].pc \in WaitsOnScript =>
           task[g].pc \in WaitsOnScript /\ task'[g].attempt = task[g].attempt
      /\ \/ task'[g].attempt = task[g].attempt
         \/ task'[g].attempt = task[g].attempt + 1
      /\ task'[g].attempt = task[g].attempt =>
           (task'[g].pc \in {"absent", "connect", "install", "upload"} =>
              task[g].pc \in {"absent", "connect", "install", "upload"})
  <2>1. CASE NextAttempt(g)
    BY <2>1 DEF NextAttempt, Tasks, WaitsOnScript
  <2>2. CASE Connect(g) \/ InstallGoal(g) \/ UploadFails(g) \/ HandshakeAnswered(g)
             \/ HandshakeTimeout(g) \/ Publish(g) \/ Teardown(g)
    BY <2>2 DEF Connect, InstallGoal, UploadFails, HandshakeAnswered, HandshakeTimeout,
       Publish, Teardown, Goto, Finish, Tasks, WaitsOnScript
  <2>3. CASE RunningVerdict(g) \/ CancelGoal(g) \/ StopAnswered(g) \/ StoppingVerdict(g)
             \/ ResumeGoal(g) \/ ClaimReissue(g) \/ ReissueStopped(g)
    BY <2>3 DEF RunningVerdict, CancelGoal, StopAnswered, StoppingVerdict, VerdictArrives,
       ResumeGoal, ClaimReissue, ReissueStopped, Goto, Finish, Tasks, WaitsOnScript
  <2> QED
    BY <2>1, <2>2, <2>3 DEF HandleRequestNext
<1>3. task[g].attempt \in Nat /\ task'[g].attempt \in Nat
  BY <1>2 DEF Tasks
<1>4. ASSUME NEW s \in Scripts, Ahead(s)'
      PROVE  Ahead(s)
  <2>1. s[1] \in Goals /\ s[2] \in Nat
    BY DEF Scripts
  <2>2. CASE s[1] # g
    BY <1>1, <1>4, <2>1, <2>2 DEF Ahead
  <2>3. CASE s[1] = g /\ task'[g].attempt = task[g].attempt
    BY <1>2, <1>4, <2>3 DEF Ahead
  <2>4. CASE s[1] = g /\ task'[g].attempt = task[g].attempt + 1
    BY <1>3, <1>4, <2>1, <2>4 DEF Ahead
  <2> QED
    BY <1>2, <2>2, <2>3, <2>4
<1>5. \A h \in Goals :
        task'[h].pc \in WaitsOnScript =>
          task[h].pc \in WaitsOnScript /\ task'[h].attempt = task[h].attempt
  BY <1>1, <1>2
<1> QED
  BY <1>4, <1>5 DEF NoUpload

\* No step of anyone else sends one.
LEMMA OnlyUploadSends ==
  ASSUME TypeInv, OneTrigger, Next, \A g \in Goals : ~ Upload(g)
  PROVE  NoUpload
<1> USE DEF TypeInv, TypeOK
<1>1. CASE (\E g \in Goals : ClientSubmit(g)) \/ ClientCancel
  BY <1>1, PlaceSendsNothing DEF ClientSubmit, ClientCancel, Place
<1>2. CASE ReadRequestKeys \/ ConsumeTrigger \/ Admit \/ WriteExecuting
  BY <1>2, PlaceSendsNothing DEF ReadRequestKeys, ConsumeTrigger, Admit, WriteExecuting, Place
<1>3. CASE DeliverCancel
  <2>1. \/ task' = task
        \/ ds.cancelSender \in Goals /\ task' = [task EXCEPT ![ds.cancelSender].cancel = TRUE]
    BY <1>3 DEF DeliverCancel, DriverStates, OptGoal
  <2>2. \A g \in Goals : UNCHANGED Place(g)
    BY <2>1, SignalPlace DEF Place
  <2> QED
    BY <2>2, PlaceSendsNothing
<1>4. CASE Reject
  <2>1. cs.goal \in Goals /\ task' = [task EXCEPT ![cs.goal].answer = "failed"]
    BY <1>4 DEF Reject, RequestNamed
  <2>2. \A g \in Goals : UNCHANGED Place(g)
    BY <2>1, SignalPlace
  <2> QED
    BY <2>2, PlaceSendsNothing
<1>5. CASE SpawnGoal
  <2>1. cs.goal \in Goals /\ task[cs.goal].pc = "absent"
    BY <1>5 DEF SpawnGoal, RequestNamed, OneTrigger, DecidedOnce, Deciding
  <2>2. /\ task'[cs.goal].pc = "connect" /\ task'[cs.goal].attempt = task[cs.goal].attempt
        /\ \A g \in Goals : g # cs.goal => task'[g] = task[g]
    BY <1>5, <2>1 DEF SpawnGoal, Tasks
  <2> QED
    BY <2>1, <2>2 DEF NoUpload, Ahead, Scripts, WaitsOnScript
<1>6. ASSUME NEW g \in Goals, HandleRequestNext(g) PROVE NoUpload
  BY <1>6, TaskSendsByUpload
<1>7. CASE SocketServerNext \/ RealtimeReaderNext \/ DashboardNext
  BY <1>7, SocketServerPlace, RealtimeReaderPlace, DashboardPlace, PlaceSendsNothing
<1>8. CASE ControllerNext
  <2>1. UNCHANGED task
    BY <1>8 DEF ControllerNext, Dial, Echo, GiveUp, ReachWaypoint, FinishMove, KillProgram
  <2> QED
    BY <2>1, PlaceSendsNothing DEF Place
<1>9. CASE Restart
  <2>1. \A g \in Goals : /\ task'[g].pc \in {task[g].pc, "gone"}
                         /\ task'[g].pc \in {"absent", "gone"}
                         /\ task'[g].attempt = task[g].attempt
    BY <1>9 DEF Restart, Live, Tasks
  <2> QED
    BY <2>1 DEF NoUpload, Ahead, Scripts, WaitsOnScript
<1> QED
  BY <1>1, <1>2, <1>3, <1>4, <1>5, <1>6, <1>7, <1>8, <1>9 DEF Next, CommandServerNext

\* Marking a script's connection, or reading its lines, leaves its program alone.
LEMMA LinkStep ==
  ASSUME TypeInv, SentInv, NEW s \in Scripts, script[s].pc # "absent", UNCHANGED robot,
         NEW v,
         \/ script' = [script EXCEPT ![s].link = v]
         \/ script' = [script EXCEPT ![s].lines = v]
         \/ script' = script,
         \A i \in 1 .. Len(backlog)' : \E j \in 1 .. Len(backlog) : backlog'[i] = backlog[j],
         ss'.pc # "accept" =>
           \/ ss.pc # "accept" /\ ss'.conn = ss.conn
           \/ \E j \in 1 .. Len(backlog) : ss'.conn = backlog[j],
         ss'.pc # "accept" => ss'.conn \in Scripts
  PROVE  ScriptsGoOn
<1> USE DEF TypeInv, TypeOK
<1>1. \A t \in Scripts : script'[t].pc = script[t].pc /\ (t # s => script'[t] = script[t])
  BY DEF ScriptStates
<1>2. OneProgram'
  BY <1>1 DEF SentInv, OneProgram, AtWork
<1>3. \A j \in 1 .. Len(backlog) : backlog[j] \in Scripts /\ script'[backlog[j]].pc # "absent"
  BY <1>1 DEF SentInv, Connected
<1>4. \A i \in 1 .. Len(backlog)' : script'[backlog'[i]].pc # "absent"
  BY <1>3
<1>5. ss'.pc # "accept" => script'[ss'.conn].pc # "absent"
  BY <1>1, <1>3 DEF SentInv, Connected
<1> QED
  BY <1>1, <1>2, <1>4, <1>5 DEF ScriptsGoOn, Connected, Ended

\* Serving a connection does no more than that.
LEMMA SocketServerGoesOn ==
  ASSUME TypeInv, TypeInv', SentInv, SocketServerNext
  PROVE  ScriptsGoOn
<1> USE DEF TypeInv, TypeOK
<1>typed. ss'.pc # "accept" => ss'.conn \in Scripts
  BY DEF ConnectionServed
<1>1. CASE Accept
  <2>1. /\ backlog # <<>> /\ backlog' = Tail(backlog) /\ UNCHANGED robot
        /\ ss.pc = "accept" /\ (ss' = ss \/ ss'.conn = Head(backlog))
    BY <1>1 DEF Accept
  <2>v. PICK v : script' = [script EXCEPT ![Head(backlog)].link = v]
    <3>1. CASE Expected
      BY <1>1, <3>1 DEF Accept
    <3>2. CASE ~ Expected
      BY <1>1, <3>2 DEF Accept
    <3> QED
      BY <3>1, <3>2
  <2>2. /\ Head(backlog) = backlog[1] /\ 1 \in 1 .. Len(backlog)
        /\ Head(backlog) \in Scripts
    BY <2>1
  <2>3. script[Head(backlog)].pc # "absent"
    BY <2>2 DEF SentInv, Connected
  <2>4. ASSUME NEW i \in 1 .. Len(backlog)'
        PROVE  \E j \in 1 .. Len(backlog) : backlog'[i] = backlog[j]
    <3>1. i + 1 \in 1 .. Len(backlog) /\ backlog'[i] = backlog[i + 1]
      BY <2>1
    <3> QED
      BY <3>1
  <2> QED
    BY <1>typed, <2>1, <2>v, <2>2, <2>3, <2>4, LinkStep
<1>2. CASE Greet \/ ReadEcho \/ ReadLine \/ ReadClose
  <2>1. ss.pc # "accept" /\ UNCHANGED <<backlog, robot>>
    BY <1>2 DEF Greet, ReadEcho, ReadLine, ReadClose
  <2>2. PICK v : \/ script' = [script EXCEPT ![ss.conn].link = v]
                 \/ script' = [script EXCEPT ![ss.conn].lines = v]
                 \/ script' = script
    BY <1>2 DEF Greet, ReadEcho, ReadLine, ReadClose, Consume
  <2>3. ss'.conn = ss.conn \/ ss'.pc = "accept"
    <3>1. CASE Greet \/ ReadEcho \/ ReadLine
      BY <3>1 DEF Greet, ReadEcho, ReadLine, SocketServers
    <3>2. CASE ReadClose
      BY <3>2 DEF ReadClose, NewSocketServer
    <3> QED
      BY <1>2, <3>1, <3>2
  <2>4. ss.conn \in Scripts /\ script[ss.conn].pc # "absent"
    BY <2>1 DEF ConnectionServed, SentInv, Connected
  <2> QED
    BY <1>typed, <2>1, <2>2, <2>3, <2>4, LinkStep
<1> QED
  BY <1>1, <1>2 DEF SocketServerNext

\* The program that is running moves on, and may connect.
LEMMA ProgramStep ==
  ASSUME TypeInv, SentInv, NEW s \in Scripts, AtWork(s), UNCHANGED <<ss, robot>>,
         script' = [script EXCEPT ![s] = script'[s]], AtWork(s)',
         backlog' \in {backlog, Append(backlog, s)}
  PROVE  ScriptsGoOn
<1> USE DEF TypeInv, TypeOK
<1>1. \A t \in Scripts : t # s => script'[t] = script[t]
  OBVIOUS
<1>2. OneProgram'
  BY <1>1 DEF SentInv, OneProgram, AtWork
<1>3. \A t \in Scripts : script[t].pc # "absent" => script'[t].pc # "absent"
  BY <1>1 DEF AtWork
<1>4. \A i \in 1 .. Len(backlog) : backlog[i] \in Scripts /\ script'[backlog[i]].pc # "absent"
  BY <1>3 DEF SentInv, Connected
<1>5. \A i \in 1 .. Len(backlog)' : script'[backlog'[i]].pc # "absent"
  <2>1. CASE backlog' = backlog
    BY <1>4, <2>1
  <2>2. CASE backlog' = Append(backlog, s)
    BY <1>4, <2>2 DEF AtWork
  <2> QED
    BY <2>1, <2>2
<1>6. ss'.pc # "accept" => script'[ss'.conn].pc # "absent"
  BY <1>3 DEF SentInv, Connected, ConnectionServed
<1> QED
  BY <1>1, <1>2, <1>3, <1>5, <1>6 DEF ScriptsGoOn, Connected, AtWork, Ended

\* The program that is running ends.
LEMMA EndStep ==
  ASSUME TypeInv, SentInv, UNCHANGED <<ss, backlog>>, robot'.prog = NoScript,
         \A t \in Scripts : t # robot.prog => script'[t] = script[t],
         \A t \in Scripts : t = robot.prog => Ended(t)'
  PROVE  ScriptsGoOn
<1> USE DEF TypeInv, TypeOK
<1>1. NoScript \notin Scripts
  BY ConstantsAssumption DEF NoScript, Scripts
<1>2. \A t \in Scripts : t = robot.prog <=> AtWork(t)
  BY DEF SentInv, OneProgram
<1>3. \A t \in Scripts : ~ AtWork(t)'
  BY <1>2 DEF AtWork, Ended
<1>4. OneProgram'
  BY <1>1, <1>3 DEF OneProgram
<1>5. \A t \in Scripts : script[t].pc # "absent" => script'[t].pc # "absent"
  BY DEF Ended
<1>6. Connected'
  <2>1. \A i \in 1 .. Len(backlog) : backlog[i] \in Scripts
    OBVIOUS
  <2> QED
    BY <1>5, <2>1 DEF SentInv, Connected, ConnectionServed
<1> QED
  BY <1>2, <1>4, <1>5, <1>6 DEF ScriptsGoOn, AtWork, Ended

\* Killing whatever runs ends it.
LEMMA KillStep ==
  ASSUME TypeInv, SentInv, UNCHANGED <<ss, backlog>>, robot'.prog = NoScript,
         script' = Killed(script, robot.prog)
  PROVE  ScriptsGoOn
<1> USE DEF TypeInv, TypeOK
<1>1. \A t \in Scripts : t # robot.prog => script'[t] = script[t]
  BY DEF Killed
<1>2. \A t \in Scripts : t = robot.prog => Ended(t)'
  BY DEF Killed, Ended, ScriptStates
<1> QED
  BY <1>1, <1>2, EndStep

\* The controller runs one program to its end.
LEMMA ControllerGoesOn ==
  ASSUME TypeInv, SentInv, ControllerNext
  PROVE  ScriptsGoOn
<1> USE DEF TypeInv, TypeOK
<1>1. ASSUME NEW s \in Scripts, Dial(s) \/ Echo(s) \/ ReachWaypoint(s) PROVE ScriptsGoOn
  <2>1. /\ script' = [script EXCEPT ![s] = script'[s]] /\ AtWork(s)'
        /\ backlog' \in {backlog, Append(backlog, s)}
    <3>1. CASE Dial(s)
      BY <3>1 DEF Dial, AtWork, ScriptStates
    <3>2. CASE Echo(s)
      BY <3>2 DEF Echo, Send, AtWork, ScriptStates
    <3>3. CASE ReachWaypoint(s)
      BY <3>3 DEF ReachWaypoint, AtWork, ScriptStates
    <3> QED
      BY <1>1, <3>1, <3>2, <3>3
  <2>2. UNCHANGED <<ss, robot>> /\ AtWork(s)
    BY <1>1 DEF Dial, Echo, ReachWaypoint, AtWork
  <2> QED
    BY <2>1, <2>2, ProgramStep
<1>2. ASSUME NEW s \in Scripts, GiveUp(s) \/ FinishMove(s) PROVE ScriptsGoOn
  <2>1. UNCHANGED <<ss, backlog>> /\ robot'.prog = NoScript /\ robot.prog = s
    BY <1>2 DEF GiveUp, FinishMove, Stopped, Running
  <2>2. \A t \in Scripts : t # s => script'[t] = script[t]
    BY <1>2 DEF GiveUp, FinishMove, Send
  <2>3. Ended(s)'
    BY <1>2 DEF GiveUp, FinishMove, Send, Ended, ScriptStates
  <2> QED
    BY <2>1, <2>2, <2>3, EndStep
<1>3. CASE KillProgram
  BY <1>3, KillStep DEF KillProgram, Stopped
<1> QED
  BY <1>1, <1>2, <1>3 DEF ControllerNext

\* A step that touches no script, connection or program lets them go on.
LEMMA UntouchedGoesOn ==
  ASSUME SentInv, UNCHANGED <<script, ss, backlog>>, robot'.prog = robot.prog
  PROVE  ScriptsGoOn
BY DEF ScriptsGoOn, SentInv, OneProgram, Connected, AtWork, Ended

\* A dashboard stop kills what runs, and no other command of the operator ends a program.
LEMMA DashboardGoesOn ==
  ASSUME TypeInv, SentInv, DashboardNext
  PROVE  ScriptsGoOn
<1> USE DEF TypeInv, TypeOK
<1>1. CASE ServeStop
  <2>1. UNCHANGED <<ss, backlog>>
    BY <1>1 DEF ServeStop
  <2>2. \/ script' = Killed(script, robot.prog) /\ robot'.prog = NoScript
        \/ UNCHANGED <<script, robot>>
    BY <1>1 DEF ServeStop
  <2> QED
    BY <2>1, <2>2, KillStep, UntouchedGoesOn
<1>2. CASE ~ ServeStop
  <2>1. UNCHANGED <<script, ss, backlog>>
    BY <1>2 DEF DashboardNext, Pause, LatchPause, LosePause, Resume, PlayResumes, PlayFallsBack,
       LosePlay
  <2>2. robot'.prog = robot.prog
    <3>1. CASE Pause \/ Resume
      BY <3>1 DEF Pause, Resume
    <3>2. CASE LatchPause \/ LosePause
      BY <3>2 DEF LatchPause, LosePause, HoldOutcomes, Robots
    <3>3. CASE PlayResumes \/ PlayFallsBack \/ LosePlay
      BY <3>3 DEF PlayResumes, PlayFallsBack, LosePlay, Robots
    <3> QED
      BY <1>2, <3>1, <3>2, <3>3 DEF DashboardNext
  <2> QED
    BY <2>1, <2>2, UntouchedGoesOn
<1> QED
  BY <1>1, <1>2

\* A restart drops the connections, and leaves the controller to its program.
LEMMA RestartGoesOn ==
  ASSUME TypeInv, SentInv, Restart
  PROVE  ScriptsGoOn
<1> USE DEF TypeInv, TypeOK
<1>1. ASSUME NEW s \in Scripts
      PROVE  script'[s].pc = script[s].pc /\ (script'[s] = script[s] \/ script[s].link = "queued")
  BY DEF Restart, ScriptStates
<1>2. ss'.pc = "accept" /\ backlog' = <<>> /\ UNCHANGED robot
  BY DEF Restart, NewSocketServer
<1>3. OneProgram'
  BY <1>1, <1>2 DEF SentInv, OneProgram, AtWork
<1>4. Connected'
  BY <1>2 DEF Connected
<1> QED
  BY <1>1, <1>3, <1>4 DEF ScriptsGoOn, Ended, SentInv, Unsent, NewScript

\* Such a step, when it sends no script, keeps all that is said of those sent.
LEMMA SentKept ==
  ASSUME TypeInv, SentInv, NoUpload, ScriptsGoOn
  PROVE  SentInv'
<1> USE DEF TypeInv, TypeOK
<1>1. Unsent'
  BY DEF SentInv, Unsent, NoUpload, ScriptsGoOn
<1>2. Uploaded'
  <2>1. ASSUME NEW g \in Goals, task'[g].pc \in WaitsOnScript
        PROVE  script'[<<g, task'[g].attempt>>].pc # "absent"
    <3>1. task[g].pc \in WaitsOnScript /\ task'[g].attempt = task[g].attempt
      BY <2>1 DEF NoUpload
    <3>2. Script(g) \in Scripts /\ Script(g) = <<g, task'[g].attempt>>
      BY <3>1, ScriptType DEF Script
    <3> QED
      BY <3>1, <3>2 DEF SentInv, Uploaded, ScriptsGoOn
  <2> QED
    BY <2>1 DEF Uploaded, Script
<1> QED
  BY <1>1, <1>2 DEF SentInv, ScriptsGoOn

\* The upload replaces what the controller runs by a script that was never sent.
LEMMA UploadSends ==
  ASSUME TypeInv, SentInv, NEW g \in Goals, Upload(g)
  PROVE  /\ SentInv'
         /\ script[Script(g)].pc = "absent" /\ Script(g)' = Script(g)
         /\ script'[Script(g)] = [NewScript EXCEPT !.pc = "loaded", !.first = task[g].first]
         /\ \A s \in Scripts : s # Script(g) =>
              /\ s # robot.prog => script'[s] = script[s]
              /\ s = robot.prog => script'[s] = [script[s] EXCEPT !.pc = "killed"]
<1> USE DEF TypeInv, TypeOK
<1> DEFINE S == <<g, task[g].attempt>>
<1>1. S = Script(g) /\ S \in Scripts /\ S[1] = g /\ S[2] = task[g].attempt
  BY ScriptType DEF Script
<1> HIDE DEF S
<1>2. script[S].pc = "absent"
  BY <1>1 DEF Upload, SentInv, Unsent, Ahead
<1>3. /\ \A h \in Goals : task'[h].attempt = task[h].attempt
      /\ \A h \in Goals : h # g => task'[h] = task[h]
      /\ task[g].pc = "upload" /\ task'[g].pc = "handshake"
  BY DEF Upload, Goto, Tasks
<1>4. Script(g)' = S
  BY <1>1, <1>3 DEF Script
<1>5. script' = [Killed(script, robot.prog) EXCEPT
                   ![S] = [NewScript EXCEPT !.pc = "loaded", !.first = task[g].first]]
  BY <1>1 DEF Upload
<1>6. script'[S] = [NewScript EXCEPT !.pc = "loaded", !.first = task[g].first]
  BY <1>1, <1>5 DEF Killed
<1>7. ASSUME NEW s \in Scripts, s # S
      PROVE  /\ s # robot.prog => script'[s] = script[s]
             /\ s = robot.prog => script'[s] = [script[s] EXCEPT !.pc = "killed"]
  BY <1>5, <1>7 DEF Killed
<1>8. robot'.prog = S /\ UNCHANGED <<ss, backlog>>
  BY <1>1 DEF Upload
<1>9. script'[S].pc = "loaded"
  BY <1>6 DEF NewScript
<1>10. \A s \in Scripts : s # S =>
          script'[s].pc = IF s = robot.prog THEN "killed" ELSE script[s].pc
  <2>1. \A s \in Scripts : [script[s] EXCEPT !.pc = "killed"].pc = "killed"
    BY DEF ScriptStates
  <2>2. ASSUME NEW s \in Scripts, s # S
        PROVE  script'[s].pc = IF s = robot.prog THEN "killed" ELSE script[s].pc
    BY ONLY <1>7, <2>1, <2>2
  <2> QED
    BY <2>2
<1>11. \A s \in Scripts : s = robot.prog <=> AtWork(s)
  BY DEF SentInv, OneProgram
<1>12. Unsent'
  <2>1. \A s \in Scripts : Ahead(s)' => Ahead(s) /\ s # S
    BY <1>1, <1>3 DEF Ahead, Scripts
  <2>2. \A s \in Scripts : script'[s].pc = "absent" => script[s].pc = "absent" /\ s # S
                                                       /\ s # robot.prog
    BY <1>9, <1>10
  <2>3. \A s \in Scripts : script[s].pc = "absent" /\ s # S => script'[s] = script[s]
    BY <1>7, <1>11 DEF AtWork
  <2> QED
    BY <2>1, <2>2, <2>3 DEF SentInv, Unsent
<1>13. OneProgram'
  BY <1>1, <1>8, <1>9, <1>10, <1>11 DEF OneProgram, AtWork
<1>14. Uploaded'
  <2>1. ASSUME NEW h \in Goals, task'[h].pc \in WaitsOnScript
        PROVE  script'[<<h, task'[h].attempt>>].pc # "absent"
    <3>1. CASE h = g
      BY <1>1, <1>3, <1>9, <3>1 DEF Script
    <3>2. CASE h # g
      <4>1. Script(h) \in Scripts /\ Script(h) = <<h, task'[h].attempt>> /\ Script(h) # S
        BY <1>1, <1>3, <3>2, ScriptType DEF Script
      <4>2. script[Script(h)].pc # "absent"
        BY <1>3, <2>1, <3>2 DEF SentInv, Uploaded
      <4> QED
        BY <1>10, <4>1, <4>2
    <3> QED
      BY <3>1, <3>2
  <2> QED
    BY <2>1 DEF Uploaded, Script
<1>15. Connected'
  <2>1. \A s \in Scripts : script[s].pc # "absent" => script'[s].pc # "absent"
    BY <1>9, <1>10
  <2>2. \A i \in 1 .. Len(backlog) : backlog[i] \in Scripts
    OBVIOUS
  <2> QED
    BY <1>8, <2>1, <2>2 DEF SentInv, Connected, ConnectionServed
<1> QED
  BY <1>1, <1>2, <1>4, <1>6, <1>7, <1>12, <1>13, <1>14, <1>15 DEF SentInv

\* Any other step lets the scripts go on.
LEMMA OthersGoOn ==
  ASSUME TypeInv, TypeInv', SentInv, Next, \A g \in Goals : ~ Upload(g)
  PROVE  ScriptsGoOn
<1>1. CASE (\E g \in Goals : ClientSubmit(g)) \/ ClientCancel
  BY <1>1, UntouchedGoesOn DEF ClientSubmit, ClientCancel
<1>2. CASE CommandServerNext
  BY <1>2, UntouchedGoesOn DEF CommandServerNext, ReadRequestKeys, DeliverCancel, ConsumeTrigger,
     Admit, Reject, WriteExecuting, SpawnGoal
<1>3. CASE \E g \in Goals : HandleRequestNext(g)
  BY <1>3, UntouchedGoesOn DEF HandleRequestNext, Connect, InstallGoal, UploadFails,
     HandshakeAnswered, HandshakeTimeout, RunningVerdict, CancelGoal, StopAnswered,
     StoppingVerdict, VerdictArrives, ResumeGoal, ClaimReissue, ReissueStopped, NextAttempt,
     Publish, Teardown
<1>4. CASE RealtimeReaderNext
  BY <1>4, UntouchedGoesOn DEF RealtimeReaderNext, ConnectRealtime, LoseRealtime, ReadFrame
<1> QED
  BY <1>1, <1>2, <1>3, <1>4, SocketServerGoesOn, ControllerGoesOn, DashboardGoesOn, RestartGoesOn
     DEF Next

\* No script was sent at first.
LEMMA InitSentInv == Init => SentInv
<1> SUFFICES ASSUME Init PROVE SentInv
  OBVIOUS
<1>1. Unsent
  BY DEF Init, Unsent, NewScript
<1>2. OneProgram
  BY ConstantsAssumption DEF Init, OneProgram, AtWork, NewScript, Scripts, NoScript
<1>3. Uploaded /\ Connected
  BY DEF Init, Uploaded, WaitsOnScript, NewTask, Connected, NewSocketServer
<1> QED
  BY <1>1, <1>2, <1>3 DEF SentInv

\* Every step keeps the invariant of the scripts.
LEMMA NextSentInv ==
  ASSUME TypeInv, TypeInv', OneTrigger, SentInv, Next
  PROVE  SentInv'
<1>1. CASE \E g \in Goals : Upload(g)
  BY <1>1, UploadSends
<1>2. CASE \A g \in Goals : ~ Upload(g)
  BY <1>2, OnlyUploadSends, OthersGoOn, SentKept
<1> QED
  BY <1>1, <1>2

------------------------------------------------------------------------------
(***************************************************************************)
(* Two things that follow for any client: a relative move is driven once,  *)
(* and, as long as the dashboard carries out the stops it accepts, a goal  *)
(* that ends as cancelled leaves no script running.                        *)
(***************************************************************************)
\* A relative move is never re-issued, so it keeps to its first script.
OneScript ==
  \A g \in Goals :
    Kind[g] = "relative" => task[g].attempt = 1 /\ task[g].pc \notin {"claim", "reissue", "drain"}

\* A task has a result only on its way out.
ResultIsLast ==
  \A g \in Goals : task[g].result # "none" => task[g].pc \in {"publish", "teardown", "gone"}

\* Where a task is, and in which attempt, with what was made of it.
Outcome(g) == <<Place(g), task[g].result, task[g].stop>>

\* Whoever is not the goal's own task leaves its result, and only the dashboard its stop.
LEMMA SignalOutcome ==
  ASSUME task \in [Goals -> Tasks], NEW h \in Goals, NEW v,
         \/ task' = [task EXCEPT ![h].verdict = v]
         \/ task' = [task EXCEPT ![h].handshake = v]
         \/ task' = [task EXCEPT ![h].resume = v]
         \/ task' = [task EXCEPT ![h].cancel = v]
         \/ task' = [task EXCEPT ![h].answer = v]
  PROVE  \A g \in Goals : UNCHANGED Outcome(g)
BY DEF Tasks, Place, Outcome

\* Resolving a goal is such a signal.
LEMMA ResolveOutcome ==
  ASSUME task \in [Goals -> Tasks], ds \in DriverStates, NEW v, task' = Resolve(v)
  PROVE  \A g \in Goals : UNCHANGED Outcome(g)
<1>1. CASE ds.goalSender = NoGoal
  BY <1>1 DEF Resolve, Outcome, Place
<1>2. CASE ds.goalSender \in Goals /\ ds.goalSender # NoGoal
  BY <1>2, SignalOutcome DEF Resolve
<1> QED
  BY <1>1, <1>2 DEF DriverStates, OptGoal

\* The socket server and the realtime reader send no other.
LEMMA ReadersOutcome ==
  ASSUME TypeInv, SocketServerNext \/ RealtimeReaderNext
  PROVE  \A g \in Goals : UNCHANGED Outcome(g)
<1> USE DEF TypeInv, TypeOK
<1>1. CASE Accept \/ Greet
  BY <1>1 DEF Accept, Greet, Outcome, Place
<1>2. CASE ReadEcho
  <2>1. \E v : task' = [task EXCEPT ![ss.handshake].handshake = v]
    BY <1>2 DEF ReadEcho
  <2>2. ss.handshake \in Goals
    BY <1>2 DEF ReadEcho, ConnectionServed
  <2> QED
    BY <2>1, <2>2, SignalOutcome
<1>3. CASE ReadLine
  <2>1. task' = task \/ \E v : task' = Resolve(v)
    BY <1>3 DEF ReadLine
  <2> QED
    BY <2>1, ResolveOutcome DEF Outcome, Place
<1>4. CASE ReadClose
  BY <1>4, ResolveOutcome DEF ReadClose
<1>5. CASE RealtimeReaderNext
  <2>1. task' = task \/ task' = Resolve("failed")
    BY <1>5 DEF RealtimeReaderNext, ConnectRealtime, LoseRealtime, ReadFrame, Resolve
  <2> QED
    BY <2>1, ResolveOutcome DEF Outcome, Place
<1> QED
  BY <1>1, <1>2, <1>3, <1>4, <1>5 DEF SocketServerNext

\* A command of the operator tells a goal no more than to resume.
LEMMA OperatorOutcome ==
  ASSUME TypeInv, DashboardNext, ~ ServeStop
  PROVE  \A g \in Goals : UNCHANGED Outcome(g)
<1> USE DEF TypeInv, TypeOK
<1>1. CASE PlayFallsBack
  <2>1. \/ task' = task
        \/ dash.resume \in Goals /\ task' = [task EXCEPT ![dash.resume].resume = TRUE]
    BY <1>1 DEF PlayFallsBack, Dashboards, OptGoal
  <2> QED
    BY <2>1, SignalOutcome DEF Outcome, Place
<1>2. CASE Pause \/ LatchPause \/ LosePause \/ Resume \/ PlayResumes \/ LosePlay
  BY <1>2 DEF Pause, LatchPause, LosePause, Resume, PlayResumes, LosePlay, Outcome, Place
<1> QED
  BY <1>1, <1>2 DEF DashboardNext

\* A stop is answered to the goal that sent it, if it still waits for the answer.
LEMMA StopOutcome ==
  ASSUME TypeInv, ServeStop
  PROVE  \A g \in Goals : /\ UNCHANGED Place(g) /\ task'[g].result = task[g].result
                          /\ UNCHANGED Outcome(g) \/ task[g].pc \in {"stopping", "reissue"}
<1> USE DEF TypeInv, TypeOK
<1>1. Head(dash.stops) \in Goals
  BY DEF ServeStop, Dashboards
<1>2. PICK v : Reply(Head(dash.stops), v)
  BY DEF ServeStop
<1>3. CASE task[Head(dash.stops)].pc \in {"stopping", "reissue"}
  <2>1. task' = [task EXCEPT ![Head(dash.stops)].stop = v]
    BY <1>2, <1>3 DEF Reply
  <2> QED
    BY <1>1, <1>3, <2>1 DEF Outcome, Place, Tasks
<1>4. CASE task[Head(dash.stops)].pc \notin {"stopping", "reissue"}
  BY <1>2, <1>4 DEF Reply, Outcome, Place
<1> QED
  BY <1>3, <1>4

\* Nor does anything outside the driver, and command_server only spawns a task.
LEMMA AroundOutcome ==
  ASSUME TypeInv, OneTrigger,
         \/ (\E g \in Goals : ClientSubmit(g)) \/ ClientCancel \/ CommandServerNext
         \/ ControllerNext
  PROVE  \A g \in Goals :
           \/ UNCHANGED Outcome(g)
           \/ /\ task[g].pc = "absent" /\ task'[g].pc = "connect"
              /\ task'[g].attempt = task[g].attempt /\ task'[g].result = task[g].result
<1> USE DEF TypeInv, TypeOK
<1>1. CASE (\E g \in Goals : ClientSubmit(g)) \/ ClientCancel \/ ControllerNext
  BY <1>1 DEF ClientSubmit, ClientCancel, ControllerNext, Dial, Echo, GiveUp, ReachWaypoint,
     FinishMove, KillProgram, Outcome, Place
<1>2. CASE ReadRequestKeys \/ ConsumeTrigger \/ Admit \/ WriteExecuting
  BY <1>2 DEF ReadRequestKeys, ConsumeTrigger, Admit, WriteExecuting, Outcome, Place
<1>3. CASE DeliverCancel
  <2>1. \/ task' = task
        \/ ds.cancelSender \in Goals /\ task' = [task EXCEPT ![ds.cancelSender].cancel = TRUE]
    BY <1>3 DEF DeliverCancel, DriverStates, OptGoal
  <2> QED
    BY <2>1, SignalOutcome DEF Outcome, Place
<1>4. CASE Reject
  <2>1. cs.goal \in Goals /\ task' = [task EXCEPT ![cs.goal].answer = "failed"]
    BY <1>4 DEF Reject, RequestNamed
  <2> QED
    BY <2>1, SignalOutcome
<1>5. CASE SpawnGoal
  <2>1. cs.goal \in Goals /\ task[cs.goal].pc = "absent"
    BY <1>5 DEF SpawnGoal, RequestNamed, OneTrigger, DecidedOnce, Deciding
  <2> QED
    BY <1>5, <2>1 DEF SpawnGoal, Tasks, Outcome, Place
<1> QED
  BY <1>1, <1>2, <1>3, <1>4, <1>5 DEF CommandServerNext

\* A script that has ended stays as it ended: nothing is sent under its name again.
LEMMA EndedIsFinal ==
  ASSUME TypeInv, TypeInv', SentInv, Next
  PROVE  \A s \in Scripts : Ended(s) => script'[s].pc = script[s].pc
<1>1. CASE \E g \in Goals : Upload(g)
  <2>1. PICK g \in Goals : Upload(g)
    BY <1>1
  <2>2. ASSUME NEW s \in Scripts, Ended(s) PROVE script'[s].pc = script[s].pc
    <3>1. s # Script(g) /\ s # robot.prog
      BY <2>1, <2>2, UploadSends DEF Ended, SentInv, OneProgram, AtWork
    <3> QED
      BY <2>1, <3>1, UploadSends
  <2> QED
    BY <2>2
<1>2. CASE \A g \in Goals : ~ Upload(g)
  BY <1>2, OthersGoOn DEF ScriptsGoOn
<1> QED
  BY <1>1, <1>2

\* A stop that was answered, and a cancel that was, left no script of the goal running.
StopKills ==
  \A g \in Goals :
    /\ task[g].pc \in {"stopping", "reissue"} /\ task[g].stop \in {"ok", "failed"} =>
         Ended(Script(g))
    /\ task[g].result = "CANCELED" => Ended(Script(g))

\* What a goal's task makes of itself in one step.
LEMMA TaskOutcome ==
  ASSUME TypeInv, NEW g \in Goals, HandleRequestNext(g)
  PROVE  /\ task[g].pc # "absent"
         /\ \A h \in Goals : h # g => task'[h] = task[h]
         /\ \/ task'[g].attempt = task[g].attempt /\ task[g].pc # "drain"
            \/ task[g].pc = "drain" /\ task'[g].pc = "connect"
         /\ task'[g].pc \in {"claim", "reissue", "drain"} =>
              task[g].pc \in {"claim", "reissue"} \/ Kind[g] # "relative"
         /\ \/ task'[g].result = task[g].result
            \/ task[g].pc \notin {"publish", "teardown", "gone"} /\ task'[g].pc = "publish"
         /\ task[g].pc \in {"publish", "teardown", "gone"} => task'[g].pc \in {"teardown", "gone"}
         /\ task'[g].result = "CANCELED" =>
              \/ task[g].result = "CANCELED"
              \/ task[g].pc = "stopping" /\ task[g].stop \in {"ok", "failed"}
         /\ task'[g].pc \in {"stopping", "reissue"} => task'[g].stop = "sent"
<1> USE DEF TypeInv, TypeOK
<1>1. /\ task[g].pc # "absent"
      /\ \A h \in Goals : h # g => task'[h] = task[h]
  BY DEF HandleRequestNext, Connect, InstallGoal, Upload, UploadFails, HandshakeAnswered,
     HandshakeTimeout, RunningVerdict, CancelGoal, StopAnswered, StoppingVerdict, VerdictArrives,
     ResumeGoal, ClaimReissue, ReissueStopped, NextAttempt, Publish, Teardown, Goto, Finish
<1>2. CASE Connect(g) \/ InstallGoal(g) \/ Upload(g) \/ UploadFails(g) \/ HandshakeAnswered(g)
           \/ HandshakeTimeout(g) \/ Publish(g) \/ Teardown(g)
  BY <1>1, <1>2 DEF Connect, InstallGoal, Upload, UploadFails, HandshakeAnswered,
     HandshakeTimeout, Publish, Teardown, Goto, Finish, Tasks
<1>3. CASE RunningVerdict(g) \/ CancelGoal(g) \/ StopAnswered(g) \/ StoppingVerdict(g)
  BY <1>1, <1>3 DEF RunningVerdict, CancelGoal, StopAnswered, StopReplied, StoppingVerdict,
     VerdictArrives, VerdictResult, Finish, Tasks
<1>4. CASE ResumeGoal(g) \/ ClaimReissue(g) \/ ReissueStopped(g) \/ NextAttempt(g)
  BY <1>1, <1>4 DEF ResumeGoal, Resumable, ClaimReissue, ReissueStopped, NextAttempt, Goto, Tasks
<1> QED
  BY <1>2, <1>3, <1>4 DEF HandleRequestNext

\* A restart ends the tasks that are alive, and makes nothing else of them.
LEMMA RestartOutcome ==
  ASSUME TypeInv, Restart
  PROVE  \A g \in Goals : /\ task'[g].pc \in {"absent", "gone"}
                          /\ task'[g].pc = "absent" => task[g].pc = "absent"
                          /\ task'[g].attempt = task[g].attempt
                          /\ task'[g].result = task[g].result
BY DEF Restart, Live, TypeInv, TypeOK, Tasks

\* What a step makes of a task it does not belong to.
Bystander(g) ==
  /\ task'[g].attempt = task[g].attempt /\ task'[g].result = task[g].result
  /\ \/ UNCHANGED Outcome(g)
     \/ task[g].pc = "absent" /\ task'[g].pc = "connect"
     \/ task'[g].pc = "gone"
     \/ task[g].pc \in {"stopping", "reissue"} /\ task'[g].pc = task[g].pc /\ ServeStop

\* Whoever takes a step, it is a task's own or that task stands by.
LEMMA OwnOrBystander ==
  ASSUME TypeInv, OneTrigger, Next, NEW g \in Goals
  PROVE  HandleRequestNext(g) \/ Bystander(g)
<1>1. CASE (\E h \in Goals : ClientSubmit(h)) \/ ClientCancel \/ CommandServerNext
           \/ ControllerNext
  BY <1>1, AroundOutcome DEF Bystander, Outcome, Place
<1>2. CASE SocketServerNext \/ RealtimeReaderNext
  BY <1>2, ReadersOutcome DEF Bystander, Outcome, Place
<1>3. CASE DashboardNext
  BY <1>3, OperatorOutcome, StopOutcome DEF Bystander, Outcome, Place
<1>4. ASSUME NEW h \in Goals, HandleRequestNext(h) PROVE HandleRequestNext(g) \/ Bystander(g)
  BY <1>4, TaskOutcome DEF Bystander, Outcome, Place
<1>5. CASE Restart
  <2>1. CASE task'[g].pc = "gone"
    BY <1>5, <2>1, RestartOutcome DEF Bystander
  <2>2. CASE task'[g].pc = "absent"
    BY <1>5, <2>2 DEF Restart, Live, Bystander, Outcome, Place, TypeInv, TypeOK, Tasks
  <2> QED
    BY <1>5, <2>1, <2>2, RestartOutcome
<1> QED
  BY <1>1, <1>2, <1>3, <1>4, <1>5 DEF Next

\* A relative move stays with its first script, and a task gets its result at its end.
LEMMA NextOneScript ==
  ASSUME TypeInv, OneTrigger, OneScript, ResultIsLast, Next
  PROVE  OneScript' /\ ResultIsLast'
<1>1. ASSUME NEW g \in Goals
      PROVE  /\ Kind[g] = "relative" =>
                  task'[g].attempt = 1 /\ task'[g].pc \notin {"claim", "reissue", "drain"}
             /\ task'[g].result # "none" => task'[g].pc \in {"publish", "teardown", "gone"}
  <2>1. CASE HandleRequestNext(g)
    BY <2>1, TaskOutcome DEF OneScript, ResultIsLast
  <2>2. CASE Bystander(g)
    BY <2>2 DEF Bystander, Outcome, Place, OneScript, ResultIsLast
  <2> QED
    BY <2>1, <2>2, OwnOrBystander
<1> QED
  BY <1>1 DEF OneScript, ResultIsLast

\* A stop that is served kills the program, whichever it is, when it is not refused.
LEMMA ServeStopKills ==
  ASSUME TypeInv, SentInv, {"stop_refused", "dash_lost"} \intersect Faults = {}, ServeStop,
         NEW s \in Scripts, script[s].pc # "absent"
  PROVE  Ended(s)'
<1> USE DEF TypeInv, TypeOK
<1>1. script' = Killed(script, robot.prog)
  BY DEF ServeStop
<1>2. CASE robot.prog = s
  BY <1>1, <1>2 DEF Killed, Ended, ScriptStates
<1>3. CASE robot.prog # s
  BY <1>1, <1>3 DEF Killed, Ended, ScriptStates, ScriptPcs, SentInv, OneProgram, AtWork
<1> QED
  BY <1>2, <1>3

\* So every step keeps StopKills.
LEMMA NextStopKills ==
  ASSUME TypeInv, TypeInv', OneTrigger, SentInv, ResultIsLast, StopKills, Next,
         {"stop_refused", "dash_lost"} \intersect Faults = {}
  PROVE  StopKills'
<1>1. ASSUME NEW g \in Goals, NEW s \in Scripts, s = <<g, task'[g].attempt>>
      PROVE  /\ task'[g].pc \in {"stopping", "reissue"} /\ task'[g].stop \in {"ok", "failed"} =>
                  Ended(s)'
             /\ task'[g].result = "CANCELED" => Ended(s)'
  <2>1. task'[g].attempt = task[g].attempt =>
          /\ task[g].pc \in {"stopping", "reissue"} => script[s].pc # "absent"
          /\ task[g].pc \in {"stopping", "reissue"} /\ task[g].stop \in {"ok", "failed"} =>
               Ended(s)
          /\ task[g].result = "CANCELED" => Ended(s)
    BY <1>1 DEF SentInv, Uploaded, WaitsOnScript, StopKills, Script
  <2>2. Ended(s) => Ended(s)'
    BY EndedIsFinal DEF Ended
  <2>3. CASE HandleRequestNext(g)
    <3>1. CASE task'[g].attempt = task[g].attempt
      BY <2>1, <2>2, <2>3, <3>1, TaskOutcome
    <3>2. CASE task[g].pc = "drain" /\ task'[g].pc = "connect"
      BY <2>3, <3>2, TaskOutcome DEF ResultIsLast
    <3> QED
      BY <2>3, <3>1, <3>2, TaskOutcome
  <2>4. CASE Bystander(g)
    <3>1. task'[g].attempt = task[g].attempt /\ task'[g].result = task[g].result
      BY <2>4 DEF Bystander
    <3>2. CASE task[g].pc \in {"stopping", "reissue"} /\ ServeStop
      BY <2>1, <3>1, <3>2, ServeStopKills
    <3>3. CASE UNCHANGED Outcome(g) \/ task'[g].pc \in {"connect", "gone"}
      BY <2>1, <2>2, <3>1, <3>3 DEF Outcome, Place
    <3> QED
      BY <2>4, <3>2, <3>3 DEF Bystander
  <2> QED
    BY <2>3, <2>4, OwnOrBystander
<1>2. \A g \in Goals : <<g, task'[g].attempt>> \in Scripts
  BY DEF TypeInv, TypeOK, Tasks, Scripts
<1>3. ASSUME NEW g \in Goals
      PROVE  /\ task'[g].pc \in {"stopping", "reissue"} /\ task'[g].stop \in {"ok", "failed"} =>
                  Ended(Script(g))'
             /\ task'[g].result = "CANCELED" => Ended(Script(g))'
  BY <1>1, <1>2 DEF Script, Ended
<1> QED
  BY <1>3 DEF StopKills

\* All of it but StopKills, which needs the stops to be carried out.
ScriptInv == TypeInv /\ OneTrigger /\ SentInv /\ OneScript /\ ResultIsLast

\* No task has done anything at first.
LEMMA InitScriptInv == Init => ScriptInv /\ StopKills
<1> SUFFICES ASSUME Init PROVE ScriptInv /\ StopKills
  OBVIOUS
<1>1. OneScript /\ ResultIsLast /\ StopKills
  BY DEF Init, OneScript, ResultIsLast, StopKills, NewTask
<1> QED
  BY <1>1, InitTypeInv, InitOneTrigger, InitSentInv DEF ScriptInv

\* The invariant is inductive.
LEMMA NextScriptInv ==
  ScriptInv /\ [Next]_vars =>
    ScriptInv' /\ ({"stop_refused", "dash_lost"} \intersect Faults = {} /\ StopKills => StopKills')
<1> SUFFICES ASSUME ScriptInv, [Next]_vars
             PROVE  /\ ScriptInv'
                    /\ {"stop_refused", "dash_lost"} \intersect Faults = {} /\ StopKills =>
                         StopKills'
  OBVIOUS
<1>1. TypeInv'
  BY NextTypeInv DEF ScriptInv
<1>2. CASE Next
  BY <1>1, <1>2, NextOneTrigger, NextSentInv, NextOneScript, NextStopKills DEF ScriptInv
<1>3. CASE UNCHANGED vars
  <2>1. OneTrigger' /\ OneScript' /\ ResultIsLast'
    BY <1>3 DEF vars, ScriptInv, OneTrigger, NotYetSubmitted, TriggerIsFresh, TriggerAsRead,
       DecidedOnce, Deciding, OneScript, ResultIsLast
  <2>2. SentInv'
    BY <1>3 DEF vars, ScriptInv, SentInv, Unsent, Ahead, OneProgram, AtWork, Uploaded, Connected,
       Script
  <2>3. StopKills => StopKills'
    BY <1>3 DEF vars, StopKills, Ended, Script
  <2> QED
    BY <1>1, <2>1, <2>2, <2>3 DEF ScriptInv
<1> QED
  BY <1>2, <1>3

\* No offset is driven twice, however the pauses, the failures and the next requests
\* fall: of a relative move's scripts only the first is ever sent.
THEOREM OffsetsAreDrivenOnce == Spec => []RelativeMovesOnce
<1>1. ScriptInv => RelativeMovesOnce
  <2> SUFFICES ASSUME ScriptInv, NEW s \in Scripts, Kind[s[1]] = "relative",
                      script[s].link = "greeted"
               PROVE  s[2] = 1
    BY DEF RelativeMovesOnce, Scripts
  <2>1. s[1] \in Goals /\ s[2] \in Nat /\ s[2] >= 1
    BY DEF Scripts
  <2>2. task[s[1]].attempt = 1
    BY <2>1 DEF ScriptInv, OneScript
  <2>3. ~ Ahead(s)
    BY DEF ScriptInv, SentInv, Unsent, NewScript
  <2> QED
    BY <2>1, <2>2, <2>3 DEF Ahead
<1> QED
  BY <1>1, InitScriptInv, NextScriptInv, PTL DEF Spec

\* A goal that ends as cancelled leaves no script of it running, whatever is submitted
\* meanwhile: it waited for its stop, and a stop the dashboard serves kills what runs.
THEOREM CancelledScriptsAreStopped ==
  ASSUME {"stop_refused", "dash_lost"} \intersect Faults = {}
  PROVE  Spec => []CancelStopsScript
<1> DEFINE Inv == ScriptInv /\ StopKills
<1>1. Init => Inv
  BY InitScriptInv
<1>2. Inv /\ [Next]_vars => Inv'
  BY NextScriptInv
<1>3. Inv => CancelStopsScript
  BY DEF StopKills, CancelStopsScript
<1> QED
  BY <1>1, <1>2, <1>3, PTL DEF Spec
================================================================================
