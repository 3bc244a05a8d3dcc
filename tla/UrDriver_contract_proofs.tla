----------------------- MODULE UrDriver_contract_proofs -----------------------
(***************************************************************************)
(* A client that waits for a terminal request_state before its next        *)
(* request gets one goal run at a time, for any number of goals and any    *)
(* faults, and UrDriver implements MotionRequest for it unless the driver  *)
(* starts again (greet_reset), over keys that forget the request.          *)
(*                                                                         *)
(* InTurn is what makes it so: the one request in hand is waiting for its  *)
(* trigger, being decided on, or run by a task, never two of these, and    *)
(* request_state says which.                                               *)
(***************************************************************************)
EXTENDS UrDriver_guard_proofs

\* A pending trigger is for a request nobody has looked at yet.
PendingIsInitial == req.trigger => req.state = "initial"

\* The request being decided on is the one the keys name.
DecidingInTurn ==
  Deciding =>
    /\ cs.goal = req.goal
    /\ req.state = IF cs.pc = "install" THEN "executing" ELSE "initial"

\* So is the one that is run, and command_server is not deciding on another.
RunningInTurn ==
  \A g \in Goals : Unanswered(g) => g = req.goal /\ req.state = "executing" /\ ~ Deciding

InTurn == PendingIsInitial /\ DecidingInTurn /\ RunningInTurn

PatientInv == TypeInv /\ OneTrigger /\ InTurn

\* What was said of a request: its answer to the client, a cancel to its task.
Told(g) == <<task[g].answer, task[g].cancel>>

------------------------------------------------------------------------------
(***************************************************************************)
(* Who tells a request anything.                                           *)
(***************************************************************************)
\* A verdict, a handshake, a stop's reply or a resume left to one task is none of it.
LEMMA SignalTellsNobody ==
  ASSUME task \in [Goals -> Tasks], NEW h \in Goals, NEW v,
         \/ task' = [task EXCEPT ![h].verdict = v]
         \/ task' = [task EXCEPT ![h].handshake = v]
         \/ task' = [task EXCEPT ![h].stop = v]
         \/ task' = [task EXCEPT ![h].resume = v]
  PROVE  \A g \in Goals : UNCHANGED Told(g)
BY DEF Tasks, Told

\* Nor does resolving a goal.
LEMMA ResolveTellsNobody ==
  ASSUME task \in [Goals -> Tasks], ds \in DriverStates, NEW v, task' = Resolve(v)
  PROVE  \A g \in Goals : UNCHANGED Told(g)
<1>1. CASE ds.goalSender = NoGoal
  BY <1>1 DEF Resolve, Told
<1>2. CASE ds.goalSender \in Goals /\ ds.goalSender # NoGoal
  BY <1>2, SignalTellsNobody DEF Resolve
<1> QED
  BY <1>1, <1>2 DEF DriverStates, OptGoal

\* No step of the socket server tells a request anything.
LEMMA SocketServerTellsNobody ==
  ASSUME TypeInv, SocketServerNext
  PROVE  \A g \in Goals : UNCHANGED Told(g)
<1> USE DEF TypeInv, TypeOK
<1>1. CASE Accept \/ Greet
  BY <1>1 DEF Accept, Greet, Told
<1>2. CASE ReadEcho
  <2>1. \E v : task' = [task EXCEPT ![ss.handshake].handshake = v]
    BY <1>2 DEF ReadEcho
  <2>2. ss.handshake \in Goals
    BY <1>2 DEF ReadEcho, ConnectionServed
  <2> QED
    BY <2>1, <2>2, SignalTellsNobody
<1>3. CASE ReadLine
  <2>1. task' = task \/ \E v : task' = Resolve(v)
    BY <1>3 DEF ReadLine
  <2> QED
    BY <2>1, ResolveTellsNobody DEF Told
<1>4. CASE ReadClose
  BY <1>4, ResolveTellsNobody DEF ReadClose
<1> QED
  BY <1>1, <1>2, <1>3, <1>4 DEF SocketServerNext

\* Nor does a frame, or a lost stream.
LEMMA RealtimeReaderTellsNobody ==
  ASSUME TypeInv, RealtimeReaderNext
  PROVE  \A g \in Goals : UNCHANGED Told(g)
<1>1. task' = task \/ task' = Resolve("failed")
  BY DEF RealtimeReaderNext, ConnectRealtime, LoseRealtime, ReadFrame, Resolve
<1> QED
  BY <1>1, ResolveTellsNobody DEF TypeInv, TypeOK, Told

\* Nor does the dashboard task.
LEMMA DashboardTellsNobody ==
  ASSUME TypeInv, DashboardNext
  PROVE  \A g \in Goals : UNCHANGED Told(g)
<1> USE DEF TypeInv, TypeOK
<1>1. CASE ServeStop
  <2>1. Head(dash.stops) \in Goals
    BY <1>1 DEF ServeStop, Dashboards
  <2>2. task' = task \/ \E v : task' = [task EXCEPT ![Head(dash.stops)].stop = v]
    BY <1>1 DEF ServeStop, Reply
  <2> QED
    BY <2>1, <2>2, SignalTellsNobody DEF Told
<1>2. CASE PlayFallsBack
  <2>1. \/ task' = task
        \/ dash.resume \in Goals /\ task' = [task EXCEPT ![dash.resume].resume = TRUE]
    BY <1>2 DEF PlayFallsBack, Dashboards, OptGoal
  <2> QED
    BY <2>1, SignalTellsNobody DEF Told
<1>3. CASE Pause \/ LatchPause \/ LosePause \/ Resume \/ PlayResumes \/ LosePlay
  BY <1>3 DEF Pause, LatchPause, LosePause, Resume, PlayResumes, LosePlay, Told
<1> QED
  BY <1>1, <1>2, <1>3 DEF DashboardNext

------------------------------------------------------------------------------
(***************************************************************************)
(* The steps that neither submit, decide, spawn nor publish.               *)
(***************************************************************************)
\* They leave the request where it is in its walk, and tell nobody anything.
Aside ==
  /\ req'.trigger = req.trigger /\ req'.goal = req.goal /\ req'.state = req.state
  /\ client'.submitted = client.submitted
  /\ \A g \in Goals : task'[g].answer = task[g].answer
  /\ \A g \in Goals : Unanswered(g)' => Unanswered(g)

\* A step aside that leaves command_server alone keeps the turn.
LEMMA AsideKeepsTurn ==
  ASSUME InTurn, Aside, UNCHANGED cs
  PROVE  InTurn'
BY DEF InTurn, Aside, PendingIsInitial, DecidingInTurn, RunningInTurn, Deciding

\* A goal's task, until it publishes and in its teardown, is aside.
LEMMA TaskIsAside ==
  ASSUME TypeInv, NEW g \in Goals, HandleRequestNext(g), ~ Publish(g)
  PROVE  Aside /\ UNCHANGED cs
<1> USE DEF TypeInv, TypeOK
<1>1. UNCHANGED <<req, cs, client>>
  BY DEF HandleRequestNext, Connect, InstallGoal, Upload, UploadFails, HandshakeAnswered,
     HandshakeTimeout, RunningVerdict, CancelGoal, StopAnswered, StoppingVerdict, VerdictArrives,
     ResumeGoal, ClaimReissue, ReissueStopped, NextAttempt, Teardown
<1>2. \A h \in Goals : h # g => task'[h] = task[h]
  BY DEF HandleRequestNext, Connect, InstallGoal, Upload, UploadFails, HandshakeAnswered,
     HandshakeTimeout, RunningVerdict, CancelGoal, StopAnswered, StoppingVerdict, VerdictArrives,
     ResumeGoal, ClaimReissue, ReissueStopped, NextAttempt, Teardown, Goto, Finish
<1>3. task'[g].answer = task[g].answer
  BY DEF HandleRequestNext, Connect, InstallGoal, Upload, UploadFails, HandshakeAnswered,
     HandshakeTimeout, RunningVerdict, CancelGoal, StopAnswered, StoppingVerdict, VerdictArrives,
     ResumeGoal, ClaimReissue, ReissueStopped, NextAttempt, Teardown, Goto, Finish, Tasks
<1>4. task[g].pc \in {"absent", "teardown", "gone"} => task'[g].pc = "gone"
  BY DEF HandleRequestNext, Connect, InstallGoal, Upload, UploadFails, HandshakeAnswered,
     HandshakeTimeout, RunningVerdict, CancelGoal, StopAnswered, StoppingVerdict, VerdictArrives,
     ResumeGoal, ClaimReissue, ReissueStopped, NextAttempt, Teardown, Goto, Tasks
<1> QED
  BY <1>1, <1>2, <1>3, <1>4 DEF Aside, Unanswered, Live

\* So are the robot's side, the dashboard and a cancel the client asks for.
LEMMA OthersAreAside ==
  ASSUME TypeInv,
         \/ ClientCancel \/ SocketServerNext \/ RealtimeReaderNext
         \/ DashboardNext \/ ControllerNext
  PROVE  Aside /\ UNCHANGED cs
<1> USE DEF TypeInv, TypeOK
<1>1. CASE ClientCancel
  BY <1>1 DEF ClientCancel, Requests, Clients, Aside, Unanswered, Live
<1>2. CASE SocketServerNext
  <2>1. UNCHANGED <<req, cs, client>>
    BY <1>2 DEF SocketServerNext, Accept, Greet, ReadEcho, ReadLine, ReadClose
  <2> QED
    BY <1>2, <2>1, SocketServerPlace, SocketServerTellsNobody
       DEF Aside, Place, Told, Unanswered, Live
<1>3. CASE RealtimeReaderNext
  <2>1. UNCHANGED <<req, cs, client>>
    BY <1>3 DEF RealtimeReaderNext, ConnectRealtime, LoseRealtime, ReadFrame
  <2> QED
    BY <1>3, <2>1, RealtimeReaderPlace, RealtimeReaderTellsNobody
       DEF Aside, Place, Told, Unanswered, Live
<1>4. CASE DashboardNext
  <2>1. UNCHANGED <<req, cs>> /\ client'.submitted = client.submitted
    BY <1>4 DEF DashboardNext, ServeStop, Pause, LatchPause, LosePause, Resume, PlayResumes,
       PlayFallsBack, LosePlay, Clients
  <2> QED
    BY <1>4, <2>1, DashboardPlace, DashboardTellsNobody DEF Aside, Place, Told, Unanswered, Live
<1>5. CASE ControllerNext
  <2>1. UNCHANGED <<req, cs, task, client>>
    BY <1>5 DEF ControllerNext, Dial, Echo, GiveUp, ReachWaypoint, FinishMove, KillProgram
  <2> QED
    BY <2>1 DEF Aside, Unanswered, Live
<1> QED
  BY <1>1, <1>2, <1>3, <1>4, <1>5

\* So is command_server while it reads the keys, hands a cancel on, and looks at the
\* request: none of it is on request_state yet.
LEMMA ServerIsAside ==
  ASSUME TypeInv, ReadRequestKeys \/ DeliverCancel \/ Admit
  PROVE  Aside
<1> USE DEF TypeInv, TypeOK
<1>1. CASE ReadRequestKeys \/ Admit
  BY <1>1 DEF ReadRequestKeys, Admit, Aside, Unanswered, Live
<1>2. CASE DeliverCancel
  <2>1. \/ task' = task
        \/ ds.cancelSender \in Goals /\ task' = [task EXCEPT ![ds.cancelSender].cancel = TRUE]
    BY <1>2 DEF DeliverCancel, DriverStates, OptGoal
  <2>2. \A g \in Goals : UNCHANGED Place(g) /\ task'[g].answer = task[g].answer
    <3>1. ASSUME NEW g \in Goals PROVE task'[g].answer = task[g].answer
      BY <1>2 DEF DeliverCancel, Tasks
    <3> QED
      BY <2>1, <3>1, SignalPlace DEF Place
  <2> QED
    BY <1>2, <2>2 DEF DeliverCancel, CancelConsumed, Requests, Aside, Place, Unanswered, Live
<1> QED
  BY <1>1, <1>2

------------------------------------------------------------------------------
(***************************************************************************)
(* The steps of the walk: submit, consume, reject, execute, spawn, publish.*)
(***************************************************************************)
\* What MotionRequest sees, and its variables unchanged.
Seen == <<client.submitted, req.goal, req.state, [g \in Goals |-> task[g].answer]>>
Step == Contract!Next \/ UNCHANGED Seen

\* A step aside is a stutter.
LEMMA AsideIsStutter == Aside => Step
<1> SUFFICES ASSUME Aside PROVE UNCHANGED Seen
  BY DEF Step
<1>1. [g \in Goals |-> task[g].answer]' = [g \in Goals |-> task[g].answer]
  BY DEF Aside
<1> QED
  BY <1>1 DEF Aside, Seen

\* The client submits only when nothing is being decided on or run.
LEMMA SubmitInTurn ==
  ASSUME PatientInv, Patience # "none", NEW g \in Goals, ClientSubmit(g)
  PROVE  InTurn' /\ Contract!Submit(g)
<1> USE DEF PatientInv, TypeInv, TypeOK
<1>1. Answered /\ ~ req.trigger /\ g \notin client.submitted
  BY DEF ClientSubmit, MaySubmit
<1>2. /\ req'.trigger /\ req'.state = "initial" /\ req'.goal = g
      /\ client'.submitted = client.submitted \union {g} /\ UNCHANGED <<cs, task>>
  BY DEF ClientSubmit, Requests, Clients
<1>3. ~ Deciding
  BY <1>1, ConstantsAssumption
     DEF Answered, InTurn, DecidingInTurn, RequestNamed, Deciding, Terminal
<1>4. \A h \in Goals : ~ Unanswered(h)
  BY <1>1, ConstantsAssumption DEF Answered, InTurn, RunningInTurn, Terminal
<1>5. InTurn'
  BY <1>2, <1>3, <1>4 DEF InTurn, PendingIsInitial, DecidingInTurn, RunningInTurn, Deciding,
     Unanswered, Live
<1>6. Contract!Submit(g)
  BY <1>1, <1>2 DEF Answered, Terminal, Contract!Submit
<1> QED
  BY <1>5, <1>6

\* A trigger is consumed while the request is still initial, and nothing is run.
LEMMA ConsumeInTurn ==
  ASSUME PatientInv, ConsumeTrigger
  PROVE  InTurn' /\ UNCHANGED Seen
<1> USE DEF PatientInv, TypeInv, TypeOK
<1>1. cs.trigger /\ req.trigger /\ cs.goal = req.goal /\ req.state = "initial"
  BY DEF ConsumeTrigger, RequestNamed, OneTrigger, TriggerAsRead, InTurn, PendingIsInitial
<1>2. /\ ~ req'.trigger /\ req'.state = req.state /\ req'.goal = req.goal
      /\ UNCHANGED <<task, client>>
  BY DEF ConsumeTrigger, Requests
<1>3. cs' = NewCommandServer \/ (cs'.goal = cs.goal /\ cs'.pc \in {"admit", "reject"})
  BY DEF ConsumeTrigger, CommandServers
<1>4. \A g \in Goals : ~ Unanswered(g)
  BY <1>1 DEF InTurn, RunningInTurn
<1>5. \A g \in Goals : ~ Unanswered(g)'
  BY <1>2, <1>4 DEF Unanswered, Live
<1>6. DecidingInTurn'
  BY <1>1, <1>2, <1>3 DEF DecidingInTurn, Deciding, NewCommandServer
<1>7. PendingIsInitial' /\ RunningInTurn'
  BY <1>2, <1>5 DEF PendingIsInitial, RunningInTurn
<1>8. UNCHANGED Seen
  BY <1>2 DEF Seen
<1> QED
  BY <1>6, <1>7, <1>8 DEF InTurn

\* A refusal answers the request in hand, which no task is running.
LEMMA RejectInTurn ==
  ASSUME PatientInv, Reject
  PROVE  InTurn' /\ Contract!Finish
<1> USE DEF PatientInv, TypeInv, TypeOK
<1>1. /\ Deciding /\ cs.goal = req.goal /\ cs.goal \in Goals /\ req.state = "initial"
      /\ ~ req.trigger
  BY DEF Reject, Deciding, InTurn, DecidingInTurn, RequestNamed, OneTrigger, DecidedOnce
<1>2. /\ req'.trigger = req.trigger /\ req'.state = "failed" /\ req'.goal = req.goal
      /\ cs'.pc = "idle" /\ UNCHANGED client
  BY DEF Reject, Requests, NewCommandServer
<1>3. \A g \in Goals : task'[g].pc = task[g].pc
  BY DEF Reject, Tasks
<1>4. [g \in Goals |-> task'[g].answer]
        = [[g \in Goals |-> task[g].answer] EXCEPT ![req.goal] = req'.state]
  <2>1. \A g \in Goals :
          task'[g].answer = IF g = req.goal THEN req'.state ELSE task[g].answer
    BY <1>1, <1>2 DEF Reject, Tasks
  <2> QED
    BY <2>1
<1>5. \A g \in Goals : ~ Unanswered(g)'
  BY <1>1, <1>3 DEF InTurn, RunningInTurn, Unanswered, Live
<1>6. InTurn'
  BY <1>1, <1>2, <1>5 DEF InTurn, PendingIsInitial, DecidingInTurn, RunningInTurn, Deciding
<1>7. Contract!Finish
  BY <1>1, <1>2, <1>4, ConstantsAssumption DEF Contract!Finish
<1> QED
  BY <1>6, <1>7

\* An admitted request is executing before its task exists.
LEMMA ExecuteInTurn ==
  ASSUME PatientInv, WriteExecuting
  PROVE  InTurn' /\ Contract!Start
<1> USE DEF PatientInv, TypeInv, TypeOK
<1>1. /\ Deciding /\ cs.goal = req.goal /\ cs.goal \in Goals /\ req.state = "initial"
      /\ ~ req.trigger
  BY DEF WriteExecuting, Deciding, InTurn, DecidingInTurn, RequestNamed, OneTrigger, DecidedOnce
<1>2. /\ req'.trigger = req.trigger /\ req'.state = "executing" /\ req'.goal = req.goal
      /\ cs'.pc = "install" /\ cs'.goal = cs.goal /\ UNCHANGED <<task, client>>
  BY DEF WriteExecuting, Requests, CommandServers
<1>3. \A g \in Goals : ~ Unanswered(g)
  BY <1>1 DEF InTurn, RunningInTurn
<1>4. \A g \in Goals : ~ Unanswered(g)'
  BY <1>2, <1>3 DEF Unanswered, Live
<1>5. InTurn'
  BY <1>1, <1>2, <1>4 DEF InTurn, PendingIsInitial, DecidingInTurn, RunningInTurn, Deciding
<1>6. Contract!Start
  BY <1>1, <1>2, ConstantsAssumption DEF Contract!Start
<1> QED
  BY <1>5, <1>6

\* Its task is the only one that has not answered.
LEMMA SpawnInTurn ==
  ASSUME PatientInv, SpawnGoal
  PROVE  InTurn' /\ UNCHANGED Seen
<1> USE DEF PatientInv, TypeInv, TypeOK
<1>1. /\ Deciding /\ cs.goal = req.goal /\ cs.goal \in Goals /\ req.state = "executing"
      /\ ~ req.trigger
  BY DEF SpawnGoal, Deciding, InTurn, DecidingInTurn, RequestNamed, OneTrigger, DecidedOnce
<1>2. UNCHANGED <<req, client>> /\ cs'.pc = "idle"
  BY DEF SpawnGoal, NewCommandServer
<1>3. \A g \in Goals : g # cs.goal => ~ Unanswered(g)'
  <2>1. \A g \in Goals : g # cs.goal => task'[g] = task[g]
    BY <1>1 DEF SpawnGoal
  <2> QED
    BY <1>1, <2>1 DEF InTurn, RunningInTurn, Unanswered, Live
<1>4. \A g \in Goals : task'[g].answer = task[g].answer
  BY DEF SpawnGoal, Tasks
<1>5. InTurn'
  BY <1>1, <1>2, <1>3 DEF InTurn, PendingIsInitial, DecidingInTurn, RunningInTurn, Deciding
<1>6. UNCHANGED Seen
  BY <1>2, <1>4 DEF Seen
<1> QED
  BY <1>5, <1>6

\* A task that publishes answers the request in hand.
LEMMA PublishInTurn ==
  ASSUME PatientInv, NEW g \in Goals, Publish(g)
  PROVE  InTurn' /\ Contract!Finish
<1> USE DEF PatientInv, TypeInv, TypeOK
<1>1. g = req.goal /\ req.state = "executing" /\ ~ Deciding /\ ~ req.trigger
  BY DEF Publish, InTurn, RunningInTurn, PendingIsInitial, Unanswered, Live
<1>2. /\ req'.trigger = req.trigger /\ req'.goal = req.goal
      /\ req'.state \in {"succeeded", "failed"} /\ UNCHANGED <<cs, client>>
  BY DEF Publish, TerminalState, Requests
<1>3. \A h \in Goals : ~ Unanswered(h)'
  <2>1. task'[g].pc = "teardown" /\ \A h \in Goals : h # g => task'[h] = task[h]
    BY DEF Publish, Tasks
  <2> QED
    BY <1>1, <2>1 DEF InTurn, RunningInTurn, Unanswered, Live
<1>4. [h \in Goals |-> task'[h].answer]
        = [[h \in Goals |-> task[h].answer] EXCEPT ![req.goal] = req'.state]
  <2>1. req'.state = TerminalState(task[g].result)
    BY DEF Publish, Requests
  <2>2. \A h \in Goals :
          task'[h].answer = IF h = req.goal THEN req'.state ELSE task[h].answer
    BY <1>1, <2>1 DEF Publish, Tasks
  <2> QED
    BY <2>2
<1>5. InTurn'
  BY <1>1, <1>2, <1>3 DEF InTurn, PendingIsInitial, DecidingInTurn, RunningInTurn, Deciding
<1>6. Contract!Finish
  BY <1>1, <1>2, <1>4, ConstantsAssumption DEF Contract!Finish
<1> QED
  BY <1>5, <1>6

------------------------------------------------------------------------------
(***************************************************************************)
(* The theorems.                                                           *)
(***************************************************************************)
\* Every step keeps the turn, and all but a restart are a step of MotionRequest or
\* none of it.
LEMMA NextInTurn ==
  ASSUME PatientInv, Next, Patience # "none"
  PROVE  InTurn' /\ (Restart \/ Step)
<1> USE DEF PatientInv
<1>1. CASE \E g \in Goals : ClientSubmit(g)
  BY <1>1, SubmitInTurn DEF Step, Contract!Next
<1>2. CASE ClientCancel \/ SocketServerNext \/ RealtimeReaderNext \/ DashboardNext \/ ControllerNext
  BY <1>2, OthersAreAside, AsideKeepsTurn, AsideIsStutter
<1>3. CASE ReadRequestKeys \/ DeliverCancel \/ Admit
  <2>1. Aside
    BY <1>3, ServerIsAside
  <2>2. (Deciding' => Deciding) /\ (Deciding' => cs'.goal = cs.goal /\ cs.pc # "install")
    BY <1>3 DEF ReadRequestKeys, DeliverCancel, Admit, Deciding, TypeInv, TypeOK, CommandServers
  <2>3. Deciding' => cs'.pc # "install"
    BY <1>3 DEF ReadRequestKeys, DeliverCancel, Admit, Deciding, TypeInv, TypeOK, CommandServers
  <2>4. InTurn'
    BY <2>1, <2>2, <2>3 DEF Aside, InTurn, PendingIsInitial, DecidingInTurn, RunningInTurn
  <2> QED
    BY <2>1, <2>4, AsideIsStutter
<1>4. CASE ConsumeTrigger
  BY <1>4, ConsumeInTurn DEF Step
<1>5. CASE Reject
  BY <1>5, RejectInTurn DEF Step, Contract!Next
<1>6. CASE WriteExecuting
  BY <1>6, ExecuteInTurn DEF Step, Contract!Next
<1>7. CASE SpawnGoal
  BY <1>7, SpawnInTurn DEF Step
<1>8. ASSUME NEW g \in Goals, HandleRequestNext(g) PROVE InTurn' /\ Step
  <2>1. CASE Publish(g)
    BY <2>1, PublishInTurn DEF Step, Contract!Next
  <2>2. CASE ~ Publish(g)
    BY <1>8, <2>2, TaskIsAside, AsideKeepsTurn, AsideIsStutter
  <2> QED
    BY <2>1, <2>2
<1>9. CASE Restart
  <2>1. \A g \in Goals : ~ Unanswered(g)'
    BY <1>9 DEF Restart, Unanswered, Live, TypeInv, TypeOK, Tasks
  <2>2. ~ req'.trigger /\ cs'.pc = "idle"
    BY <1>9 DEF Restart, SeededRequest, NewCommandServer
  <2> QED
    BY <1>9, <2>1, <2>2 DEF InTurn, PendingIsInitial, DecidingInTurn, RunningInTurn, Deciding
<1> QED
  BY <1>1, <1>2, <1>3, <1>4, <1>5, <1>6, <1>7, <1>8, <1>9 DEF Next, CommandServerNext

\* No request is in hand at first.
LEMMA InitInTurn == Init => PatientInv /\ Contract!Init
<1> SUFFICES ASSUME Init PROVE PatientInv /\ Contract!Init
  OBVIOUS
<1>1. InTurn
  BY DEF Init, InTurn, PendingIsInitial, DecidingInTurn, RunningInTurn, Deciding, SeededRequest,
     NewCommandServer, NewTask, Unanswered, Live
<1>2. Contract!Init
  BY DEF Init, Contract!Init, SeededRequest, NewTask
<1> QED
  BY <1>1, <1>2, InitTypeInv, InitOneTrigger DEF PatientInv

\* The invariant is inductive, and every step but a restart refines.
LEMMA NextPatientInv ==
  ASSUME Patience # "none"
  PROVE  PatientInv /\ [Next]_vars => PatientInv' /\ (Restart \/ Step)
<1> SUFFICES ASSUME PatientInv, [Next]_vars PROVE PatientInv' /\ (Restart \/ Step)
  OBVIOUS
<1>1. TypeInv'
  BY NextTypeInv DEF PatientInv
<1>2. CASE Next
  BY <1>1, <1>2, NextOneTrigger, NextInTurn DEF PatientInv
<1>3. CASE UNCHANGED vars
  <2>1. OneTrigger'
    BY <1>3 DEF vars, PatientInv, OneTrigger, NotYetSubmitted, TriggerIsFresh, TriggerAsRead,
       DecidedOnce, Deciding
  <2>2. Aside /\ UNCHANGED cs
    BY <1>3 DEF vars, Aside, Unanswered, Live
  <2> QED
    BY <1>1, <2>1, <2>2, AsideKeepsTurn, AsideIsStutter DEF PatientInv
<1> QED
  BY <1>2, <1>3

\* A client that waits for its answer is told the README's walk of request_state, and
\* no request is answered twice, unless the driver starts again under it.
THEOREM DriverKeepsContract ==
  ASSUME Patience # "none", "greet_reset" \notin Faults
  PROVE  Spec => ImplementsContract
<1>1. PatientInv /\ [Next]_vars => PatientInv'
  BY NextPatientInv
<1>2. PatientInv /\ [Next]_vars => [Contract!Next]_Seen
  BY NextPatientInv DEF Step, Restart, GreetFails
<1> QED
  BY <1>1, <1>2, InitInTurn, PTL DEF Spec, ImplementsContract, Contract!Spec, Seen

\* And only one goal runs at a time: two tasks are never both short of their answer.
THEOREM PatientRunsOneGoal ==
  ASSUME Patience # "none"
  PROVE  Spec => []OneGoalAtATime
<1>1. PatientInv /\ [Next]_vars => PatientInv'
  BY NextPatientInv
<1>2. PatientInv => OneGoalAtATime
  BY DEF PatientInv, InTurn, RunningInTurn, OneGoalAtATime
<1> QED
  BY <1>1, <1>2, InitInTurn, PTL DEF Spec
==============================================================================
