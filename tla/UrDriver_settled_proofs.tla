------------------------ MODULE UrDriver_settled_proofs ------------------------
(***************************************************************************)
(* For a client that submits only when the driver has finished with the    *)
(* last request: CancelWasAsked, ReissueIsGuarded and SuccessIsEarned,     *)
(* and, when re-issues are orderly, ProgressIsReal, NoWaypointSkipped and  *)
(* OwnVerdict.  None holds for a client that does not wait that long.      *)
(*                                                                         *)
(* With such a client one task is alive at a time, the claim and the       *)
(* senders it left in DriverState are cleared by nobody but itself, and    *)
(* whatever is connected, said or counted is of one of its own scripts.    *)
(***************************************************************************)
EXTENDS UrDriver_contract_proofs

\* The one task that is alive runs the request in hand.
AliveInTurn == \A g \in Goals : Live(g) => g = req.goal /\ ~ Deciding /\ ~ req.trigger

\* A task that was never spawned is still to make its first attempt.
FirstAttempt == \A g \in Goals : task[g].pc = "absent" => task[g].attempt = 1

\* The claim is made before the first script is stopped, and kept to the next.
Claimed == \A g \in Goals : BetweenScripts(g) => ds.reissuing

\* A cancel flag that is up, or has just been read, is for the request in hand, or was
\* left over for one that is gone, and then it is read before any task is spawned.
FlagIsNamed ==
  /\ req.cancel => req.goal \in client.cancelled \/ (req.trigger /\ cs.pc \in {"idle", "cancel"})
  /\ cs.pc = "cancel" => req.goal \in client.cancelled \/ req.trigger

\* A task that is told to cancel, or has lost its cancel sender, was asked to.
CancelIsNamed ==
  \A g \in Goals :
    /\ Live(g) => ds.cancelSender = g \/ g \in client.cancelled
    /\ task[g].cancel => g \in client.cancelled
    /\ task[g].pc = "stopping" => g \in client.cancelled

Alone == AliveInTurn /\ FirstAttempt /\ Claimed /\ FlagIsNamed /\ CancelIsNamed

SettledInv == PatientInv /\ GuardIsOwned /\ Alone

------------------------------------------------------------------------------
(***************************************************************************)
(* Steps that are nobody's turn.                                           *)
(***************************************************************************)
\* What Alone is about, but for the claim.
Calm ==
  /\ req'.trigger = req.trigger /\ req'.goal = req.goal /\ req'.cancel = req.cancel
  /\ UNCHANGED cs /\ client'.cancelled = client.cancelled
  /\ ds'.cancelSender = ds.cancelSender
  /\ \A g \in Goals : UNCHANGED Place(g) /\ task'[g].cancel = task[g].cancel

\* A step that disturbs none of it, and drops no claim, keeps it.
LEMMA CalmKeepsAlone ==
  ASSUME Alone, Calm, ds.reissuing => ds'.reissuing
  PROVE  Alone'
<1>1. \A g \in Goals : (Live(g)' <=> Live(g)) /\ (BetweenScripts(g)' <=> BetweenScripts(g))
  BY DEF Calm, Place, Live, BetweenScripts
<1>2. AliveInTurn' /\ Claimed'
  BY <1>1 DEF Alone, Calm, AliveInTurn, Claimed, Deciding
<1>3. FirstAttempt' /\ FlagIsNamed'
  BY DEF Alone, Calm, FirstAttempt, FlagIsNamed, Place
<1>4. CancelIsNamed'
  BY <1>1 DEF Alone, Calm, CancelIsNamed, Place
<1> QED
  BY <1>2, <1>3, <1>4 DEF Alone

\* The robot's side and the dashboard are such steps.
LEMMA OthersAreCalm ==
  ASSUME TypeInv, SocketServerNext \/ RealtimeReaderNext \/ DashboardNext \/ ControllerNext
  PROVE  Calm /\ ds'.reissuing = ds.reissuing
<1> USE DEF TypeInv, TypeOK
<1>1. CASE SocketServerNext
  <2>1. UNCHANGED <<req, cs, client>>
    BY <1>1 DEF SocketServerNext, Accept, Greet, ReadEcho, ReadLine, ReadClose
  <2>2. ds'.reissuing = ds.reissuing /\ ds'.cancelSender = ds.cancelSender
    BY <1>1 DEF SocketServerNext, Accept, Greet, ReadEcho, ReadLine, ReadClose, AfterClose,
       DriverStates
  <2> QED
    BY <1>1, <2>1, <2>2, SocketServerPlace, SocketServerTellsNobody DEF Calm, Told
<1>2. CASE RealtimeReaderNext
  <2>1. UNCHANGED <<req, cs, client>>
    BY <1>2 DEF RealtimeReaderNext, ConnectRealtime, LoseRealtime, ReadFrame
  <2>2. ds'.reissuing = ds.reissuing /\ ds'.cancelSender = ds.cancelSender
    BY <1>2 DEF RealtimeReaderNext, ConnectRealtime, LoseRealtime, ReadFrame, AfterFrame,
       DriverStates
  <2> QED
    BY <1>2, <2>1, <2>2, RealtimeReaderPlace, RealtimeReaderTellsNobody DEF Calm, Told
<1>3. CASE DashboardNext
  <2>1. UNCHANGED <<req, cs>> /\ client'.cancelled = client.cancelled
    BY <1>3 DEF DashboardNext, ServeStop, Pause, LatchPause, LosePause, Resume, PlayResumes,
       PlayFallsBack, LosePlay, Clients
  <2>2. ds'.reissuing = ds.reissuing /\ ds'.cancelSender = ds.cancelSender
    BY <1>3 DEF DashboardNext, ServeStop, Pause, LatchPause, LosePause, Resume, PlayResumes,
       PlayFallsBack, LosePlay, LatchCleared, DriverStates
  <2> QED
    BY <1>3, <2>1, <2>2, DashboardPlace, DashboardTellsNobody DEF Calm, Told
<1>4. CASE ControllerNext
  <2>1. UNCHANGED <<req, ds, cs, task, client>>
    BY <1>4 DEF ControllerNext, Dial, Echo, GiveUp, ReachWaypoint, FinishMove, KillProgram
  <2> QED
    BY <2>1 DEF Calm, Place
<1> QED
  BY <1>1, <1>2, <1>3, <1>4

------------------------------------------------------------------------------
(***************************************************************************)
(* The task that is alive.                                                 *)
(***************************************************************************)
\* It keeps its claim and its cancel sender until it ends, and nobody else is alive to
\* clear them.
LEMMA TaskKeepsAlone ==
  ASSUME SettledInv, NEW g \in Goals, HandleRequestNext(g)
  PROVE  Alone'
<1> USE DEF SettledInv, PatientInv, TypeInv, TypeOK
<1>1. /\ UNCHANGED <<cs, client>> /\ req'.trigger = req.trigger /\ req'.goal = req.goal
      /\ req'.cancel = req.cancel
  BY DEF HandleRequestNext, Connect, InstallGoal, Upload, UploadFails, HandshakeAnswered,
     HandshakeTimeout, RunningVerdict, CancelGoal, StopAnswered, StoppingVerdict, VerdictArrives,
     ResumeGoal, ClaimReissue, ReissueStopped, NextAttempt, Publish, Teardown, Requests
<1>2. \A h \in Goals : h # g => task'[h] = task[h]
  BY DEF HandleRequestNext, Connect, InstallGoal, Upload, UploadFails, HandshakeAnswered,
     HandshakeTimeout, RunningVerdict, CancelGoal, StopAnswered, StoppingVerdict, VerdictArrives,
     ResumeGoal, ClaimReissue, ReissueStopped, NextAttempt, Publish, Teardown, Goto, Finish
<1>3. Live(g)
  BY DEF HandleRequestNext, Connect, InstallGoal, Upload, UploadFails, HandshakeAnswered,
     HandshakeTimeout, RunningVerdict, CancelGoal, StopAnswered, StoppingVerdict, VerdictArrives,
     ResumeGoal, ClaimReissue, ReissueStopped, NextAttempt, Publish, Teardown, Live
<1>4. \A h \in Goals : h # g => ~ Live(h) /\ ~ Live(h)' /\ task'[h] = task[h]
  BY <1>2, <1>3 DEF Alone, AliveInTurn, Live
<1>5. \/ task'[g].pc \notin {"absent", "reissue", "drain", "connect", "install"}
      \/ task'[g].pc \in {"reissue", "drain", "connect", "install"} /\ ds'.reissuing
      \/ task'[g].pc = "install" /\ task[g].attempt = 1 /\ task'[g].attempt = 1
  <2>1. CASE Connect(g)
    <3>1. task'[g].attempt = task[g].attempt /\ task'[g].pc \in {"install", "publish"}
      BY <2>1 DEF Connect, Goto, Finish, Tasks
    <3>2. ds' = ds /\ task[g].pc = "connect" /\ (task[g].attempt = 1 \/ task[g].attempt > 1)
      BY <2>1 DEF Connect, Tasks
    <3> QED
      BY <3>1, <3>2 DEF Alone, Claimed, BetweenScripts
  <2>2. CASE ClaimReissue(g)
    BY <2>2 DEF ClaimReissue, Goto, Tasks, DriverStates
  <2>3. CASE ReissueStopped(g) \/ NextAttempt(g)
    <3>1. task'[g].pc \in {"drain", "connect"} /\ ds'.reissuing = ds.reissuing
      BY <2>3 DEF ReissueStopped, NextAttempt, Goto, Tasks, DriverStates
    <3>2. BetweenScripts(g)
      BY <2>3 DEF ReissueStopped, NextAttempt, BetweenScripts
    <3> QED
      BY <3>1, <3>2 DEF Alone, Claimed
  <2>4. CASE InstallGoal(g) \/ Upload(g) \/ UploadFails(g) \/ HandshakeAnswered(g)
             \/ HandshakeTimeout(g) \/ Publish(g) \/ Teardown(g)
    BY <2>4 DEF InstallGoal, Upload, UploadFails, HandshakeAnswered, HandshakeTimeout, Publish,
       Teardown, Goto, Finish, Tasks
  <2>5. CASE RunningVerdict(g) \/ CancelGoal(g) \/ StopAnswered(g) \/ StoppingVerdict(g)
             \/ ResumeGoal(g)
    BY <2>5 DEF RunningVerdict, CancelGoal, StopAnswered, StoppingVerdict, VerdictArrives,
       ResumeGoal, Finish, Tasks
  <2> QED
    BY <2>1, <2>2, <2>3, <2>4, <2>5 DEF HandleRequestNext
<1>6. /\ ds'.cancelSender = ds.cancelSender \/ task'[g].pc = "gone"
      /\ task'[g].cancel => task[g].cancel
  <2>1. CASE Teardown(g)
    BY <2>1 DEF Teardown, Goto, Tasks
  <2>2. CASE ~ Teardown(g)
    <3>1. ds'.cancelSender = ds.cancelSender
      BY <2>2 DEF HandleRequestNext, Connect, InstallGoal, Installed, Upload, UploadFails,
         HandshakeAnswered, HandshakeTimeout, RunningVerdict, CancelGoal, StopAnswered,
         StoppingVerdict, VerdictArrives, ResumeGoal, ClaimReissue, ReissueStopped, NextAttempt,
         Publish, DriverStates
    <3>2. task'[g].cancel => task[g].cancel
      BY <2>2 DEF HandleRequestNext, Connect, InstallGoal, Upload, UploadFails,
         HandshakeAnswered, HandshakeTimeout, RunningVerdict, CancelGoal, StopAnswered,
         StoppingVerdict, VerdictArrives, ResumeGoal, ClaimReissue, ReissueStopped, NextAttempt,
         Publish, Goto, Finish, Tasks
    <3> QED
      BY <3>1, <3>2
  <2> QED
    BY <2>1, <2>2
<1>7. task'[g].pc = "stopping" => CancelReady(g)
  BY DEF HandleRequestNext, Connect, InstallGoal, Upload, UploadFails,
     HandshakeAnswered, HandshakeTimeout, RunningVerdict, CancelGoal, StopAnswered,
     StoppingVerdict, VerdictArrives, ResumeGoal, ClaimReissue, ReissueStopped, NextAttempt,
     Publish, Teardown, Goto, Finish, Tasks
<1>8. AliveInTurn' /\ FlagIsNamed'
  BY <1>1, <1>3, <1>4 DEF Alone, AliveInTurn, FlagIsNamed, Deciding
<1>9. FirstAttempt'
  BY <1>4, <1>5 DEF Alone, FirstAttempt
<1>10. Claimed'
  <2>1. \A h \in Goals : h # g => ~ BetweenScripts(h)'
    BY <1>4 DEF BetweenScripts, Live, Alone, FirstAttempt
  <2>2. BetweenScripts(g)' => ds'.reissuing
    BY <1>5 DEF BetweenScripts
  <2> QED
    BY <2>1, <2>2 DEF Claimed
<1>11. CancelIsNamed'
  <2>1. \A h \in Goals : h # g => task'[h].pc # "stopping" /\ task'[h] = task[h] /\ ~ Live(h)'
    BY <1>4 DEF Live
  <2>2. Live(g)' => ds'.cancelSender = g \/ g \in client.cancelled
    BY <1>3, <1>6 DEF Live, Alone, CancelIsNamed
  <2>3. task'[g].pc = "stopping" => g \in client.cancelled
    BY <1>3, <1>7 DEF CancelReady, Alone, CancelIsNamed
  <2> QED
    BY <1>1, <1>6, <2>1, <2>2, <2>3 DEF Alone, CancelIsNamed
<1> QED
  BY <1>8, <1>9, <1>10, <1>11 DEF Alone

------------------------------------------------------------------------------
(***************************************************************************)
(* The client, command_server and a restart.                               *)
(***************************************************************************)
\* Nothing is alive when the client submits, and the flag it may have left up is read
\* before the new trigger is.
LEMMA SubmitKeepsAlone ==
  ASSUME SettledInv, Patience = "settled", NEW g \in Goals, ClientSubmit(g)
  PROVE  Alone'
<1> USE DEF SettledInv, PatientInv, TypeInv, TypeOK
<1>1. Answered /\ ~ req.trigger /\ \A h \in Goals : ~ Live(h)
  BY DEF ClientSubmit, MaySubmit, Settled
<1>2. ~ Deciding
  BY <1>1, ConstantsAssumption
     DEF Answered, InTurn, DecidingInTurn, RequestNamed, Deciding, Terminal
<1>3. cs.pc \in {"idle", "cancel"}
  BY <1>1, <1>2 DEF CommandServers, Deciding, RequestNamed, OneTrigger, TriggerAsRead
<1>4. /\ req'.trigger /\ req'.goal = g /\ UNCHANGED <<ds, cs, task>>
      /\ client'.cancelled = client.cancelled
  BY DEF ClientSubmit, Requests, Clients
<1>5. AliveInTurn' /\ FirstAttempt' /\ Claimed' /\ CancelIsNamed'
  BY <1>1, <1>4
     DEF Alone, AliveInTurn, FirstAttempt, Claimed, CancelIsNamed, BetweenScripts, Live
<1>6. FlagIsNamed'
  BY <1>3, <1>4 DEF FlagIsNamed
<1> QED
  BY <1>5, <1>6 DEF Alone

\* A cancel is asked for the request in hand.
LEMMA CancelKeepsAlone ==
  ASSUME SettledInv, ClientCancel
  PROVE  Alone'
<1> USE DEF SettledInv, PatientInv, TypeInv, TypeOK
<1>1. /\ req'.trigger = req.trigger /\ req'.goal = req.goal /\ UNCHANGED <<ds, cs, task>>
      /\ client'.cancelled = client.cancelled \union {req.goal}
  BY DEF ClientCancel, Requests, Clients
<1> QED
  BY <1>1 DEF Alone, AliveInTurn, FirstAttempt, Claimed, CancelIsNamed, FlagIsNamed,
     BetweenScripts, Live, Deciding

\* A flag that is read is the one FlagIsNamed speaks of.
LEMMA ReadKeepsAlone ==
  ASSUME SettledInv, ReadRequestKeys
  PROVE  Alone'
<1> USE DEF SettledInv, PatientInv, TypeInv, TypeOK
<1>1. /\ UNCHANGED <<req, ds, task, client>> /\ ~ Deciding'
      /\ cs'.pc = IF req.cancel THEN "cancel" ELSE "trigger"
  BY DEF ReadRequestKeys, Deciding
<1>2. AliveInTurn' /\ FirstAttempt' /\ Claimed' /\ CancelIsNamed'
  BY <1>1 DEF Alone, AliveInTurn, FirstAttempt, Claimed, CancelIsNamed, BetweenScripts, Live
<1>3. FlagIsNamed'
  BY <1>1 DEF Alone, FlagIsNamed
<1> QED
  BY <1>2, <1>3 DEF Alone

\* The task it is delivered to runs the request the client asked to cancel.
LEMMA DeliverKeepsAlone ==
  ASSUME SettledInv, DeliverCancel
  PROVE  Alone'
<1> USE DEF SettledInv, PatientInv, TypeInv, TypeOK
<1>1. /\ req'.trigger = req.trigger /\ req'.goal = req.goal /\ ~ req'.cancel
      /\ cs.pc = "cancel" /\ cs'.pc \in {"idle", "trigger"} /\ UNCHANGED client
      /\ ds'.cancelSender = NoGoal /\ ds'.reissuing = ds.reissuing
  BY DEF DeliverCancel, CancelConsumed, Requests, CommandServers, DriverStates
<1>2. \A g \in Goals : Live(g) => g \in client.cancelled
  BY <1>1 DEF Alone, AliveInTurn, FlagIsNamed
<1>3. ASSUME NEW g \in Goals
      PROVE  /\ UNCHANGED Place(g)
             /\ task'[g].cancel => task[g].cancel \/ ds.cancelSender = g
  BY DEF DeliverCancel, Place, Tasks
<1>4. \A g \in Goals : ds.cancelSender = g => Live(g)
  BY ConstantsAssumption DEF GuardIsOwned
<1>5. \A g \in Goals : (Live(g)' <=> Live(g)) /\ (BetweenScripts(g)' <=> BetweenScripts(g))
  BY <1>3 DEF Place, Live, BetweenScripts
<1>6. AliveInTurn' /\ FirstAttempt' /\ Claimed' /\ FlagIsNamed'
  BY <1>1, <1>3, <1>5
     DEF Alone, AliveInTurn, FirstAttempt, Claimed, FlagIsNamed, Deciding, Place
<1>7. CancelIsNamed'
  BY <1>1, <1>2, <1>3, <1>4, <1>5 DEF Alone, CancelIsNamed, Place
<1> QED
  BY <1>6, <1>7 DEF Alone

\* No task is alive while a trigger is consumed or a request decided on.
LEMMA DecisionKeepsAlone ==
  ASSUME SettledInv, ConsumeTrigger \/ Admit \/ Reject \/ WriteExecuting
  PROVE  Alone'
<1> USE DEF SettledInv, PatientInv, TypeInv, TypeOK
<1>1. \A g \in Goals : ~ Live(g)
  <2>1. CASE ConsumeTrigger
    BY <2>1 DEF ConsumeTrigger, RequestNamed, OneTrigger, TriggerAsRead, Alone, AliveInTurn
  <2>2. CASE Admit \/ Reject \/ WriteExecuting
    BY <2>2 DEF Admit, Reject, WriteExecuting, Deciding, Alone, AliveInTurn
  <2> QED
    BY <2>1, <2>2
<1>2. /\ UNCHANGED <<ds, client>> /\ req'.cancel = req.cancel /\ req'.goal = req.goal
      /\ cs.pc \notin {"idle", "cancel"} /\ cs'.pc # "cancel"
  BY DEF ConsumeTrigger, Admit, Reject, WriteExecuting, Requests, CommandServers, NewCommandServer
<1>3. ASSUME NEW g \in Goals
      PROVE  UNCHANGED Place(g) /\ task'[g].cancel = task[g].cancel
  <2>1. CASE UNCHANGED task
    BY <2>1 DEF Place
  <2>2. CASE Reject
    BY <2>2 DEF Reject, Place, Tasks
  <2> QED
    BY <2>1, <2>2 DEF ConsumeTrigger, Admit, WriteExecuting
<1>4. \A g \in Goals : ~ Live(g)' /\ ~ BetweenScripts(g)'
  BY <1>1, <1>3 DEF Place, Live, BetweenScripts, Alone, FirstAttempt
<1>5. AliveInTurn' /\ FirstAttempt' /\ Claimed'
  BY <1>3, <1>4 DEF Alone, AliveInTurn, FirstAttempt, Claimed, Place
<1>6. FlagIsNamed'
  BY <1>2 DEF Alone, FlagIsNamed
<1>7. CancelIsNamed'
  BY <1>2, <1>3, <1>4 DEF Alone, CancelIsNamed, Place
<1> QED
  BY <1>5, <1>6, <1>7 DEF Alone

\* The goal that is spawned is the only one alive, with a cancel sender of its own.
LEMMA SpawnKeepsAlone ==
  ASSUME SettledInv, SpawnGoal
  PROVE  Alone'
<1> USE DEF SettledInv, PatientInv, TypeInv, TypeOK
<1>1. /\ Deciding /\ cs.goal = req.goal /\ cs.goal \in Goals /\ ~ req.trigger
      /\ task[cs.goal].pc = "absent"
  BY DEF SpawnGoal, Deciding, InTurn, DecidingInTurn, RequestNamed, OneTrigger, DecidedOnce
<1>2. UNCHANGED <<req, client>> /\ cs'.pc = "idle" /\ ds'.cancelSender = cs.goal
  BY DEF SpawnGoal, NewCommandServer, DriverStates
<1>3. /\ \A g \in Goals : g # cs.goal => task'[g] = task[g] /\ ~ Live(g)
      /\ task'[cs.goal].pc = "connect" /\ task'[cs.goal].attempt = 1
      /\ task'[cs.goal].cancel = task[cs.goal].cancel
  BY <1>1 DEF SpawnGoal, Tasks, Alone, AliveInTurn, FirstAttempt
<1>4. \A g \in Goals : (g # cs.goal => ~ Live(g)') /\ ~ BetweenScripts(g)'
  BY <1>3 DEF Live, BetweenScripts
<1>5. AliveInTurn' /\ Claimed'
  BY <1>1, <1>2, <1>4 DEF AliveInTurn, Claimed, Deciding
<1>6. FirstAttempt'
  BY <1>3 DEF Alone, FirstAttempt
<1>7. FlagIsNamed'
  BY <1>1, <1>2 DEF Alone, FlagIsNamed, Deciding
<1>8. CancelIsNamed'
  BY <1>2, <1>3, <1>4 DEF Alone, CancelIsNamed
<1> QED
  BY <1>5, <1>6, <1>7, <1>8 DEF Alone

\* A restart leaves no task alive and no flag up.
LEMMA RestartKeepsAlone ==
  ASSUME SettledInv, Restart
  PROVE  Alone'
<1> USE DEF SettledInv, PatientInv, TypeInv, TypeOK
<1>1. /\ ~ req'.cancel /\ cs'.pc = "idle" /\ UNCHANGED client
  BY DEF Restart, SeededRequest, NewCommandServer
<1>2. ASSUME NEW g \in Goals
      PROVE  /\ task'[g].pc = IF Live(g) THEN "gone" ELSE task[g].pc
             /\ task'[g].attempt = task[g].attempt /\ task'[g].cancel = task[g].cancel
  BY DEF Restart, Tasks
<1>3. \A g \in Goals : ~ Live(g)' /\ ~ BetweenScripts(g)'
  BY <1>2 DEF Live, BetweenScripts
<1>4. AliveInTurn' /\ Claimed' /\ FlagIsNamed'
  BY <1>1, <1>3 DEF AliveInTurn, Claimed, FlagIsNamed
<1>5. FirstAttempt' /\ CancelIsNamed'
  BY <1>1, <1>2, <1>3 DEF Alone, FirstAttempt, CancelIsNamed, Live
<1> QED
  BY <1>4, <1>5 DEF Alone

------------------------------------------------------------------------------
(***************************************************************************)
(* The theorems.                                                           *)
(***************************************************************************)
\* Nobody is alive at first, and no flag is up.
LEMMA InitSettledInv == Init => SettledInv
<1> SUFFICES ASSUME Init PROVE SettledInv
  OBVIOUS
<1>1. Alone
  BY DEF Init, Alone, AliveInTurn, FirstAttempt, Claimed, FlagIsNamed, CancelIsNamed, Live,
     BetweenScripts, NewTask, SeededRequest, NewCommandServer
<1> QED
  BY <1>1, InitInTurn, InitGuardInv DEF SettledInv, GuardInv

\* The invariant is inductive.
LEMMA NextSettledInv ==
  ASSUME Patience = "settled"
  PROVE  SettledInv /\ [Next]_vars => SettledInv'
<1> SUFFICES ASSUME SettledInv, [Next]_vars PROVE SettledInv'
  OBVIOUS
<1>1. PatientInv' /\ GuardIsOwned'
  BY NextPatientInv, NextGuardInv DEF SettledInv, PatientInv, GuardInv
<1>2. Alone'
  <2>1. CASE \E g \in Goals : ClientSubmit(g)
    BY <2>1, SubmitKeepsAlone
  <2>2. CASE ClientCancel
    BY <2>2, CancelKeepsAlone
  <2>3. CASE CommandServerNext
    BY <2>3, ReadKeepsAlone, DeliverKeepsAlone, DecisionKeepsAlone, SpawnKeepsAlone
       DEF CommandServerNext
  <2>4. CASE \E g \in Goals : HandleRequestNext(g)
    BY <2>4, TaskKeepsAlone
  <2>5. CASE SocketServerNext \/ RealtimeReaderNext \/ DashboardNext \/ ControllerNext
    BY <2>5, OthersAreCalm, CalmKeepsAlone DEF SettledInv, PatientInv
  <2>6. CASE Restart
    BY <2>6, RestartKeepsAlone
  <2>7. CASE UNCHANGED vars
    <3>1. Calm /\ ds' = ds
      BY <2>7 DEF vars, Calm, Place
    <3> QED
      BY <3>1, CalmKeepsAlone DEF SettledInv
  <2> QED
    BY <2>1, <2>2, <2>3, <2>4, <2>5, <2>6, <2>7 DEF Next
<1> QED
  BY <1>1, <1>2 DEF SettledInv

\* No goal is stopped that the client did not ask to cancel: neither a flag left over
\* from the last request nor a dropped sender reaches the next.
THEOREM OnlyTheAskedAreCancelled ==
  ASSUME Patience = "settled"
  PROVE  Spec => []CancelWasAsked
<1>1. SettledInv /\ [Next]_vars => SettledInv'
  BY NextSettledInv
<1>2. SettledInv => CancelWasAsked
  BY DEF SettledInv, Alone, CancelIsNamed, CancelWasAsked
<1> QED
  BY <1>1, <1>2, InitSettledInv, PTL DEF Spec

\* A goal that is between two scripts makes admission control refuse, whatever its
\* sockets and its tasks' failures do meanwhile.
THEOREM GapsAreGuarded ==
  ASSUME Patience = "settled"
  PROVE  Spec => []ReissueIsGuarded
<1>1. SettledInv /\ [Next]_vars => SettledInv'
  BY NextSettledInv
<1>2. SettledInv => ReissueIsGuarded
  BY DEF SettledInv, Alone, Claimed, ReissueIsGuarded, GoalRunning
<1> QED
  BY <1>1, <1>2, InitSettledInv, PTL DEF Spec

------------------------------------------------------------------------------
(***************************************************************************)
(* Whose script it is.  Every connection and line is taken for the goal    *)
(* DriverState names when it is read; with one goal at a time that is the  *)
(* goal whose script sent it.                                              *)
(***************************************************************************)
\* What runs, what is served and what waits to be is a script of the request in hand.
OfTheRequest ==
  /\ robot.prog \in Scripts => robot.prog[1] = req.goal
  /\ ss.pc # "accept" => ss.conn[1] = req.goal
  /\ \A i \in 1 .. Len(backlog) : backlog[i][1] = req.goal

\* A script's last word is what became of it.
LinesTell ==
  \A s \in Scripts : \A i \in 1 .. Len(script[s].lines) :
    /\ script[s].lines[i].kind = "ok" => script[s].pc = "done"
    /\ script[s].lines[i].kind = "error" => script[s].pc = "failed"

Earned(g) == \E s \in ScriptsOf(g) : script[s].pc = "done"

\* What a goal is told, becomes, and answers, is what it has earned.
WordIsEarned ==
  \A g \in Goals :
    /\ task[g].verdict = "ok" => Earned(g)
    /\ task[g].result = "SUCCEDED" => Earned(g)
    /\ task[g].result = "CANCELED" => g \in client.cancelled
    /\ task[g].pc = "publish" => task[g].result # "none"
    /\ task[g].answer = "succeeded" => Earned(g) \/ g \in client.cancelled

EarnedInv == SettledInv /\ ScriptInv /\ OfTheRequest /\ LinesTell /\ WordIsEarned

\* The next request is submitted when nothing of the last is at work any more.
LEMMA SubmitOfTheRequest ==
  ASSUME EarnedInv, Patience = "settled", NEW g \in Goals, ClientSubmit(g)
  PROVE  OfTheRequest'
<1>1. Settled /\ UNCHANGED <<ss, backlog, robot>>
  BY DEF ClientSubmit, MaySubmit
<1>2. \A s \in Scripts : robot.prog # s
  BY <1>1 DEF Settled, Ended, EarnedInv, ScriptInv, SentInv, OneProgram, AtWork
<1> QED
  BY <1>1, <1>2 DEF OfTheRequest, Settled

\* No other step names another request.
LEMMA RequestStays ==
  ASSUME TypeInv, Next, \A g \in Goals : ~ ClientSubmit(g)
  PROVE  req'.goal = req.goal
<1> USE DEF TypeInv, TypeOK
<1>1. CASE ClientCancel
  BY <1>1 DEF ClientCancel, Requests
<1>2. CASE CommandServerNext
  BY <1>2 DEF CommandServerNext, ReadRequestKeys, DeliverCancel, CancelConsumed, ConsumeTrigger,
     Admit, Reject, WriteExecuting, SpawnGoal, Requests
<1>3. CASE \E g \in Goals : HandleRequestNext(g)
  BY <1>3 DEF HandleRequestNext, Connect, InstallGoal, Upload, UploadFails, HandshakeAnswered,
     HandshakeTimeout, RunningVerdict, CancelGoal, StopAnswered, StoppingVerdict, VerdictArrives,
     ResumeGoal, ClaimReissue, ReissueStopped, NextAttempt, Publish, Teardown, Requests
<1>4. CASE SocketServerNext
  BY <1>4 DEF SocketServerNext, Accept, Greet, ReadEcho, ReadLine, ReadClose
<1>5. CASE RealtimeReaderNext
  BY <1>5 DEF RealtimeReaderNext, ConnectRealtime, LoseRealtime, ReadFrame
<1>6. CASE DashboardNext
  BY <1>6 DEF DashboardNext, ServeStop, Pause, LatchPause, LosePause, Resume, PlayResumes,
     PlayFallsBack, LosePlay
<1>7. CASE ControllerNext
  BY <1>7 DEF ControllerNext, Dial, Echo, GiveUp, ReachWaypoint, FinishMove, KillProgram
<1>8. CASE Restart
  BY <1>8 DEF Restart, SeededRequest
<1> QED
  BY <1>1, <1>2, <1>3, <1>4, <1>5, <1>6, <1>7, <1>8 DEF Next

\* What the controller runs is what it ran, nothing, or what a goal that is alive sent.
LEMMA ProgramComes ==
  ASSUME TypeInv, Next
  PROVE  \/ robot'.prog = robot.prog
         \/ robot'.prog = NoScript
         \/ \E g \in Goals : Live(g) /\ robot'.prog[1] = g
<1> USE DEF TypeInv, TypeOK
<1>1. CASE (\E g \in Goals : ClientSubmit(g)) \/ ClientCancel \/ CommandServerNext
           \/ SocketServerNext \/ RealtimeReaderNext \/ Restart
  BY <1>1 DEF ClientSubmit, ClientCancel, CommandServerNext, ReadRequestKeys, DeliverCancel,
     ConsumeTrigger, Admit, Reject, WriteExecuting, SpawnGoal, SocketServerNext, Accept, Greet,
     ReadEcho, ReadLine, ReadClose, RealtimeReaderNext, ConnectRealtime, LoseRealtime, ReadFrame,
     Restart
<1>2. ASSUME NEW g \in Goals, HandleRequestNext(g)
      PROVE  robot'.prog = robot.prog \/ (Live(g) /\ robot'.prog[1] = g)
  <2>1. CASE Upload(g)
    BY <2>1 DEF Upload, Script, Live
  <2>2. CASE ~ Upload(g)
    BY <1>2, <2>2 DEF HandleRequestNext, Connect, InstallGoal, UploadFails, HandshakeAnswered,
       HandshakeTimeout, RunningVerdict, CancelGoal, StopAnswered, StoppingVerdict,
       VerdictArrives, ResumeGoal, ClaimReissue, ReissueStopped, NextAttempt, Publish, Teardown
  <2> QED
    BY <2>1, <2>2
<1>3. CASE DashboardNext
  <2>1. CASE ServeStop
    BY <2>1 DEF ServeStop
  <2>2. CASE Pause \/ Resume
    BY <2>2 DEF Pause, Resume
  <2>3. CASE LatchPause \/ LosePause
    BY <2>3 DEF LatchPause, LosePause, HoldOutcomes, Robots
  <2>4. CASE PlayResumes \/ PlayFallsBack \/ LosePlay
    BY <2>4 DEF PlayResumes, PlayFallsBack, LosePlay, Robots
  <2> QED
    BY <1>3, <2>1, <2>2, <2>3, <2>4 DEF DashboardNext
<1>4. CASE ControllerNext
  <2>1. UNCHANGED robot \/ Stopped
    BY <1>4 DEF ControllerNext, Dial, Echo, GiveUp, ReachWaypoint, FinishMove, KillProgram
  <2> QED
    BY <2>1 DEF Stopped
<1> QED
  BY <1>1, <1>2, <1>3, <1>4 DEF Next

\* What waits in the listener waited there, or was just dialed by the program that runs.
LEMMA BacklogComes ==
  ASSUME TypeInv, Next, NEW i \in 1 .. Len(backlog)'
  PROVE  (\E j \in 1 .. Len(backlog) : backlog'[i] = backlog[j])
         \/ (robot.prog \in Scripts /\ backlog'[i] = robot.prog)
<1> USE DEF TypeInv, TypeOK
<1>1. CASE Accept
  <2>1. backlog # <<>> /\ backlog' = Tail(backlog)
    BY <1>1 DEF Accept
  <2>2. i + 1 \in 1 .. Len(backlog) /\ backlog'[i] = backlog[i + 1]
    BY <2>1
  <2> QED
    BY <2>2
<1>2. ASSUME NEW s \in Scripts, Dial(s)
      PROVE  (\E j \in 1 .. Len(backlog) : backlog'[i] = backlog[j])
             \/ (robot.prog \in Scripts /\ backlog'[i] = robot.prog)
  <2>1. backlog' = Append(backlog, s) /\ robot.prog = s
    BY <1>2 DEF Dial, Running
  <2>2. i \in 1 .. Len(backlog) + 1
    BY <2>1
  <2>3. CASE i = Len(backlog) + 1
    BY <2>1, <2>3
  <2>4. CASE i \in 1 .. Len(backlog)
    BY <2>1, <2>4
  <2> QED
    BY <2>2, <2>3, <2>4
<1>3. CASE backlog' = <<>>
  BY <1>3
<1>4. CASE UNCHANGED backlog
  BY <1>4
<1>5. Accept \/ (\E s \in Scripts : Dial(s)) \/ backlog' = <<>> \/ UNCHANGED backlog
  <2>1. CASE (\E g \in Goals : ClientSubmit(g)) \/ ClientCancel \/ CommandServerNext
             \/ RealtimeReaderNext
    BY <2>1 DEF ClientSubmit, ClientCancel, CommandServerNext, ReadRequestKeys, DeliverCancel,
       ConsumeTrigger, Admit, Reject, WriteExecuting, SpawnGoal, RealtimeReaderNext,
       ConnectRealtime, LoseRealtime, ReadFrame
  <2>2. CASE \E g \in Goals : HandleRequestNext(g)
    BY <2>2 DEF HandleRequestNext, Connect, InstallGoal, Upload, UploadFails, HandshakeAnswered,
       HandshakeTimeout, RunningVerdict, CancelGoal, StopAnswered, StoppingVerdict,
       VerdictArrives, ResumeGoal, ClaimReissue, ReissueStopped, NextAttempt, Publish, Teardown
  <2>3. CASE SocketServerNext
    BY <2>3 DEF SocketServerNext, Greet, ReadEcho, ReadLine, ReadClose
  <2>4. CASE DashboardNext
    BY <2>4 DEF DashboardNext, ServeStop, Pause, LatchPause, LosePause, Resume, PlayResumes,
       PlayFallsBack, LosePlay
  <2>5. CASE ControllerNext
    BY <2>5 DEF ControllerNext, Echo, GiveUp, ReachWaypoint, FinishMove, KillProgram
  <2>6. CASE Restart
    BY <2>6 DEF Restart
  <2> QED
    BY <2>1, <2>2, <2>3, <2>4, <2>5, <2>6 DEF Next
<1> QED
  BY <1>1, <1>2, <1>3, <1>4, <1>5

\* What is served was served before, or waited at the head of the listener.
LEMMA ConnectionComes ==
  ASSUME TypeInv, Next, ss'.pc # "accept"
  PROVE  \/ ss.pc # "accept" /\ ss'.conn = ss.conn
         \/ Accept /\ backlog # <<>> /\ ss'.conn = backlog[1]
<1> USE DEF TypeInv, TypeOK
<1>1. CASE Accept
  <2>1. Expected
    BY <1>1 DEF Accept
  <2> QED
    BY <1>1, <2>1 DEF Accept
<1>2. CASE Greet \/ ReadEcho \/ ReadLine
  BY <1>2 DEF Greet, ReadEcho, ReadLine, SocketServers
<1>3. CASE ReadClose \/ Restart
  BY <1>3 DEF ReadClose, Restart, NewSocketServer
<1>4. CASE (\E g \in Goals : ClientSubmit(g)) \/ ClientCancel \/ CommandServerNext
           \/ RealtimeReaderNext
  BY <1>4 DEF ClientSubmit, ClientCancel, CommandServerNext, ReadRequestKeys, DeliverCancel,
     ConsumeTrigger, Admit, Reject, WriteExecuting, SpawnGoal, RealtimeReaderNext,
     ConnectRealtime, LoseRealtime, ReadFrame
<1>5. CASE \E g \in Goals : HandleRequestNext(g)
  BY <1>5 DEF HandleRequestNext, Connect, InstallGoal, Upload, UploadFails, HandshakeAnswered,
     HandshakeTimeout, RunningVerdict, CancelGoal, StopAnswered, StoppingVerdict,
     VerdictArrives, ResumeGoal, ClaimReissue, ReissueStopped, NextAttempt, Publish, Teardown
<1>6. CASE DashboardNext
  BY <1>6 DEF DashboardNext, ServeStop, Pause, LatchPause, LosePause, Resume, PlayResumes,
     PlayFallsBack, LosePlay
<1>7. CASE ControllerNext
  BY <1>7 DEF ControllerNext, Dial, Echo, GiveUp, ReachWaypoint, FinishMove, KillProgram
<1> QED
  BY <1>1, <1>2, <1>3, <1>4, <1>5, <1>6, <1>7 DEF Next, SocketServerNext

\* So all of it stays of the request in hand.
LEMMA NextOfTheRequest ==
  ASSUME EarnedInv, Patience = "settled", Next
  PROVE  OfTheRequest'
<1> USE DEF EarnedInv, ScriptInv
<1>1. CASE \E g \in Goals : ClientSubmit(g)
  BY <1>1, SubmitOfTheRequest
<1>2. CASE \A g \in Goals : ~ ClientSubmit(g)
  <2>1. req'.goal = req.goal
    BY <1>2, RequestStays
  <2>2. robot'.prog \in Scripts => robot'.prog[1] = req.goal
    <3>1. NoScript \notin Scripts
      BY ConstantsAssumption DEF NoScript, Scripts
    <3> QED
      BY <3>1, ProgramComes DEF OfTheRequest, SettledInv, Alone, AliveInTurn
  <2>3. ASSUME NEW i \in 1 .. Len(backlog)' PROVE backlog'[i][1] = req.goal
    BY BacklogComes DEF OfTheRequest
  <2>4. ss'.pc # "accept" => ss'.conn[1] = req.goal
    <3>1. backlog # <<>> => 1 \in 1 .. Len(backlog)
      BY DEF TypeInv, TypeOK
    <3> QED
      BY <3>1, ConnectionComes DEF OfTheRequest
  <2> QED
    BY <2>1, <2>2, <2>3, <2>4 DEF OfTheRequest
<1> QED
  BY <1>1, <1>2

------------------------------------------------------------------------------
(***************************************************************************)
(* What a script has said.                                                 *)
(***************************************************************************)
\* What s says after a step it said before, and it is still what it was, or it is no
\* verdict, or it is the verdict it ended with.
Says(s) ==
  \A i \in 1 .. Len(script[s].lines)' :
    \/ /\ script'[s].pc = script[s].pc \/ AtWork(s)
       /\ \E j \in 1 .. Len(script[s].lines) : script'[s].lines[i] = script[s].lines[j]
    \/ script'[s].lines[i].kind \in {"echo", "waypoint"}
    \/ script'[s].lines[i].kind = "ok" /\ script'[s].pc = "done"
    \/ script'[s].lines[i].kind = "error" /\ script'[s].pc = "failed"

\* A script that only says such things keeps its word.
LEMMA WordKept ==
  ASSUME TypeInv, LinesTell, \A s \in Scripts : Says(s)
  PROVE  LinesTell'
<1> USE DEF TypeInv, TypeOK
<1>1. ASSUME NEW s \in Scripts, NEW i \in 1 .. Len(script[s].lines)'
      PROVE  /\ script'[s].lines[i].kind = "ok" => script'[s].pc = "done"
             /\ script'[s].lines[i].kind = "error" => script'[s].pc = "failed"
  BY DEF Says, LinesTell, AtWork
<1> QED
  BY <1>1 DEF LinesTell

\* One that says nothing new, and that nothing happens to unless it runs, does.
LEMMA SilentSays ==
  ASSUME NEW s \in Scripts, script'[s].lines = script[s].lines,
         script'[s].pc = script[s].pc \/ AtWork(s)
  PROVE  Says(s)
BY DEF Says

\* One whose first line is read does.
LEMMA ReadSays ==
  ASSUME TypeInv, NEW s \in Scripts, script[s].lines # <<>>,
         script'[s] = [script[s] EXCEPT !.lines = Tail(@)]
  PROVE  Says(s)
<1> USE DEF TypeInv, TypeOK
<1>1. /\ script'[s].lines = Tail(script[s].lines) /\ script'[s].pc = script[s].pc
      /\ script[s].lines \in Seq(Lines)
  BY DEF ScriptStates
<1>2. ASSUME NEW i \in 1 .. Len(script[s].lines)'
      PROVE  \E j \in 1 .. Len(script[s].lines) : script'[s].lines[i] = script[s].lines[j]
  <2>1. i + 1 \in 1 .. Len(script[s].lines) /\ script'[s].lines[i] = script[s].lines[i + 1]
    BY <1>1, <1>2
  <2> QED
    BY <2>1
<1> QED
  BY <1>1, <1>2 DEF Says

\* The one that runs does, when what it adds is no verdict or the one it ends with.
LEMMA AddSays ==
  ASSUME TypeInv, NEW s \in Scripts, AtWork(s), NEW line,
         script'[s].lines = Append(script[s].lines, line),
         \/ line.kind \in {"echo", "waypoint"}
         \/ line.kind = "ok" /\ script'[s].pc = "done"
         \/ line.kind = "error" /\ script'[s].pc = "failed"
  PROVE  Says(s)
<1> USE DEF TypeInv, TypeOK
<1>1. script[s].lines \in Seq(Lines)
  BY DEF ScriptStates
<1>2. ASSUME NEW i \in 1 .. Len(script[s].lines)'
      PROVE  \/ i = Len(script[s].lines) + 1 /\ script'[s].lines[i] = line
             \/ \E j \in 1 .. Len(script[s].lines) : script'[s].lines[i] = script[s].lines[j]
  <2>1. i \in 1 .. Len(script[s].lines) + 1
    BY <1>1
  <2>2. CASE i = Len(script[s].lines) + 1
    BY <1>1, <2>2
  <2>3. CASE i \in 1 .. Len(script[s].lines)
    BY <1>1, <2>3
  <2> QED
    BY <2>1, <2>2, <2>3
<1> QED
  BY <1>2 DEF Says

\* A script that is killed while it runs has said nothing new.
LEMMA KilledSays ==
  ASSUME TypeInv, SentInv, NEW s \in Scripts, script' = Killed(script, robot.prog)
  PROVE  Says(s)
<1> USE DEF TypeInv, TypeOK
<1>1. script'[s].lines = script[s].lines /\ (s = robot.prog \/ script'[s].pc = script[s].pc)
  BY DEF Killed, ScriptStates
<1>2. s = robot.prog => AtWork(s)
  BY DEF SentInv, OneProgram
<1> QED
  BY <1>1, <1>2, SilentSays

\* The controller's program speaks as it moves, and its last line is its verdict.
LEMMA ControllerSays ==
  ASSUME TypeInv, SentInv, ControllerNext, NEW s \in Scripts
  PROVE  Says(s)
<1> USE DEF TypeInv, TypeOK
<1>1. ASSUME NEW t \in Scripts,
             Dial(t) \/ Echo(t) \/ GiveUp(t) \/ ReachWaypoint(t) \/ FinishMove(t)
      PROVE  Says(s)
  <2>1. CASE s # t
    <3>1. script'[s] = script[s]
      BY <1>1, <2>1 DEF Dial, Echo, GiveUp, ReachWaypoint, FinishMove, Send
    <3> QED
      BY <3>1, SilentSays
  <2>2. CASE s = t /\ (Dial(t) \/ GiveUp(t))
    <3>1. script'[s].lines = script[s].lines /\ AtWork(s)
      BY <2>2 DEF Dial, GiveUp, AtWork, ScriptStates
    <3> QED
      BY <3>1, SilentSays
  <2>3. CASE s = t /\ (Echo(t) \/ ReachWaypoint(t))
    <3>1. AtWork(s)
      BY <2>3 DEF Echo, ReachWaypoint, AtWork
    <3>2. \/ script'[s].lines = Append(script[s].lines, Line("echo", 0))
          \/ script'[s].lines = Append(script[s].lines, Line("waypoint", script[s].at))
      BY <2>3 DEF Echo, ReachWaypoint, Send, ScriptStates
    <3>3. \A k, n : Line(k, n).kind = k
      BY DEF Line
    <3> QED
      BY <3>1, <3>2, <3>3, AddSays
  <2>4. CASE s = t /\ FinishMove(t)
    <3>1. AtWork(s)
      BY <2>4 DEF FinishMove, AtWork
    <3>2. \/ /\ script'[s].lines = Append(script[s].lines, Line("ok", 0))
             /\ script'[s].pc = "done"
          \/ /\ script'[s].lines = Append(script[s].lines, Line("error", 0))
             /\ script'[s].pc = "failed"
      BY <2>4 DEF FinishMove, Send, ScriptStates
    <3>3. \A k, n : Line(k, n).kind = k
      BY DEF Line
    <3> QED
      BY <3>1, <3>2, <3>3, AddSays
  <2> QED
    BY <1>1, <2>1, <2>2, <2>3, <2>4
<1>2. CASE KillProgram
  BY <1>2, KilledSays DEF KillProgram
<1> QED
  BY <1>1, <1>2 DEF ControllerNext

\* The socket server takes a line off the one it serves.
LEMMA SocketServerSays ==
  ASSUME TypeInv, SocketServerNext, NEW s \in Scripts
  PROVE  Says(s)
<1> USE DEF TypeInv, TypeOK
<1>1. CASE Accept
  <2>1. \E v : script' = [script EXCEPT ![Head(backlog)].link = v]
    <3>1. CASE Expected
      BY <1>1, <3>1 DEF Accept
    <3>2. CASE ~ Expected
      BY <1>1, <3>2 DEF Accept
    <3> QED
      BY <3>1, <3>2
  <2>2. script'[s].lines = script[s].lines /\ script'[s].pc = script[s].pc
    BY <2>1 DEF ScriptStates
  <2> QED
    BY <2>2, SilentSays
<1>2. CASE Greet
  <2>1. script'[s].lines = script[s].lines /\ script'[s].pc = script[s].pc
    BY <1>2 DEF Greet, ScriptStates
  <2> QED
    BY <2>1, SilentSays
<1>3. CASE ReadEcho \/ ReadLine \/ ReadClose
  <2>1. script' = script \/ (script[ss.conn].lines # <<>>
                             /\ script' = [script EXCEPT ![ss.conn].lines = Tail(@)])
    BY <1>3 DEF ReadEcho, ReadLine, ReadClose, Received, Consume
  <2>2. CASE script'[s] = script[s]
    BY <2>2, SilentSays
  <2>3. CASE s = ss.conn /\ script[s].lines # <<>>
             /\ script' = [script EXCEPT ![ss.conn].lines = Tail(@)]
    <3>1. script'[s] = [script[s] EXCEPT !.lines = Tail(@)]
      BY <2>3
    <3> QED
      BY <2>3, <3>1, ReadSays
  <2> QED
    BY <2>1, <2>2, <2>3
<1> QED
  BY <1>1, <1>2, <1>3 DEF SocketServerNext

\* Every step keeps the scripts to their word.
LEMMA NextLinesTell ==
  ASSUME TypeInv, SentInv, LinesTell, Next
  PROVE  LinesTell'
<1> USE DEF TypeInv, TypeOK
<1>1. ASSUME NEW s \in Scripts PROVE Says(s)
  <2>1. CASE ControllerNext \/ SocketServerNext
    BY <2>1, ControllerSays, SocketServerSays
  <2>2. CASE ServeStop
    <3>1. script' = Killed(script, robot.prog) \/ script' = script
      BY <2>2 DEF ServeStop
    <3> QED
      BY <3>1, KilledSays, SilentSays
  <2>3. CASE UNCHANGED script
    BY <2>3, SilentSays
  <2>4. CASE Restart
    <3>1. script'[s].lines = script[s].lines /\ script'[s].pc = script[s].pc
      BY <2>4 DEF Restart, ScriptStates
    <3> QED
      BY <3>1, SilentSays
  <2>5. ASSUME NEW g \in Goals, Upload(g) PROVE Says(s)
    <3>1. CASE s = Script(g)
      <4>1. script'[s].lines = <<>>
        BY <2>5, <3>1, UploadSends, ScriptType DEF NewScript
      <4> QED
        BY <4>1 DEF Says
    <3>2. CASE s # Script(g)
      <4>1. script'[s] = script[s] \/ (s = robot.prog
                                       /\ script'[s] = [script[s] EXCEPT !.pc = "killed"])
        BY <2>5, <3>2, UploadSends
      <4>2. script'[s].lines = script[s].lines /\ (script'[s].pc = script[s].pc \/ s = robot.prog)
        BY <4>1 DEF ScriptStates
      <4> QED
        BY <4>2, SilentSays DEF SentInv, OneProgram
    <3> QED
      BY <3>1, <3>2
  <2>6. \/ ControllerNext \/ SocketServerNext \/ ServeStop \/ UNCHANGED script \/ Restart
        \/ \E g \in Goals : Upload(g)
    <3>1. CASE (\E g \in Goals : ClientSubmit(g)) \/ ClientCancel \/ CommandServerNext
               \/ RealtimeReaderNext
      BY <3>1 DEF ClientSubmit, ClientCancel, CommandServerNext, ReadRequestKeys, DeliverCancel,
         ConsumeTrigger, Admit, Reject, WriteExecuting, SpawnGoal, RealtimeReaderNext,
         ConnectRealtime, LoseRealtime, ReadFrame
    <3>2. CASE \E g \in Goals : HandleRequestNext(g)
      BY <3>2 DEF HandleRequestNext, Connect, InstallGoal, UploadFails, HandshakeAnswered,
         HandshakeTimeout, RunningVerdict, CancelGoal, StopAnswered, StoppingVerdict,
         VerdictArrives, ResumeGoal, ClaimReissue, ReissueStopped, NextAttempt, Publish, Teardown
    <3>3. CASE DashboardNext
      BY <3>3 DEF DashboardNext, Pause, LatchPause, LosePause, Resume, PlayResumes,
         PlayFallsBack, LosePlay
    <3> QED
      BY <3>1, <3>2, <3>3 DEF Next
  <2> QED
    BY <2>1, <2>2, <2>3, <2>4, <2>5, <2>6
<1> QED
  BY <1>1, WordKept

------------------------------------------------------------------------------
(***************************************************************************)
(* Who gives a goal its verdict.                                           *)
(***************************************************************************)
\* Only the socket server, with a line or a close of the script it serves, and a frame
\* in a mode that aborts goals; the goal itself forgets the last one.
Verdict(g) ==
  \/ task'[g].verdict = task[g].verdict
  \/ task'[g].verdict = "pending"
  \/ /\ ReadLine \/ ReadClose
     /\ ss.conn \in Scripts /\ ds.goalSender = g
     /\ \/ /\ task'[g].verdict = "failed" /\ Ended(ss.conn)
        \/ \E i \in 1 .. Len(script[ss.conn].lines) :
             LET line == script[ss.conn].lines[i] IN
             /\ line.kind \in {"ok", "error"} /\ task'[g].verdict = VerdictOf(line)
  \/ task'[g].verdict = "failed" /\ AbortsGoal(ds'.safetyMode)

\* A signal of another kind gives no verdict.
LEMMA SignalVerdict ==
  ASSUME task \in [Goals -> Tasks], NEW h \in Goals, NEW v,
         \/ task' = [task EXCEPT ![h].handshake = v]
         \/ task' = [task EXCEPT ![h].stop = v]
         \/ task' = [task EXCEPT ![h].resume = v]
         \/ task' = [task EXCEPT ![h].cancel = v]
         \/ task' = [task EXCEPT ![h].answer = v]
         \/ task' = [task EXCEPT ![h].pc = v]
  PROVE  \A g \in Goals : Verdict(g)
BY DEF Tasks, Verdict

\* Every verdict is of one of these kinds.
LEMMA VerdictComes ==
  ASSUME TypeInv, Next, NEW g \in Goals
  PROVE  Verdict(g)
<1> USE DEF TypeInv, TypeOK
<1>1. CASE UNCHANGED task
  BY <1>1 DEF Verdict
<1>2. CASE CommandServerNext
  <2>1. CASE DeliverCancel
    <3>1. \/ task' = task
          \/ ds.cancelSender \in Goals /\ task' = [task EXCEPT ![ds.cancelSender].cancel = TRUE]
      BY <2>1 DEF DeliverCancel, DriverStates, OptGoal
    <3> QED
      BY <1>1, <3>1, SignalVerdict
  <2>2. CASE Reject
    <3>1. cs.goal \in Goals /\ task' = [task EXCEPT ![cs.goal].answer = "failed"]
      BY <2>2 DEF Reject, RequestNamed
    <3> QED
      BY <3>1, SignalVerdict
  <2>3. CASE SpawnGoal
    <3>1. cs.goal \in Goals /\ task' = [task EXCEPT ![cs.goal].pc = "connect"]
      BY <2>3 DEF SpawnGoal, RequestNamed
    <3> QED
      BY <3>1, SignalVerdict
  <2>4. CASE ReadRequestKeys \/ ConsumeTrigger \/ Admit \/ WriteExecuting
    BY <1>1, <2>4 DEF ReadRequestKeys, ConsumeTrigger, Admit, WriteExecuting
  <2> QED
    BY <1>2, <2>1, <2>2, <2>3, <2>4 DEF CommandServerNext
<1>3. ASSUME NEW h \in Goals, HandleRequestNext(h) PROVE Verdict(g)
  <2>1. CASE g # h
    BY <1>3, <2>1, TaskOutcome DEF Verdict
  <2>2. CASE g = h
    <3>1. CASE InstallGoal(h)
      BY <2>2, <3>1 DEF InstallGoal, Verdict, Tasks
    <3>2. CASE Connect(g) \/ Upload(g) \/ UploadFails(g) \/ HandshakeAnswered(g)
               \/ HandshakeTimeout(g) \/ Publish(g) \/ Teardown(g)
      <4>1. CASE Connect(g) \/ Upload(g) \/ UploadFails(g) \/ Teardown(g)
        BY <4>1 DEF Connect, Upload, UploadFails, Teardown, Goto, Finish, Tasks, Verdict
      <4>2. CASE HandshakeAnswered(g) \/ HandshakeTimeout(g)
        BY <4>2 DEF HandshakeAnswered, HandshakeTimeout, Goto, Finish, Tasks, Verdict
      <4>3. CASE Publish(g)
        BY <4>3 DEF Publish, Tasks, Verdict
      <4> QED
        BY <3>2, <4>1, <4>2, <4>3
    <3>3. CASE RunningVerdict(g) \/ CancelGoal(g) \/ StopAnswered(g) \/ StoppingVerdict(g)
               \/ ResumeGoal(g) \/ ClaimReissue(g) \/ ReissueStopped(g) \/ NextAttempt(g)
      <4>1. CASE RunningVerdict(g) \/ StopAnswered(g) \/ StoppingVerdict(g) \/ ReissueStopped(g)
        BY <4>1 DEF RunningVerdict, StopAnswered, StoppingVerdict, VerdictArrives,
           ReissueStopped, Goto, Finish, Tasks, Verdict
      <4>2. CASE CancelGoal(g) \/ ClaimReissue(g)
        BY <4>2 DEF CancelGoal, ClaimReissue, Goto, Tasks, Verdict
      <4>3. CASE ResumeGoal(g) \/ NextAttempt(g)
        BY <4>3 DEF ResumeGoal, NextAttempt, Tasks, Verdict
      <4> QED
        BY <3>3, <4>1, <4>2, <4>3
    <3> QED
      BY <1>3, <2>2, <3>1, <3>2, <3>3 DEF HandleRequestNext
  <2> QED
    BY <2>1, <2>2
<1>4. CASE ReadEcho
  <2>1. \E v : task' = [task EXCEPT ![ss.handshake].handshake = v]
    BY <1>4 DEF ReadEcho
  <2>2. ss.handshake \in Goals
    BY <1>4 DEF ReadEcho, ConnectionServed
  <2> QED
    BY <2>1, <2>2, SignalVerdict
<1>5. CASE ReadLine \/ ReadClose
  <2>1. ss.conn \in Scripts
    BY <1>5 DEF ReadLine, ReadClose, ConnectionServed
  <2>2. \A v : task' = Resolve(v) =>
               task'[g].verdict = task[g].verdict \/ (ds.goalSender = g /\ task'[g].verdict = v)
    BY DEF Resolve, Tasks
  <2>3. CASE ReadClose
    BY <2>1, <2>2, <2>3 DEF ReadClose, Closed, Verdict
  <2>4. CASE ReadLine
    <3>1. CASE UNCHANGED task
      BY <1>1, <3>1
    <3>2. CASE ~ UNCHANGED task
      <4> DEFINE line == Head(script[ss.conn].lines)
      <4>1. /\ line.kind \in {"ok", "error"} /\ task' = Resolve(VerdictOf(line))
            /\ script[ss.conn].lines # <<>>
        BY <2>4, <3>2 DEF ReadLine, Received
      <4>2. /\ line = script[ss.conn].lines[1] /\ 1 \in 1 .. Len(script[ss.conn].lines)
        BY <2>1, <4>1 DEF ScriptStates
      <4> HIDE DEF line
      <4> QED
        BY <2>1, <2>2, <2>4, <4>1, <4>2 DEF Verdict
    <3> QED
      BY <3>1, <3>2
  <2> QED
    BY <1>5, <2>3, <2>4
<1>6. CASE RealtimeReaderNext
  <2>1. CASE ReadFrame
    <3>1. PICK mode \in SafetyModes :
            /\ ds' = AfterFrame(mode)
            /\ task' = IF AbortsGoal(mode) /\ ds.goalSender # NoGoal
                       THEN [task EXCEPT ![ds.goalSender].verdict = "failed"] ELSE task
      BY <2>1 DEF ReadFrame
    <3>2. CASE AbortsGoal(mode) /\ ds.goalSender = g
      <4>1. ds'.safetyMode = mode
        BY <3>1 DEF AfterFrame, DriverStates
      <4>2. task'[g].verdict = "failed"
        BY <3>1, <3>2, ConstantsAssumption DEF Tasks
      <4> QED
        BY <3>2, <4>1, <4>2 DEF Verdict
    <3>3. CASE ~ (AbortsGoal(mode) /\ ds.goalSender = g)
      BY <3>1, <3>3 DEF Verdict
    <3> QED
      BY <3>2, <3>3
  <2> QED
    BY <1>1, <1>6, <2>1 DEF RealtimeReaderNext, ConnectRealtime, LoseRealtime
<1>7. CASE DashboardNext
  <2>1. CASE ServeStop
    <3>1. Head(dash.stops) \in Goals
      BY <2>1 DEF ServeStop, Dashboards
    <3>2. task' = task \/ \E v : task' = [task EXCEPT ![Head(dash.stops)].stop = v]
      BY <2>1 DEF ServeStop, Reply
    <3> QED
      BY <1>1, <3>1, <3>2, SignalVerdict
  <2>2. CASE PlayFallsBack
    <3>1. \/ task' = task
          \/ dash.resume \in Goals /\ task' = [task EXCEPT ![dash.resume].resume = TRUE]
      BY <2>2 DEF PlayFallsBack, Dashboards, OptGoal
    <3> QED
      BY <1>1, <3>1, SignalVerdict
  <2>3. CASE Pause \/ LatchPause \/ LosePause \/ Resume \/ PlayResumes \/ LosePlay
    BY <1>1, <2>3 DEF Pause, LatchPause, LosePause, Resume, PlayResumes, LosePlay
  <2> QED
    BY <1>7, <2>1, <2>2, <2>3 DEF DashboardNext
<1>8. CASE Restart
  BY <1>8 DEF Restart, Tasks, Verdict
<1>9. CASE Accept \/ Greet \/ ControllerNext \/ (\E h \in Goals : ClientSubmit(h)) \/ ClientCancel
  BY <1>1, <1>9 DEF Accept, Greet, ControllerNext, Dial, Echo, GiveUp, ReachWaypoint, FinishMove,
     KillProgram, ClientSubmit, ClientCancel
<1> QED
  BY <1>2, <1>3, <1>4, <1>5, <1>6, <1>7, <1>8, <1>9 DEF Next, SocketServerNext

------------------------------------------------------------------------------
(***************************************************************************)
(* What a goal makes of its verdict.                                       *)
(***************************************************************************)
\* Nobody but the goal's own task says it succeeded.
LEMMA OthersSayNoSuccess ==
  ASSUME TypeInv, Next, NEW g \in Goals, ~ HandleRequestNext(g)
  PROVE  task'[g].answer = "succeeded" => task[g].answer = "succeeded"
<1> USE DEF TypeInv, TypeOK
<1>1. CASE ClientCancel \/ SocketServerNext \/ RealtimeReaderNext \/ DashboardNext
           \/ ControllerNext
  BY <1>1, OthersAreAside DEF Aside
<1>2. CASE ReadRequestKeys \/ DeliverCancel \/ Admit
  BY <1>2, ServerIsAside DEF Aside
<1>3. CASE (\E h \in Goals : ClientSubmit(h)) \/ ConsumeTrigger \/ WriteExecuting
  BY <1>3 DEF ClientSubmit, ConsumeTrigger, WriteExecuting
<1>4. CASE Reject
  BY <1>4 DEF Reject, Tasks
<1>5. CASE SpawnGoal
  BY <1>5 DEF SpawnGoal, Tasks
<1>6. ASSUME NEW h \in Goals, HandleRequestNext(h) PROVE task'[g].answer = task[g].answer
  BY <1>6, TaskOutcome
<1>7. CASE Restart
  BY <1>7 DEF Restart, Tasks
<1> QED
  BY <1>1, <1>2, <1>3, <1>4, <1>5, <1>6, <1>7 DEF Next, CommandServerNext

\* The task itself says so of an "ok" alone, or of a cancel.
LEMMA TaskSays ==
  ASSUME TypeInv, NEW g \in Goals, HandleRequestNext(g)
  PROVE  /\ task'[g].result = "SUCCEDED" =>
              task[g].result = "SUCCEDED" \/ task[g].verdict = "ok"
         /\ task'[g].pc = "publish" => task'[g].result # "none"
         /\ task'[g].answer = "succeeded" =>
              \/ task[g].answer = "succeeded"
              \/ task[g].pc = "publish" /\ task[g].result # "ABORTED"
<1> USE DEF TypeInv, TypeOK
<1>1. CASE Connect(g) \/ InstallGoal(g) \/ Upload(g) \/ UploadFails(g) \/ HandshakeAnswered(g)
           \/ HandshakeTimeout(g) \/ Teardown(g)
  BY <1>1 DEF Connect, InstallGoal, Upload, UploadFails, HandshakeAnswered,
     HandshakeTimeout, Teardown, Goto, Finish, Tasks
<1>2. CASE Publish(g)
  BY <1>2 DEF Publish, TerminalState, Tasks
<1>3. CASE RunningVerdict(g) \/ StoppingVerdict(g)
  <2>1. VerdictResult(g) = "SUCCEDED" => task[g].verdict = "ok"
    BY DEF VerdictResult
  <2>2. VerdictResult(g) # "none"
    BY DEF VerdictResult
  <2>3. Finish(g, VerdictResult(g))
    BY <1>3 DEF RunningVerdict, StoppingVerdict, VerdictArrives
  <2> QED
    BY <2>1, <2>2, <2>3 DEF Finish, Tasks
<1>4. CASE CancelGoal(g) \/ StopAnswered(g) \/ ResumeGoal(g) \/ ClaimReissue(g)
           \/ ReissueStopped(g) \/ NextAttempt(g)
  BY <1>4 DEF CancelGoal, StopAnswered, ResumeGoal, ClaimReissue, ReissueStopped, NextAttempt,
     Goto, Finish, Tasks
<1> QED
  BY <1>1, <1>2, <1>3, <1>4 DEF HandleRequestNext

\* A request that was cancelled once stays so.
LEMMA CancelledStays ==
  ASSUME TypeInv, Next
  PROVE  client.cancelled \subseteq client'.cancelled
<1> USE DEF TypeInv, TypeOK
<1>1. CASE (\E g \in Goals : ClientSubmit(g)) \/ ClientCancel
  BY <1>1 DEF ClientSubmit, ClientCancel, Clients
<1>2. CASE CommandServerNext \/ RealtimeReaderNext \/ SocketServerNext \/ Restart
  BY <1>2 DEF CommandServerNext, ReadRequestKeys, DeliverCancel,
     ConsumeTrigger, Admit, Reject, WriteExecuting, SpawnGoal, SocketServerNext, Accept, Greet,
     ReadEcho, ReadLine, ReadClose, RealtimeReaderNext, ConnectRealtime, LoseRealtime, ReadFrame,
     Restart
<1>3. CASE \E g \in Goals : HandleRequestNext(g)
  BY <1>3 DEF HandleRequestNext, Connect, InstallGoal, Upload, UploadFails, HandshakeAnswered,
     HandshakeTimeout, RunningVerdict, CancelGoal, StopAnswered, StoppingVerdict, VerdictArrives,
     ResumeGoal, ClaimReissue, ReissueStopped, NextAttempt, Publish, Teardown
<1>4. CASE DashboardNext
  BY <1>4 DEF DashboardNext, ServeStop, Pause, LatchPause, LosePause, Resume, PlayResumes,
     PlayFallsBack, LosePlay, Clients
<1>5. CASE ControllerNext
  BY <1>5 DEF ControllerNext, Dial, Echo, GiveUp, ReachWaypoint, FinishMove, KillProgram
<1> QED
  BY <1>1, <1>2, <1>3, <1>4, <1>5 DEF Next

\* A goal's new verdict is "ok" when one of its scripts has said so, and "failed" when
\* one of them has ended, unless a safety mode aborts it.
LEMMA VerdictIsOwn ==
  ASSUME EarnedInv, Next, NEW g \in Goals, task'[g].verdict # task[g].verdict
  PROVE  \/ task'[g].verdict = "pending"
         \/ task'[g].verdict = "ok" /\ Earned(g)
         \/ task'[g].verdict = "failed" /\ \E s \in ScriptsOf(g) : Ended(s)
         \/ task'[g].verdict = "failed" /\ AbortsGoal(ds'.safetyMode)
<1> USE DEF EarnedInv, ScriptInv
<1>1. Verdict(g)
  BY VerdictComes
<1>2. CASE (ReadLine \/ ReadClose) /\ ss.conn \in Scripts /\ ds.goalSender = g
  <2>1. g # NoGoal
    BY ConstantsAssumption
  <2>2. g = req.goal
    BY <1>2, <2>1 DEF SettledInv, GuardIsOwned, Alone, AliveInTurn
  <2>3. ss.conn[1] = req.goal
    BY <1>2 DEF ReadLine, ReadClose, OfTheRequest
  <2>4. ss.conn \in ScriptsOf(g)
    BY <1>2, <2>2, <2>3 DEF ScriptsOf
  <2>5. CASE Ended(ss.conn) /\ task'[g].verdict = "failed"
    BY <2>4, <2>5
  <2>6. ASSUME NEW i \in 1 .. Len(script[ss.conn].lines),
               script[ss.conn].lines[i].kind \in {"ok", "error"},
               task'[g].verdict = VerdictOf(script[ss.conn].lines[i])
        PROVE  \/ task'[g].verdict = "ok" /\ Earned(g)
               \/ task'[g].verdict = "failed" /\ Ended(ss.conn)
    <3>1. CASE script[ss.conn].lines[i].kind = "ok"
      <4>1. script[ss.conn].pc = "done"
        BY <1>2, <3>1 DEF LinesTell
      <4> QED
        BY <2>4, <2>6, <3>1, <4>1 DEF Earned, VerdictOf
    <3>2. CASE script[ss.conn].lines[i].kind = "error"
      <4>1. script[ss.conn].pc = "failed"
        BY <1>2, <3>2 DEF LinesTell
      <4> QED
        BY <2>6, <3>2, <4>1 DEF Ended, VerdictOf
    <3> QED
      BY <2>6, <3>1, <3>2
  <2> QED
    BY <1>1, <1>2, <2>4, <2>5, <2>6 DEF Verdict
<1> QED
  BY <1>1, <1>2 DEF Verdict

\* So what a goal makes of it, and answers, stays earned.
LEMMA NextWordIsEarned ==
  ASSUME EarnedInv, TypeInv', Next
  PROVE  WordIsEarned'
<1> USE DEF EarnedInv, ScriptInv
<1>1. ASSUME NEW g \in Goals, Earned(g) PROVE Earned(g)'
  <2>1. PICK s \in ScriptsOf(g) : script[s].pc = "done"
    BY <1>1 DEF Earned
  <2>2. script'[s].pc = "done"
    BY <2>1, EndedIsFinal DEF ScriptsOf, Ended
  <2> QED
    BY <2>2 DEF Earned, ScriptsOf
<1>2. \A g \in Goals : g \in client.cancelled => g \in client'.cancelled
  BY CancelledStays
<1>3. ASSUME NEW g \in Goals, task'[g].verdict = "ok" PROVE Earned(g)
  BY <1>3, VerdictIsOwn DEF WordIsEarned
<1>4. ASSUME NEW g \in Goals, task'[g].result = "SUCCEDED" PROVE Earned(g)
  BY <1>4, OwnOrBystander, TaskSays DEF WordIsEarned, Bystander
<1>5. ASSUME NEW g \in Goals, task'[g].result = "CANCELED" PROVE g \in client.cancelled
  <2>1. CASE task[g].result = "CANCELED"
    BY <2>1 DEF WordIsEarned
  <2>2. CASE task[g].pc = "stopping"
    BY <2>2 DEF SettledInv, Alone, CancelIsNamed
  <2> QED
    BY <1>5, <2>1, <2>2, OwnOrBystander, TaskOutcome DEF Bystander
<1>6. ASSUME NEW g \in Goals, task'[g].pc = "publish" PROVE task'[g].result # "none"
  BY <1>6, OwnOrBystander, TaskSays DEF WordIsEarned, Bystander, Outcome, Place
<1>7. ASSUME NEW g \in Goals, task'[g].answer = "succeeded"
      PROVE  Earned(g) \/ g \in client.cancelled
  <2>1. CASE task[g].answer = "succeeded"
    BY <2>1 DEF WordIsEarned
  <2>2. CASE task[g].pc = "publish" /\ task[g].result # "ABORTED"
    <3>1. task[g].result \in {"SUCCEDED", "CANCELED"}
      BY <2>2 DEF WordIsEarned, TypeInv, TypeOK, Tasks
    <3> QED
      BY <3>1 DEF WordIsEarned
  <2> QED
    BY <1>7, <2>1, <2>2, OthersSayNoSuccess, TaskSays
<1> QED
  BY <1>1, <1>2, <1>3, <1>4, <1>5, <1>6, <1>7 DEF WordIsEarned

\* Nothing is at work, said or answered at first.
LEMMA InitEarnedInv == Init => EarnedInv
<1> SUFFICES ASSUME Init PROVE EarnedInv
  OBVIOUS
<1>1. OfTheRequest
  BY ConstantsAssumption DEF Init, OfTheRequest, NewSocketServer, NoScript, Scripts
<1>2. LinesTell
  BY DEF Init, LinesTell, NewScript
<1>3. WordIsEarned
  BY DEF Init, WordIsEarned, NewTask
<1> QED
  BY <1>1, <1>2, <1>3, InitSettledInv, InitScriptInv DEF EarnedInv

\* The invariant is inductive.
LEMMA NextEarnedInv ==
  ASSUME Patience = "settled"
  PROVE  EarnedInv /\ [Next]_vars => EarnedInv'
<1> SUFFICES ASSUME EarnedInv, [Next]_vars PROVE EarnedInv'
  OBVIOUS
<1>1. SettledInv' /\ ScriptInv'
  BY NextSettledInv, NextScriptInv DEF EarnedInv
<1>2. OfTheRequest' /\ LinesTell' /\ WordIsEarned'
  <2>1. CASE Next
    BY <1>1, <2>1, NextOfTheRequest, NextLinesTell, NextWordIsEarned DEF EarnedInv, ScriptInv
  <2>2. CASE UNCHANGED vars
    <3>1. OfTheRequest' /\ LinesTell'
      BY <2>2 DEF vars, EarnedInv, OfTheRequest, LinesTell
    <3>2. WordIsEarned'
      BY <2>2 DEF vars, EarnedInv, WordIsEarned, Earned, ScriptsOf
    <3> QED
      BY <3>1, <3>2
  <2> QED
    BY <2>1, <2>2
<1> QED
  BY <1>1, <1>2 DEF EarnedInv

\* No goal is reported succeeded that neither got to its end nor was asked to be
\* cancelled, however many went before it and whatever failed meanwhile.
THEOREM EverySuccessIsEarned ==
  ASSUME Patience = "settled"
  PROVE  Spec => []SuccessIsEarned
<1>1. EarnedInv /\ [Next]_vars => EarnedInv'
  BY NextEarnedInv
<1>2. EarnedInv => SuccessIsEarned
  BY DEF EarnedInv, WordIsEarned, Earned, SuccessIsEarned
<1> QED
  BY <1>1, <1>2, InitEarnedInv, PTL DEF Spec

------------------------------------------------------------------------------
(***************************************************************************)
(* How far a script has got.  The count of finished waypoints is one for   *)
(* all scripts, so a line of the last one must not come after the next is  *)
(* installed.  It does not, when the stops a re-issue sends are carried    *)
(* out and it waits for the old script's verdict as long as it takes: then *)
(* every script but the last has ended and has been read to its end.       *)
(***************************************************************************)
\* The faults, and the safety modes, that let a re-issue go on before that.
Orderly ==
  /\ Patience = "settled"
  /\ {"queue_full", "stop_refused", "dash_lost", "drain_expires"} \intersect Faults = {}
  /\ \A mode \in SafetyModes : ~ AbortsGoal(mode)

\* A script connects once, a connection that is served has been greeted or is about to
\* be, a line never claims more than was reached, and a verdict is the last line.
Spoken ==
  /\ \A s \in Scripts :
       /\ script[s].pc = "loaded" => script[s].link = "none"
       /\ \A i \in 1 .. Len(script[s].lines) :
            /\ script[s].lines[i].kind = "waypoint" => script[s].lines[i].n < script[s].at
            /\ script[s].lines[i].kind \in {"ok", "error"} => i = Len(script[s].lines)
  /\ ss.pc # "accept" => script[ss.conn].link \in {"accepted", "greeted"}
  /\ ss.pc \in {"echo", "read"} => script[ss.conn].link = "greeted"

\* Nothing but the last script of a goal runs or waits to be served.
LastAtWork(g) ==
  /\ robot.prog \in Scripts => robot.prog = Script(g)
  /\ Len(backlog) <= 1
  /\ \A i \in 1 .. Len(backlog) : backlog[i] = Script(g) /\ script[backlog[i]].link = "queued"

\* Whoever is greeted is the goal's last script, and the goal waits for its handshake.
Greeting(g) ==
  /\ ds.handshakeSender # NoGoal => task[g].handshake = "pending"
  /\ ss.pc \in {"greet", "echo"} =>
       /\ ss.conn = Script(g) /\ ss.handshake = g /\ ds.handshakeSender = NoGoal
       /\ task[g].handshake = "pending"
       /\ task[g].pc = "handshake" => task[g].verdict = "pending"
  /\ ss.pc = "read" /\ ss.conn = Script(g) => task[g].handshake # "pending"
  /\ task[g].pc = "upload" => task[g].handshake = "pending"

\* The scripts before the last have ended and been read to the end.
ReadOut(s) == Ended(s) /\ script[s].lines = <<>>
OldReadOut(g) == \A b \in 1 .. MaxAttempts : b < task[g].attempt => ReadOut(<<g, b>>)

\* A verdict is the last script's, given with its last line or its close.  One that
\* comes of an older script's close leaves no goal_id to greet the next with.
Judged(g) ==
  /\ task[g].pc \in {"upload"} \union WaitsOnScript /\ task[g].verdict = "pending" =>
       ds.goalSender = g
  /\ task[g].pc \in {"upload", "handshake"} /\ task[g].handshake = "pending"
     /\ task[g].verdict # "pending" => ds.goalId = NoGoal
  /\ task[g].pc \in WaitsOnScript /\ task[g].handshake = "yes" =>
       /\ script[Script(g)].link = "greeted"
       /\ ss.pc # "accept" => ss.conn = Script(g)
       /\ task[g].verdict # "pending" => ReadOut(Script(g))
  /\ task[g].pc \in WaitsOnScript \ {"handshake"} => task[g].handshake = "yes"
  /\ task[g].pc = "drain" => Ended(Script(g))

\* The count is of the last script, and so is what the goal means to go on from.
Counted(g) ==
  /\ task[g].pc \in {"connect", "install", "upload"} => ds.waypointsCompleted = 0
  /\ task[g].pc \in WaitsOnScript => ds.waypointsCompleted <= script[Script(g)].at
  /\ task[g].pc \in {"handshake", "run", "stopping"} =>
       script[Script(g)].first = task[g].first
  /\ task[g].pc \in {"claim", "reissue", "drain"} =>
       task[g].first <= script[Script(g)].first + script[Script(g)].at
  /\ \A b \in 1 .. MaxAttempts :
       task[g].pc \in {"connect", "install", "upload"} /\ task[g].attempt = b + 1 =>
         task[g].first <= script[<<g, b>>].first + script[<<g, b>>].at

InOrder(g) == LastAtWork(g) /\ Greeting(g) /\ OldReadOut(g) /\ Judged(g) /\ Counted(g)
RequestInOrder == \A g \in Goals : g = req.goal => InOrder(g)

ProgressInv == EarnedInv /\ StopKills /\ Spoken /\ RequestInOrder /\ NoWaypointSkipped

\* The script being served is the goal's last, which its task has uploaded, or one that
\* has ended and has nothing more to say.
LEMMA ServedIsLast ==
  ASSUME ProgressInv, ss.pc # "accept", NEW g \in Goals, g = req.goal
  PROVE  /\ ss.conn \in Scripts
         /\ \/ ss.conn = Script(g) /\ task[g].pc \notin {"absent", "connect", "install", "upload"}
            \/ ss.conn # Script(g) /\ ReadOut(ss.conn)
<1> USE DEF ProgressInv, EarnedInv, ScriptInv, TypeInv, TypeOK
<1>1. ss.conn \in Scripts /\ ss.conn[1] = g /\ script[ss.conn].pc # "absent"
  BY DEF ConnectionServed, OfTheRequest, SentInv, Connected
<1>2. ss.conn = <<g, ss.conn[2]>> /\ ss.conn[2] \in 1 .. MaxAttempts
  BY <1>1 DEF Scripts
<1>3. ~ Ahead(ss.conn)
  BY <1>1 DEF SentInv, Unsent
<1>4. task[g].attempt \in Nat /\ ss.conn[2] \in Nat /\ Script(g) = <<g, task[g].attempt>>
  BY <1>2 DEF Tasks, Script
<1>5. CASE ss.conn[2] = task[g].attempt
  BY <1>1, <1>2, <1>3, <1>4, <1>5 DEF Ahead
<1>6. CASE ss.conn[2] < task[g].attempt
  <2>1. ReadOut(<<g, ss.conn[2]>>)
    BY <1>2, <1>6 DEF RequestInOrder, InOrder, OldReadOut
  <2>2. ss.conn # Script(g)
    BY <1>2, <1>4, <1>6
  <2> QED
    BY <1>1, <1>2, <2>1, <2>2
<1> QED
  BY <1>1, <1>3, <1>4, <1>5, <1>6 DEF Ahead

\* Whatever sender is left is the goal's in hand, and that goal is alive.
LEMMA SenderIsInHand ==
  ASSUME ProgressInv
  PROVE  /\ ds.handshakeSender # NoGoal => ds.handshakeSender = req.goal /\ Live(req.goal)
         /\ ds.goalSender # NoGoal => ds.goalSender = req.goal /\ Live(req.goal)
BY DEF ProgressInv, EarnedInv, SettledInv, GuardIsOwned, Alone, AliveInTurn, ScriptInv, TypeInv,
   TypeOK, DriverStates, OptGoal

\* The goals in hand are the goals that something of is served or waits.
LEMMA HeadIsLast ==
  ASSUME ProgressInv, backlog # <<>>
  PROVE  /\ req.goal \in Goals /\ backlog[1] = Script(req.goal) /\ Head(backlog) = backlog[1]
         /\ Len(Tail(backlog)) = 0 /\ backlog[1] \in Scripts
         /\ script[backlog[1]].link = "queued" /\ script[backlog[1]].pc # "absent"
<1> USE DEF ProgressInv, EarnedInv, ScriptInv, TypeInv, TypeOK
<1>1. 1 \in 1 .. Len(backlog) /\ backlog[1] \in Scripts /\ Head(backlog) = backlog[1]
  OBVIOUS
<1>2. backlog[1][1] = req.goal /\ backlog[1][1] \in Goals /\ script[backlog[1]].pc # "absent"
  BY <1>1 DEF OfTheRequest, Scripts, SentInv, Connected
<1>3. LastAtWork(req.goal)
  BY <1>2 DEF RequestInOrder, InOrder
<1>4. Len(backlog) \in Nat /\ Len(backlog) <= 1
  BY <1>3 DEF LastAtWork
<1>5. Len(Tail(backlog)) = 0
  <2>1. Len(Tail(backlog)) = Len(backlog) - 1
    BY <1>1
  <2> QED
    BY <1>1, <1>4, <2>1
<1> QED
  BY <1>1, <1>2, <1>3, <1>5 DEF LastAtWork

------------------------------------------------------------------------------
(***************************************************************************)
(* What the scripts say and how they are connected.                        *)
(***************************************************************************)
\* The part of Spoken about one script.
Honest(s) ==
  /\ script[s].pc = "loaded" => script[s].link = "none"
  /\ \A i \in 1 .. Len(script[s].lines) :
       /\ script[s].lines[i].kind = "waypoint" => script[s].lines[i].n < script[s].at
       /\ script[s].lines[i].kind \in {"ok", "error"} => i = Len(script[s].lines)

\* A script that says nothing new stays honest.
LEMMA SilentIsHonest ==
  ASSUME NEW s \in Scripts, Honest(s),
         script'[s].lines = script[s].lines, script'[s].at = script[s].at,
         script'[s].pc = "loaded" => script'[s].link = "none"
  PROVE  Honest(s)'
BY DEF Honest

\* So does one whose first line is read.
LEMMA ReadIsHonest ==
  ASSUME TypeInv, NEW s \in Scripts, Honest(s), script[s].lines # <<>>,
         script'[s] = [script[s] EXCEPT !.lines = Tail(@)]
  PROVE  Honest(s)'
<1> USE DEF TypeInv, TypeOK
<1>1. /\ script'[s].lines = Tail(script[s].lines) /\ script'[s].at = script[s].at
      /\ script'[s].pc = script[s].pc /\ script'[s].link = script[s].link
      /\ script[s].lines \in Seq(Lines)
  BY DEF ScriptStates
<1>2. ASSUME NEW i \in 1 .. Len(script[s].lines)'
      PROVE  /\ i + 1 \in 1 .. Len(script[s].lines)
             /\ script'[s].lines[i] = script[s].lines[i + 1]
             /\ i + 1 = Len(script[s].lines) => i = Len(script'[s].lines)
  BY <1>1, <1>2
<1>3. ASSUME NEW i \in 1 .. Len(script[s].lines)'
      PROVE  /\ script'[s].lines[i].kind = "waypoint" => script'[s].lines[i].n < script'[s].at
             /\ script'[s].lines[i].kind \in {"ok", "error"} => i = Len(script'[s].lines)
  BY <1>1, <1>2 DEF Honest
<1> QED
  BY <1>1, <1>3 DEF Honest

\* So does the one that runs, when it adds a line it has earned.
LEMMA AddIsHonest ==
  ASSUME TypeInv, LinesTell, NEW s \in Scripts, Honest(s), script[s].pc \in {"dialed", "moving"},
         NEW line, script'[s].lines = Append(script[s].lines, line),
         script'[s].at \in {script[s].at, script[s].at + 1}, script'[s].pc # "loaded",
         line.kind = "waypoint" => line.n < script'[s].at
  PROVE  Honest(s)'
<1> USE DEF TypeInv, TypeOK
<1>1. /\ script[s].lines \in Seq(Lines) /\ script[s].at \in Nat
      /\ \A i \in 1 .. Len(script[s].lines) : script[s].lines[i] \in Lines
  BY DEF ScriptStates
<1>2. \A i \in 1 .. Len(script[s].lines) :
        script[s].lines[i].kind \notin {"ok", "error"} /\ script[s].lines[i].n \in Nat
  BY <1>1 DEF LinesTell, Lines
<1>3. ASSUME NEW i \in 1 .. Len(script[s].lines)'
      PROVE  \/ i = Len(script'[s].lines) /\ script'[s].lines[i] = line
             \/ i \in 1 .. Len(script[s].lines) /\ script'[s].lines[i] = script[s].lines[i]
  BY <1>1
<1>4. ASSUME NEW i \in 1 .. Len(script[s].lines)'
      PROVE  /\ script'[s].lines[i].kind = "waypoint" => script'[s].lines[i].n < script'[s].at
             /\ script'[s].lines[i].kind \in {"ok", "error"} => i = Len(script'[s].lines)
  <2>1. CASE i = Len(script'[s].lines) /\ script'[s].lines[i] = line
    BY <2>1
  <2>2. CASE i \in 1 .. Len(script[s].lines) /\ script'[s].lines[i] = script[s].lines[i]
    BY <1>1, <1>2, <2>2 DEF Honest
  <2> QED
    BY <1>3, <2>1, <2>2
<1> QED
  BY <1>4 DEF Honest

\* How a connection is marked, for the one that is served.
Marked ==
  /\ ss.pc # "accept" => script[ss.conn].link \in {"accepted", "greeted"}
  /\ ss.pc \in {"echo", "read"} => script[ss.conn].link = "greeted"

\* Spoken falls apart into the two.
LEMMA SpokenInParts == Spoken <=> (\A s \in Scripts : Honest(s)) /\ Marked
BY DEF Spoken, Honest, Marked

\* No step of the controller, and no stop, makes a script less honest, or marks it.
LEMMA ProgramIsHonest ==
  ASSUME TypeInv, LinesTell, Spoken, ControllerNext \/ ServeStop
  PROVE  /\ \A s \in Scripts : Honest(s)'
         /\ \A s \in Scripts : script[s].link # "none" => script'[s].link = script[s].link
<1> USE DEF TypeInv, TypeOK
<1>1. ASSUME script' = Killed(script, robot.prog), NEW s \in Scripts
      PROVE  Honest(s)' /\ script'[s].link = script[s].link
  <2>1. /\ script'[s].lines = script[s].lines /\ script'[s].at = script[s].at
        /\ script'[s].link = script[s].link /\ script'[s].pc \in {script[s].pc, "killed"}
    BY <1>1 DEF Killed, ScriptStates
  <2> QED
    BY <2>1, SpokenInParts, SilentIsHonest DEF Honest
<1>2. ASSUME NEW t \in Scripts, NEW s \in Scripts,
             Dial(t) \/ Echo(t) \/ GiveUp(t) \/ ReachWaypoint(t) \/ FinishMove(t)
      PROVE  Honest(s)' /\ (script[s].link # "none" => script'[s].link = script[s].link)
  <2>h. Honest(s)
    BY SpokenInParts
  <2>1. CASE s # t
    <3>1. script'[s] = script[s]
      BY <1>2, <2>1 DEF Dial, Echo, GiveUp, ReachWaypoint, FinishMove, Send
    <3> QED
      BY <2>h, <3>1, SilentIsHonest DEF Honest
  <2>2. CASE s = t /\ (Dial(t) \/ GiveUp(t))
    <3>1. /\ script'[s].lines = script[s].lines /\ script'[s].at = script[s].at
          /\ script'[s].pc # "loaded"
          /\ script'[s].link = script[s].link \/ script[s].pc = "loaded"
      BY <2>2 DEF Dial, GiveUp, ScriptStates
    <3> QED
      BY <2>h, <3>1, SilentIsHonest DEF Honest
  <2>3. CASE s = t /\ (Echo(t) \/ ReachWaypoint(t) \/ FinishMove(t))
    <3>l. \A k, n : Line(k, n).kind = k /\ Line(k, n).n = n
      BY DEF Line
    <3>1. CASE Echo(t)
      <4>1. /\ script'[s].lines = Append(script[s].lines, Line("echo", 0))
            /\ script'[s].at = script[s].at /\ script'[s].pc # "loaded"
            /\ script'[s].link = script[s].link /\ script[s].pc = "dialed"
        BY <2>3, <3>1 DEF Echo, Send, ScriptStates
      <4> QED
        BY <2>h, <3>l, <4>1, AddIsHonest
    <3>2. CASE ReachWaypoint(t)
      <4>1. /\ script'[s].lines = Append(script[s].lines, Line("waypoint", script[s].at))
            /\ script'[s].at = script[s].at + 1 /\ script'[s].pc # "loaded"
            /\ script'[s].link = script[s].link /\ script[s].pc = "moving" /\ script[s].at \in Nat
        BY <2>3, <3>2 DEF ReachWaypoint, ScriptStates
      <4>2. script[s].at < script'[s].at
        BY <4>1
      <4> QED
        BY <2>h, <3>l, <4>1, <4>2, AddIsHonest
    <3>3. CASE FinishMove(t)
      <4>1. PICK k \in {"ok", "error"} : script'[s].lines = Append(script[s].lines, Line(k, 0))
        BY <2>3, <3>3 DEF FinishMove, Send, ScriptStates
      <4>2. /\ script'[s].at = script[s].at /\ script'[s].pc # "loaded"
            /\ script'[s].link = script[s].link /\ script[s].pc = "moving"
        BY <2>3, <3>3 DEF FinishMove, Send, ScriptStates
      <4> QED
        BY <2>h, <3>l, <4>1, <4>2, AddIsHonest
    <3> QED
      BY <2>3, <3>1, <3>2, <3>3
  <2> QED
    BY <1>2, <2>1, <2>2, <2>3
<1>3. CASE KillProgram
  BY <1>1, <1>3 DEF KillProgram
<1>4. CASE ServeStop
  <2>1. script' = Killed(script, robot.prog) \/ script' = script
    BY <1>4 DEF ServeStop
  <2>2. CASE script' = script
    BY <2>2, SpokenInParts, SilentIsHonest DEF Honest
  <2> QED
    BY <1>1, <2>1, <2>2
<1> QED
  BY <1>2, <1>3, <1>4 DEF ControllerNext

\* Nor does a step of the socket server.
LEMMA SocketServerIsHonest ==
  ASSUME ProgressInv, SocketServerNext
  PROVE  (\A s \in Scripts : Honest(s)') /\ Marked'
<1> USE DEF ProgressInv, EarnedInv, ScriptInv, TypeInv, TypeOK
<1>h. (\A s \in Scripts : Honest(s)) /\ Marked
  BY SpokenInParts
<1>1. CASE Accept
  <2>1. /\ backlog # <<>> /\ Head(backlog) = backlog[1] /\ backlog[1] \in Scripts
        /\ script[backlog[1]].link = "queued"
    BY <1>1, HeadIsLast DEF Accept
  <2>2. CASE Expected
    <3>1. /\ script' = [script EXCEPT ![backlog[1]].link = "accepted"]
          /\ ss'.pc = "greet" /\ ss'.conn = backlog[1]
      BY <1>1, <2>1, <2>2 DEF Accept
    <3>2. Marked'
      BY <2>1, <3>1 DEF Marked, ScriptStates
    <3>3. ASSUME NEW s \in Scripts PROVE Honest(s)'
      <4>1. /\ script'[s].lines = script[s].lines /\ script'[s].at = script[s].at
            /\ script'[s].pc = script[s].pc
            /\ script'[s].link = script[s].link \/ s = backlog[1]
        BY <3>1 DEF ScriptStates
      <4> QED
        BY <1>h, <2>1, <4>1, SilentIsHonest DEF Honest
    <3> QED
      BY <3>2, <3>3
  <2>3. CASE ~ Expected
    <3>1. script' = [script EXCEPT ![backlog[1]].link = "dropped"] /\ ss' = ss
          /\ ss.pc = "accept"
      BY <1>1, <2>1, <2>3 DEF Accept
    <3>2. Marked'
      BY <3>1 DEF Marked
    <3>3. ASSUME NEW s \in Scripts PROVE Honest(s)'
      <4>1. /\ script'[s].lines = script[s].lines /\ script'[s].at = script[s].at
            /\ script'[s].pc = script[s].pc
            /\ script'[s].link = script[s].link \/ s = backlog[1]
        BY <3>1 DEF ScriptStates
      <4> QED
        BY <1>h, <2>1, <4>1, SilentIsHonest DEF Honest
    <3> QED
      BY <3>2, <3>3
  <2> QED
    BY <2>2, <2>3
<1>2. CASE Greet
  <2>1. /\ script' = [script EXCEPT ![ss.conn].link = "greeted"] /\ ss' = [ss EXCEPT !.pc = "echo"]
        /\ ss.pc = "greet" /\ ss.conn \in Scripts
    BY <1>2 DEF Greet, ConnectionServed
  <2>2. Marked'
    BY <2>1 DEF Marked, ScriptStates, SocketServers
  <2>3. ASSUME NEW s \in Scripts PROVE Honest(s)'
    <3>1. /\ script'[s].lines = script[s].lines /\ script'[s].at = script[s].at
          /\ script'[s].pc = script[s].pc
          /\ script'[s].link = script[s].link \/ s = ss.conn
      <4>1. \/ s # ss.conn /\ script'[s] = script[s]
            \/ s = ss.conn /\ script'[s] = [script[s] EXCEPT !.link = "greeted"]
        BY <2>1
      <4> QED
        BY <4>1 DEF ScriptStates
    <3>2. script'[s].pc = "loaded" => script'[s].link = "none"
      BY <1>h, <2>1, <3>1 DEF Honest, Marked
    <3> QED
      BY <1>h, <3>1, <3>2, SilentIsHonest
  <2> QED
    BY <2>2, <2>3
<1>3. CASE ReadEcho \/ ReadLine \/ ReadClose
  <2>1. script' = script \/ (script[ss.conn].lines # <<>>
                             /\ script' = [script EXCEPT ![ss.conn].lines = Tail(@)])
    BY <1>3 DEF ReadEcho, ReadLine, ReadClose, Received, Consume
  <2>2. ASSUME NEW s \in Scripts
        PROVE  script'[s] = script[s]
               \/ (script[s].lines # <<>> /\ script'[s] = [script[s] EXCEPT !.lines = Tail(@)])
    BY <2>1
  <2>3. ASSUME NEW s \in Scripts PROVE script'[s].link = script[s].link
    BY <2>2 DEF ScriptStates
  <2>4. ASSUME NEW s \in Scripts PROVE Honest(s)'
    <3>1. CASE script'[s] = script[s]
      BY <1>h, <3>1 DEF Honest
    <3> QED
      BY <1>h, <2>2, <3>1, ReadIsHonest
  <2>5. /\ ss'.pc # "accept" => ss'.pc = "read" /\ ss'.conn = ss.conn
        /\ ss.pc \in {"echo", "read"} /\ ss.conn \in Scripts
    <3>1. ss.pc \in {"echo", "read"} /\ ss.conn \in Scripts
      BY <1>3 DEF ReadEcho, ReadLine, ReadClose, ConnectionServed
    <3>2. CASE ReadEcho \/ ReadLine
      BY <3>1, <3>2 DEF ReadEcho, ReadLine, SocketServers
    <3>3. CASE ReadClose
      BY <3>1, <3>3 DEF ReadClose, NewSocketServer
    <3> QED
      BY <1>3, <3>1, <3>2, <3>3
  <2>6. Marked'
    BY <1>h, <2>3, <2>5 DEF Marked
  <2> QED
    BY <2>4, <2>6
<1> QED
  BY <1>1, <1>2, <1>3 DEF SocketServerNext

\* Every step keeps the scripts honest and the connections marked.
LEMMA NextSpoken ==
  ASSUME ProgressInv, Next
  PROVE  Spoken'
<1> USE DEF ProgressInv, EarnedInv, ScriptInv, TypeInv, TypeOK
<1>h. (\A s \in Scripts : Honest(s)) /\ Marked
  BY SpokenInParts
<1>s. ASSUME (\A s \in Scripts : Honest(s)') /\ Marked' PROVE Spoken'
  BY <1>s DEF Spoken, Honest, Marked
<1>1. CASE SocketServerNext
  BY <1>1, <1>s, SocketServerIsHonest
<1>2. CASE ControllerNext \/ ServeStop
  <2>1. UNCHANGED ss
    BY <1>2 DEF ControllerNext, Dial, Echo, GiveUp, ReachWaypoint, FinishMove, KillProgram,
       ServeStop
  <2>2. \A s \in Scripts : script[s].link # "none" => script'[s].link = script[s].link
    BY <1>2, ProgramIsHonest
  <2>3. Marked'
    BY <1>h, <2>1, <2>2 DEF Marked, ConnectionServed
  <2> QED
    BY <1>2, <1>s, <2>3, ProgramIsHonest
<1>3. ASSUME NEW g \in Goals, Upload(g) PROVE Spoken'
  <2>1. ASSUME NEW s \in Scripts, s # Script(g)
        PROVE  Honest(s)' /\ script'[s].link = script[s].link
    <3>1. script'[s] = script[s] \/ script'[s] = [script[s] EXCEPT !.pc = "killed"]
      BY <1>3, <2>1, UploadSends
    <3>2. /\ script'[s].lines = script[s].lines /\ script'[s].at = script[s].at
          /\ script'[s].link = script[s].link /\ script'[s].pc \in {script[s].pc, "killed"}
      BY <3>1 DEF ScriptStates
    <3> QED
      BY <1>h, <3>2, SilentIsHonest DEF Honest
  <2>2. ASSUME NEW s \in Scripts, s = Script(g) PROVE Honest(s)'
    <3>1. script'[s].lines = <<>> /\ script'[s].link = "none"
      BY <1>3, <2>2, UploadSends DEF NewScript
    <3> QED
      BY <3>1 DEF Honest
  <2>3. UNCHANGED ss /\ (ss.pc # "accept" => ss.conn \in Scripts /\ ss.conn # Script(g))
    BY <1>3, UploadSends DEF Upload, ConnectionServed, SentInv, Connected
  <2>4. Marked'
    BY <1>h, <2>1, <2>3 DEF Marked
  <2> QED
    BY <1>s, <2>1, <2>2, <2>4
<1>4. CASE Restart
  <2>1. ASSUME NEW s \in Scripts PROVE Honest(s)'
    <3>1. /\ script'[s].lines = script[s].lines /\ script'[s].at = script[s].at
          /\ script'[s].pc = script[s].pc
          /\ script'[s].link = script[s].link \/ script[s].link = "queued"
      BY <1>4 DEF Restart, ScriptStates
    <3> QED
      BY <1>h, <3>1, SilentIsHonest DEF Honest
  <2>2. ss'.pc = "accept"
    BY <1>4 DEF Restart, NewSocketServer
  <2> QED
    BY <1>s, <2>1, <2>2 DEF Marked
<1>5. CASE UNCHANGED <<script, ss>>
  BY <1>5 DEF Spoken
<1>6. \/ SocketServerNext \/ ControllerNext \/ ServeStop \/ Restart \/ UNCHANGED <<script, ss>>
      \/ \E g \in Goals : Upload(g)
  <2>1. CASE (\E g \in Goals : ClientSubmit(g)) \/ ClientCancel \/ CommandServerNext
             \/ RealtimeReaderNext
    BY <2>1 DEF ClientSubmit, ClientCancel, CommandServerNext, ReadRequestKeys, DeliverCancel,
       ConsumeTrigger, Admit, Reject, WriteExecuting, SpawnGoal, RealtimeReaderNext,
       ConnectRealtime, LoseRealtime, ReadFrame
  <2>2. CASE \E g \in Goals : HandleRequestNext(g)
    BY <2>2 DEF HandleRequestNext, Connect, InstallGoal, UploadFails, HandshakeAnswered,
       HandshakeTimeout, RunningVerdict, CancelGoal, StopAnswered, StoppingVerdict,
       VerdictArrives, ResumeGoal, ClaimReissue, ReissueStopped, NextAttempt, Publish, Teardown
  <2>3. CASE DashboardNext
    BY <2>3 DEF DashboardNext, Pause, LatchPause, LosePause, Resume, PlayResumes,
       PlayFallsBack, LosePlay
  <2> QED
    BY <2>1, <2>2, <2>3 DEF Next
<1> QED
  BY <1>1, <1>2, <1>3, <1>4, <1>5, <1>6

------------------------------------------------------------------------------
(***************************************************************************)
(* The order a goal's scripts are installed, run and read in.              *)
(***************************************************************************)
\* What InOrder says of a task and of DriverState.
Seat(g) ==
  <<task[g].pc, task[g].attempt, task[g].first, task[g].verdict, task[g].handshake>>
Wiring == <<ds.handshakeSender, ds.goalId, ds.goalSender, ds.waypointsCompleted>>

\* What all else does keeps it.
LEMMA StillInOrder ==
  ASSUME NEW g \in Goals, InOrder(g), UNCHANGED Seat(g), UNCHANGED Wiring,
         UNCHANGED <<script, ss, backlog>>, robot'.prog = robot.prog
  PROVE  InOrder(g)'
<1> USE DEF InOrder, Seat, Wiring
<1>s. Script(g)' = Script(g)
  BY DEF Script
<1>1. LastAtWork(g)'
  BY <1>s DEF LastAtWork
<1>2. Greeting(g)'
  BY <1>s DEF Greeting
<1>3. OldReadOut(g)'
  BY DEF OldReadOut, ReadOut, Ended
<1>4. Judged(g)'
  BY <1>s DEF Judged, ReadOut, Ended
<1>5. Counted(g)'
  BY <1>s DEF Counted
<1> QED
  BY <1>1, <1>2, <1>3, <1>4, <1>5

\* Going on in a task that waits on its script, without a word from it.
LEMMA WaitInOrder ==
  ASSUME NEW g \in Goals, InOrder(g), UNCHANGED Wiring, UNCHANGED <<script, ss, backlog, robot>>,
         task'[g].attempt = task[g].attempt, task'[g].first = task[g].first,
         task'[g].verdict = task[g].verdict, task'[g].handshake = task[g].handshake,
         \/ task[g].pc = "handshake" /\ task[g].handshake = "yes" /\ task'[g].pc = "run"
         \/ task[g].pc = "run" /\ task'[g].pc = "stopping"
         \/ task[g].pc = "claim" /\ task'[g].pc = "reissue"
         \/ task[g].pc = "reissue" /\ task'[g].pc = "drain" /\ Ended(Script(g))
         \/ task[g].pc = "connect" /\ task'[g].pc = "install"
  PROVE  InOrder(g)'
<1> USE DEF InOrder, Wiring, WaitsOnScript
<1>s. Script(g)' = Script(g)
  BY DEF Script
<1>1. LastAtWork(g)'
  BY <1>s DEF LastAtWork
<1>2. Greeting(g)'
  BY <1>s DEF Greeting
<1>3. OldReadOut(g)'
  BY DEF OldReadOut, ReadOut, Ended
<1>4. Judged(g)'
  BY <1>s DEF Judged, ReadOut, Ended
<1>5. Counted(g)'
  BY <1>s DEF Counted
<1> QED
  BY <1>1, <1>2, <1>3, <1>4, <1>5

\* A task that is over, or was never spawned, waits for nothing more.
LEMMA OverInOrder ==
  ASSUME NEW g \in Goals, InOrder(g), UNCHANGED <<script, ss, backlog>>,
         robot'.prog = robot.prog, ds'.handshakeSender \in {ds.handshakeSender, NoGoal},
         task'[g].attempt = task[g].attempt, task'[g].handshake = task[g].handshake,
         task'[g].pc \in {"absent", "publish", "teardown", "gone"}
  PROVE  InOrder(g)'
<1> USE DEF InOrder, WaitsOnScript
<1>s. Script(g)' = Script(g)
  BY DEF Script
<1>1. LastAtWork(g)'
  BY <1>s DEF LastAtWork
<1>2. Greeting(g)'
  BY <1>s DEF Greeting
<1>3. OldReadOut(g)'
  BY DEF OldReadOut, ReadOut, Ended
<1>4. Judged(g)'
  BY <1>s DEF Judged
<1>5. Counted(g)'
  BY <1>s DEF Counted
<1> QED
  BY <1>1, <1>2, <1>3, <1>4, <1>5

\* A goal's channels are installed when nothing of its new script exists yet.
LEMMA InstallInOrder ==
  ASSUME ProgressInv, NEW g \in Goals, g = req.goal, InstallGoal(g)
  PROVE  InOrder(g)'
<1> USE DEF ProgressInv, EarnedInv, ScriptInv, TypeInv, TypeOK
<1>o. InOrder(g)
  BY DEF RequestInOrder
<1>1. /\ task[g].pc = "install" /\ task'[g].pc = "upload"
      /\ task'[g].verdict = "pending" /\ task'[g].handshake = "pending"
      /\ task'[g].attempt = task[g].attempt /\ task'[g].first = task[g].first
      /\ UNCHANGED <<ss, script, backlog, robot>>
  BY DEF InstallGoal, Tasks
<1>2. /\ ds'.goalId = g /\ ds'.goalSender = g /\ ds'.handshakeSender = g
      /\ ds'.waypointsCompleted = ds.waypointsCompleted
  BY DEF InstallGoal, Installed, DriverStates
<1>3. ss.pc # "accept" => ss.conn # Script(g) /\ ss.pc \notin {"greet", "echo"}
  BY <1>o, <1>1, ServedIsLast DEF InOrder, Greeting
<1>s. Script(g)' = Script(g)
  BY <1>1 DEF Script
<1> USE DEF InOrder, WaitsOnScript
<1>4. LastAtWork(g)'
  BY <1>o, <1>1, <1>s DEF LastAtWork
<1>5. Greeting(g)'
  BY <1>o, <1>1, <1>3, <1>s DEF Greeting
<1>6. OldReadOut(g)'
  BY <1>o, <1>1 DEF OldReadOut, ReadOut, Ended
<1>7. Judged(g)'
  BY <1>1, <1>2 DEF Judged
<1>8. Counted(g)'
  BY <1>o, <1>1, <1>2 DEF Counted
<1> QED
  BY <1>4, <1>5, <1>6, <1>7, <1>8

\* The upload replaces whatever runs by the goal's new script.
LEMMA UploadInOrder ==
  ASSUME ProgressInv, NEW g \in Goals, g = req.goal, Upload(g)
  PROVE  InOrder(g)'
<1> USE DEF ProgressInv, EarnedInv, ScriptInv, TypeInv, TypeOK
<1>o. InOrder(g)
  BY DEF RequestInOrder
<1>1. /\ task[g].pc = "upload" /\ task'[g].pc = "handshake"
      /\ task'[g].verdict = task[g].verdict /\ task'[g].handshake = task[g].handshake
      /\ task'[g].attempt = task[g].attempt /\ task'[g].first = task[g].first
      /\ UNCHANGED <<ds, ss, backlog>> /\ robot'.prog = Script(g)
  BY DEF Upload, Goto, Tasks
<1>2. /\ script[Script(g)].pc = "absent" /\ Script(g)' = Script(g) /\ Script(g) \in Scripts
      /\ script'[Script(g)].first = task[g].first /\ script'[Script(g)].at = 0
  <2>1. Script(g) \in Scripts
    BY ScriptType
  <2>2. script'[Script(g)] = [NewScript EXCEPT !.pc = "loaded", !.first = task[g].first]
    BY UploadSends
  <2>3. script'[Script(g)].first = task[g].first /\ script'[Script(g)].at = 0
    BY <2>2 DEF NewScript
  <2> QED
    BY <2>1, <2>3, UploadSends
<1>3. /\ ss.pc # "accept" => ss.conn # Script(g)
      /\ \A i \in 1 .. Len(backlog) : backlog[i] # Script(g)
  BY <1>2 DEF SentInv, Connected
<1>4. task[g].handshake = "pending" /\ ss.pc \notin {"greet", "echo"}
  BY <1>o, <1>1, <1>3 DEF InOrder, Greeting
<1>5. ASSUME NEW b \in 1 .. MaxAttempts, b < task[g].attempt
      PROVE  ReadOut(<<g, b>>)'
  <2>1. <<g, b>> \in Scripts /\ <<g, b>> # Script(g) /\ ReadOut(<<g, b>>)
    BY <1>o, <1>5 DEF Scripts, Script, InOrder, OldReadOut
  <2>2. script'[<<g, b>>] = script[<<g, b>>]
        \/ script'[<<g, b>>] = [script[<<g, b>>] EXCEPT !.pc = "killed"]
    BY <2>1, UploadSends
  <2> QED
    BY <2>1, <2>2 DEF ReadOut, Ended, ScriptStates
<1>6. LastAtWork(g)'
  BY <1>o, <1>1, <1>2, <1>3 DEF InOrder, LastAtWork
<1>7. Greeting(g)'
  BY <1>o, <1>1, <1>2, <1>3, <1>4 DEF InOrder, Greeting
<1>8. OldReadOut(g)'
  BY <1>1, <1>5 DEF OldReadOut
<1>9. Judged(g)'
  BY <1>o, <1>1, <1>4 DEF InOrder, Judged, WaitsOnScript
<1>10. Counted(g)'
  BY <1>o, <1>1, <1>2 DEF InOrder, Counted, WaitsOnScript
<1> QED
  BY <1>6, <1>7, <1>8, <1>9, <1>10 DEF InOrder

\* What a resume drops, the running script has reached.
LEMMA ResumeInOrder ==
  ASSUME ProgressInv, NEW g \in Goals, g = req.goal, ResumeGoal(g), task'[g].pc = "claim"
  PROVE  InOrder(g)'
<1> USE DEF ProgressInv, EarnedInv, ScriptInv, TypeInv, TypeOK
<1>o. InOrder(g)
  BY DEF RequestInOrder
<1>1. /\ task[g].pc = "run" /\ task'[g].first = task[g].first + Remaining(g)
      /\ task'[g].verdict = task[g].verdict /\ task'[g].handshake = task[g].handshake
      /\ task'[g].attempt = task[g].attempt
      /\ UNCHANGED <<ds, ss, script, backlog, robot>>
  BY DEF ResumeGoal, Tasks
<1>s. Script(g)' = Script(g) /\ Script(g) \in Scripts
  <2>1. Script(g) \in Scripts
    BY ScriptType
  <2> QED
    BY <1>1, <2>1 DEF Script
<1>2. /\ task[g].first \in Nat /\ ds.waypointsCompleted \in Nat
      /\ script[Script(g)].first \in Nat /\ script[Script(g)].at \in Nat
  BY <1>s DEF Tasks, DriverStates, ScriptStates
<1>3. Remaining(g) \in {0, ds.waypointsCompleted}
  BY DEF Remaining
<1>4. /\ script[Script(g)].first = task[g].first
      /\ ds.waypointsCompleted <= script[Script(g)].at
  BY <1>o, <1>1 DEF InOrder, Counted, WaitsOnScript
<1>5. task'[g].first <= script[Script(g)].first + script[Script(g)].at
  BY <1>1, <1>2, <1>3, <1>4
<1> USE DEF InOrder, WaitsOnScript
<1>6. LastAtWork(g)'
  BY <1>o, <1>1, <1>s DEF LastAtWork
<1>7. Greeting(g)'
  BY <1>o, <1>1, <1>s DEF Greeting
<1>8. OldReadOut(g)'
  BY <1>o, <1>1 DEF OldReadOut, ReadOut, Ended
<1>9. Judged(g)'
  BY <1>o, <1>1, <1>s DEF Judged, ReadOut, Ended
<1>10. Counted(g)'
  BY <1>o, <1>1, <1>5, <1>s DEF Counted
<1> QED
  BY <1>6, <1>7, <1>8, <1>9, <1>10

\* The next attempt is made when the last script has ended and was read to its end.
LEMMA AttemptInOrder ==
  ASSUME ProgressInv, Orderly, NEW g \in Goals, g = req.goal, NextAttempt(g)
  PROVE  InOrder(g)'
<1> USE DEF ProgressInv, EarnedInv, ScriptInv, TypeInv, TypeOK
<1>o. InOrder(g)
  BY DEF RequestInOrder
<1>1. /\ task[g].pc = "drain" /\ task'[g].pc = "connect" /\ task'[g].first = task[g].first
      /\ task'[g].verdict = task[g].verdict /\ task'[g].handshake = task[g].handshake
      /\ task'[g].attempt = task[g].attempt + 1
      /\ UNCHANGED <<ss, script, backlog, robot>>
      /\ ds'.handshakeSender = ds.handshakeSender /\ ds'.waypointsCompleted = 0
  BY DEF NextAttempt, Tasks, DriverStates
<1>s. /\ Script(g) = <<g, task[g].attempt>> /\ Script(g) \in Scripts
      /\ task[g].attempt \in 1 .. MaxAttempts /\ task[g].attempt < MaxAttempts
      /\ Script(g)' = <<g, task[g].attempt + 1>> /\ Script(g)' \in Scripts
      /\ Script(g)' # Script(g)
  <2>1. task[g].attempt \in 1 .. MaxAttempts /\ task[g].attempt < MaxAttempts
    BY <1>1 DEF AttemptLeft, Tasks
  <2>2. MaxAttempts \in Nat
    BY ConstantsAssumption
  <2> QED
    BY <1>1, <2>1, <2>2 DEF Script, Scripts
<1>2. /\ task[g].handshake = "yes" /\ script[Script(g)].link = "greeted" /\ Ended(Script(g))
      /\ task[g].verdict # "pending" => ReadOut(Script(g))
      /\ task[g].verdict = "pending" => ds.goalSender = g
  BY <1>o, <1>1 DEF InOrder, Judged, WaitsOnScript
<1>3. ReadOut(Script(g))
  BY <1>2 DEF NextAttempt, Drained, VerdictDropped, Orderly
<1>4. script[Script(g)'].pc = "absent"
  <2>1. Ahead(Script(g)')
    BY <1>s DEF Ahead
  <2> QED
    BY <1>s, <2>1 DEF SentInv, Unsent
<1>5. robot.prog \notin Scripts
  <2>1. robot.prog \in Scripts => robot.prog = Script(g)
    BY <1>o DEF InOrder, LastAtWork
  <2>2. ~ AtWork(Script(g))
    BY <1>2 DEF AtWork, Ended
  <2> QED
    BY <1>s, <2>1, <2>2 DEF SentInv, OneProgram
<1>6. \A i \in 1 .. Len(backlog) : FALSE
  BY <1>o, <1>2 DEF InOrder, LastAtWork
<1>7. LastAtWork(g)'
  BY <1>o, <1>1, <1>5, <1>6 DEF InOrder, LastAtWork
<1>8. ss.pc # "accept" => ss.conn # Script(g)' /\ ss.pc \notin {"greet", "echo"}
  <2>1. ss.pc # "accept" => script[ss.conn].pc # "absent"
    BY DEF SentInv, Connected
  <2>2. ss.pc \notin {"greet", "echo"}
    BY <1>o, <1>2 DEF InOrder, Greeting
  <2> QED
    BY <1>4, <2>1, <2>2
<1>9. Greeting(g)'
  BY <1>o, <1>1, <1>2, <1>8 DEF InOrder, Greeting
<1>10. ASSUME NEW b \in 1 .. MaxAttempts, b < task[g].attempt + 1
       PROVE  ReadOut(<<g, b>>)
  <2>1. b < task[g].attempt \/ b = task[g].attempt
    BY <1>s, <1>10
  <2> QED
    BY <1>o, <1>3, <1>s, <2>1 DEF InOrder, OldReadOut
<1>11. OldReadOut(g)'
  BY <1>1, <1>10 DEF OldReadOut, ReadOut, Ended
<1>12. Judged(g)'
  BY <1>1 DEF Judged, WaitsOnScript
<1>13. Counted(g)'
  <2>1. task[g].first <= script[Script(g)].first + script[Script(g)].at
    BY <1>o, <1>1 DEF InOrder, Counted
  <2>2. ASSUME NEW b \in 1 .. MaxAttempts, task'[g].attempt = b + 1
        PROVE  task'[g].first <= script'[<<g, b>>].first + script'[<<g, b>>].at
    <3>1. b = task[g].attempt
      <4>1. b \in Nat /\ task[g].attempt \in Nat /\ task[g].attempt + 1 = b + 1
        BY <1>1, <1>s, <2>2
      <4> QED
        BY ONLY <4>1
    <3>2. <<g, b>> = Script(g)
      BY <1>s, <3>1
    <3> QED
      BY <1>1, <2>1, <3>2
  <2> QED
    BY <1>1, <2>2 DEF Counted, WaitsOnScript
<1> QED
  BY <1>7, <1>9, <1>11, <1>12, <1>13 DEF InOrder

\* Whatever its task does next, the goal's scripts stay in order.
LEMMA TaskInOrder ==
  ASSUME ProgressInv, Orderly, NEW g \in Goals, g = req.goal, HandleRequestNext(g)
  PROVE  InOrder(g)'
<1> USE DEF ProgressInv, EarnedInv, ScriptInv, TypeInv, TypeOK
<1>o. InOrder(g)
  BY DEF RequestInOrder
<1>1. CASE Connect(g)
  <2>1. /\ task'[g].attempt = task[g].attempt /\ task'[g].first = task[g].first
        /\ task'[g].verdict = task[g].verdict /\ task'[g].handshake = task[g].handshake
        /\ UNCHANGED <<ds, script, ss, backlog, robot>>
        /\ \/ task[g].pc = "connect" /\ task'[g].pc = "install"
           \/ task'[g].pc = "publish"
    BY <1>1 DEF Connect, Goto, Finish, Tasks
  <2> QED
    BY <1>o, <2>1, WaitInOrder, OverInOrder DEF Wiring
<1>2. CASE HandshakeAnswered(g) \/ CancelGoal(g) \/ ClaimReissue(g) \/ ReissueStopped(g)
  <2>1. /\ task'[g].attempt = task[g].attempt /\ task'[g].first = task[g].first
        /\ task'[g].verdict = task[g].verdict /\ task'[g].handshake = task[g].handshake
    <3>1. CASE HandshakeAnswered(g) \/ ReissueStopped(g)
      BY <3>1 DEF HandshakeAnswered, ReissueStopped, Goto, Finish, Tasks
    <3>2. CASE CancelGoal(g)
      BY <3>2 DEF CancelGoal, Tasks
    <3>3. CASE ClaimReissue(g)
      <4>1. \/ task' = [task EXCEPT ![g].pc = "reissue", ![g].stop = "sent"]
            \/ task' = [task EXCEPT ![g].pc = "drain"]
        BY <3>3 DEF ClaimReissue, Goto
      <4> QED
        BY <4>1 DEF Tasks
    <3> QED
      BY <1>2, <3>1, <3>2, <3>3
  <2>u. UNCHANGED <<script, ss, backlog, robot>> /\ UNCHANGED Wiring
    BY <1>2 DEF HandshakeAnswered, CancelGoal, ClaimReissue, ReissueStopped, Wiring, DriverStates
  <2>2. CASE HandshakeAnswered(g)
    <3>1. \/ task[g].pc = "handshake" /\ task[g].handshake = "yes" /\ task'[g].pc = "run"
          \/ task'[g].pc = "publish"
      BY <2>2 DEF HandshakeAnswered, Goto, Finish, Tasks
    <3> QED
      BY <1>o, <2>1, <2>u, <3>1, WaitInOrder, OverInOrder DEF Wiring
  <2>3. CASE CancelGoal(g)
    <3>1. \/ task[g].pc = "run" /\ task'[g].pc = "stopping"
          \/ task'[g].pc = "publish"
      BY <2>3 DEF CancelGoal, Tasks
    <3> QED
      BY <1>o, <2>1, <2>u, <3>1, WaitInOrder, OverInOrder DEF Wiring
  <2>4. CASE ClaimReissue(g)
    <3>1. task[g].pc = "claim" /\ task'[g].pc = "reissue"
      BY <2>4 DEF ClaimReissue, Goto, Tasks, Orderly
    <3> QED
      BY <1>o, <2>1, <2>u, <3>1, WaitInOrder
  <2>5. CASE ReissueStopped(g)
    <3>1. task[g].pc = "reissue" /\ task'[g].pc = "drain" /\ Ended(Script(g))
      BY <2>5 DEF ReissueStopped, StopReplied, Goto, Tasks, StopKills
    <3> QED
      BY <1>o, <2>1, <2>u, <3>1, WaitInOrder
  <2> QED
    BY <1>2, <2>2, <2>3, <2>4, <2>5
<1>3. CASE \/ UploadFails(g) \/ HandshakeTimeout(g) \/ RunningVerdict(g) \/ StopAnswered(g)
           \/ StoppingVerdict(g) \/ Publish(g) \/ Teardown(g)
           \/ ResumeGoal(g) /\ task'[g].pc # "claim"
  <2>1. /\ task'[g].attempt = task[g].attempt /\ task'[g].handshake = task[g].handshake
        /\ task'[g].pc \in {"publish", "teardown", "gone"}
    <3>1. CASE UploadFails(g) \/ HandshakeTimeout(g) \/ StopAnswered(g)
      <4>1. \/ task'[g] = [task[g] EXCEPT !.pc = "publish", !.result = "ABORTED"]
            \/ task'[g] = [task[g] EXCEPT !.pc = "publish", !.result = "CANCELED"]
        BY <3>1 DEF UploadFails, HandshakeTimeout, StopAnswered, Finish
      <4>2. task[g] \in Tasks
        OBVIOUS
      <4> QED
        BY ONLY <4>1, <4>2 DEF Tasks
    <3>2. CASE RunningVerdict(g) \/ StoppingVerdict(g)
      BY <3>2 DEF RunningVerdict, StoppingVerdict, VerdictArrives, Finish, Tasks
    <3>3. CASE Publish(g) \/ Teardown(g)
      BY <3>3 DEF Publish, Teardown, Goto, Tasks
    <3>4. CASE ResumeGoal(g) /\ task'[g].pc # "claim"
      <4>1. \/ task' = [task EXCEPT ![g].pc = "publish", ![g].result = "ABORTED",
                                   ![g].resume = FALSE]
            \/ task' = [task EXCEPT ![g].pc = "claim", ![g].resume = FALSE,
                                   ![g].first = @ + Remaining(g)]
        BY <3>4 DEF ResumeGoal
      <4>2. task' = [task EXCEPT ![g].pc = "publish", ![g].result = "ABORTED",
                                 ![g].resume = FALSE]
        BY <3>4, <4>1 DEF Tasks
      <4> QED
        BY <4>2 DEF Tasks
    <3> QED
      BY <1>3, <3>1, <3>2, <3>3, <3>4
  <2>2. /\ UNCHANGED <<script, ss, backlog, robot>>
        /\ ds'.handshakeSender \in {ds.handshakeSender, NoGoal}
    BY <1>3 DEF UploadFails, HandshakeTimeout, RunningVerdict, StopAnswered, StoppingVerdict,
       VerdictArrives, Publish, Teardown, ResumeGoal, TornDown, DriverStates
  <2> QED
    BY <1>o, <2>1, <2>2, OverInOrder
<1>4. CASE InstallGoal(g)
  BY <1>4, InstallInOrder
<1>5. CASE Upload(g)
  BY <1>5, UploadInOrder
<1>6. CASE ResumeGoal(g) /\ task'[g].pc = "claim"
  BY <1>6, ResumeInOrder
<1>7. CASE NextAttempt(g)
  BY <1>7, AttemptInOrder
<1> QED
  BY <1>1, <1>2, <1>3, <1>4, <1>5, <1>6, <1>7 DEF HandleRequestNext

\* A connection is taken for the goal in hand, before it has any verdict.
LEMMA AcceptInOrder ==
  ASSUME ProgressInv, NEW g \in Goals, g = req.goal, Accept
  PROVE  InOrder(g)'
<1> USE DEF ProgressInv, EarnedInv, ScriptInv, TypeInv, TypeOK
<1>o. InOrder(g)
  BY DEF RequestInOrder
<1>1. /\ ss.pc = "accept" /\ backlog # <<>> /\ backlog' = Tail(backlog)
      /\ UNCHANGED <<task, robot>>
  BY DEF Accept
<1>2. /\ Head(backlog) = Script(g) /\ Len(backlog') = 0 /\ Script(g) \in Scripts
      /\ script[Script(g)].link = "queued"
  BY <1>1, HeadIsLast
<1>s. Script(g)' = Script(g)
  BY <1>1 DEF Script
<1>3. /\ \A s \in Scripts : s # Script(g) => script'[s] = script[s]
      /\ script'[Script(g)].pc = script[Script(g)].pc
      /\ script'[Script(g)].lines = script[Script(g)].lines
      /\ script'[Script(g)].first = script[Script(g)].first
      /\ script'[Script(g)].at = script[Script(g)].at
      /\ ds'.goalSender = ds.goalSender /\ ds'.goalId = ds.goalId
      /\ ds'.waypointsCompleted = ds.waypointsCompleted
  <2>1. CASE Expected
    BY <1>2, <2>1 DEF Accept, ScriptStates, DriverStates
  <2>2. CASE ~ Expected
    BY <1>2, <2>2 DEF Accept, ScriptStates
  <2> QED
    BY <2>1, <2>2
<1>4. \A s \in Scripts : ReadOut(s)' <=> ReadOut(s)
  BY <1>3 DEF ReadOut, Ended
<1>5. ~ (task[g].pc \in WaitsOnScript /\ task[g].handshake = "yes")
  BY <1>o, <1>2 DEF InOrder, Judged
<1>6. LastAtWork(g)'
  BY <1>o, <1>1, <1>2, <1>s DEF InOrder, LastAtWork
<1>7. Greeting(g)'
  <2>1. CASE Expected
    <3>1. /\ ss'.pc = "greet" /\ ss'.conn = Script(g) /\ ss'.handshake = ds.handshakeSender
          /\ ds'.handshakeSender = NoGoal
          /\ ds.handshakeSender # NoGoal /\ ds.goalId # NoGoal
      BY <1>2, <2>1 DEF Accept, Expected, DriverStates
    <3>2. ss'.handshake = g
      BY <3>1, SenderIsInHand
    <3>3. /\ task[g].handshake = "pending"
          /\ task[g].pc = "handshake" => task[g].verdict = "pending"
      BY <1>o, <3>1 DEF InOrder, Greeting, Judged
    <3> QED
      BY <1>1, <1>s, <3>1, <3>2, <3>3 DEF Greeting
  <2>2. CASE ~ Expected
    <3>1. ss' = ss /\ ds' = ds
      BY <2>2 DEF Accept
    <3> QED
      BY <1>o, <1>1, <3>1 DEF InOrder, Greeting
  <2> QED
    BY <2>1, <2>2
<1>8. OldReadOut(g)'
  BY <1>o, <1>1, <1>4 DEF InOrder, OldReadOut, Scripts
<1>9. Judged(g)'
  <2>1. Ended(Script(g))' <=> Ended(Script(g))
    BY <1>2, <1>3, <1>s DEF Ended
  <2> QED
    BY <1>o, <1>1, <1>3, <1>5, <2>1 DEF InOrder, Judged, WaitsOnScript
<1>10. Counted(g)'
  <2>1. ASSUME NEW b \in 1 .. MaxAttempts
        PROVE  /\ script'[<<g, b>>].first = script[<<g, b>>].first
               /\ script'[<<g, b>>].at = script[<<g, b>>].at
    <3>1. <<g, b>> \in Scripts
      BY DEF Scripts
    <3> QED
      BY <1>3, <3>1
  <2> QED
    BY <1>o, <1>1, <1>3, <1>s, <2>1 DEF InOrder, Counted
<1> QED
  BY <1>6, <1>7, <1>8, <1>9, <1>10 DEF InOrder

\* A script of which no line is left has said all of it.
LEMMA NothingLeft ==
  ASSUME NEW lines \in Seq(Lines), Len(lines) = 0
  PROVE  lines = <<>>
OBVIOUS

\* Reading a line leaves of a script all but that line.
LEMMA ConsumeLeaves ==
  ASSUME TypeInv, NEW c \in Scripts, script' = [script EXCEPT ![c].lines = Tail(@)]
  PROVE  /\ script'[c].lines = Tail(script[c].lines)
         /\ \A s \in Scripts :
              /\ script'[s].pc = script[s].pc /\ script'[s].first = script[s].first
              /\ script'[s].at = script[s].at /\ script'[s].link = script[s].link
              /\ s # c => script'[s] = script[s]
<1> USE DEF TypeInv, TypeOK
<1>1. script'[c] = [script[c] EXCEPT !.lines = Tail(@)]
  OBVIOUS
<1>2. \A s \in Scripts : s # c => script'[s] = script[s]
  OBVIOUS
<1>3. /\ script'[c].lines = Tail(script[c].lines) /\ script'[c].pc = script[c].pc
      /\ script'[c].first = script[c].first /\ script'[c].at = script[c].at
      /\ script'[c].link = script[c].link
  BY <1>1 DEF ScriptStates
<1> QED
  BY <1>2, <1>3

\* A verdict is all a task is told by it, and only the one whose sender is installed.
LEMMA ResolveTells ==
  ASSUME TypeInv, NEW g \in Goals, NEW verdict \in {"ok", "failed"}, task' = Resolve(verdict)
  PROVE  /\ task'[g].pc = task[g].pc /\ task'[g].attempt = task[g].attempt
         /\ task'[g].first = task[g].first /\ task'[g].handshake = task[g].handshake
         /\ ds.goalSender = g => task'[g].verdict # "pending"
         /\ ds.goalSender # g => task'[g].verdict = task[g].verdict
<1> USE DEF TypeInv, TypeOK
<1>1. NoGoal # g
  BY ConstantsAssumption
<1>2. CASE ds.goalSender = g
  <2>1. task'[g] = [task[g] EXCEPT !.verdict = verdict]
    BY <1>1, <1>2 DEF Resolve
  <2> QED
    BY <1>2, <2>1 DEF Tasks
<1>3. CASE ds.goalSender # g
  BY <1>3 DEF Resolve
<1> QED
  BY <1>2, <1>3

\* The greeting, and its echo, are of the goal's last script.
LEMMA GreetInOrder ==
  ASSUME ProgressInv, NEW g \in Goals, g = req.goal, Greet \/ ReadEcho
  PROVE  InOrder(g)'
<1> USE DEF ProgressInv, EarnedInv, ScriptInv, TypeInv, TypeOK
<1>o. InOrder(g)
  BY DEF RequestInOrder
<1>1. /\ ss.pc \in {"greet", "echo"} /\ ss.conn = Script(g) /\ ss.handshake = g
      /\ ds.handshakeSender = NoGoal /\ task[g].handshake = "pending"
      /\ task[g].pc = "handshake" => task[g].verdict = "pending"
  BY <1>o DEF Greet, ReadEcho, InOrder, Greeting
<1>2. Script(g) \in Scripts /\ task[g].pc \notin {"connect", "install", "upload"}
  BY <1>1, ServedIsLast
<1>3. /\ UNCHANGED <<ds, backlog, robot>> /\ ss'.conn = Script(g)
      /\ task'[g].pc = task[g].pc /\ task'[g].attempt = task[g].attempt
      /\ task'[g].first = task[g].first /\ task'[g].verdict = task[g].verdict
  <2>1. CASE Greet
    BY <1>1, <2>1 DEF Greet, SocketServers
  <2>2. CASE ReadEcho
    BY <1>1, <2>2 DEF ReadEcho, SocketServers, Tasks
  <2> QED
    BY <2>1, <2>2
<1>s. Script(g)' = Script(g)
  BY <1>3 DEF Script
<1>4. \A s \in Scripts : /\ script'[s].pc = script[s].pc /\ script'[s].first = script[s].first
                         /\ script'[s].at = script[s].at
                         /\ s # Script(g) => script'[s] = script[s]
  <2>1. CASE Greet
    BY <1>1, <2>1 DEF Greet, ScriptStates
  <2>2. CASE ReadEcho
    <3>1. script' = script \/ script' = [script EXCEPT ![Script(g)].lines = Tail(@)]
      BY <1>1, <2>2 DEF ReadEcho, Consume
    <3> QED
      BY <1>2, <3>1, ConsumeLeaves
  <2> QED
    BY <2>1, <2>2
<1>5. script'[Script(g)].link = "greeted"
  <2>1. CASE Greet
    BY <1>1, <1>2, <2>1 DEF Greet, ScriptStates
  <2>2. CASE ReadEcho
    <3>1. script[Script(g)].link = "greeted"
      BY <1>1, <2>2 DEF ReadEcho, Spoken
    <3> QED
      BY <1>1, <1>2, <2>2, <3>1 DEF ReadEcho, Consume, ScriptStates
  <2> QED
    BY <2>1, <2>2
<1>6. \A i \in 1 .. Len(backlog) : FALSE
  BY <1>o, <1>1 DEF InOrder, LastAtWork, Spoken
<1>7. LastAtWork(g)'
  BY <1>o, <1>3, <1>6, <1>s DEF InOrder, LastAtWork
<1>8. Greeting(g)'
  <2>1. CASE Greet
    <3>1. ss'.pc = "echo" /\ ss'.handshake = g /\ UNCHANGED task
      BY <1>1, <2>1 DEF Greet, SocketServers
    <3> QED
      BY <1>1, <1>2, <1>3, <1>s, <3>1 DEF Greeting
  <2>2. CASE ReadEcho
    <3>1. ss'.pc = "read" /\ task'[g].handshake # "pending"
      BY <1>1, <2>2 DEF ReadEcho, SocketServers, Tasks
    <3> QED
      BY <1>1, <1>2, <1>3, <3>1 DEF Greeting
  <2> QED
    BY <2>1, <2>2
<1>9. OldReadOut(g)'
  <2>1. ASSUME NEW b \in 1 .. MaxAttempts, b < task[g].attempt
        PROVE  script'[<<g, b>>] = script[<<g, b>>]
    BY <1>4, <2>1 DEF Scripts, Script
  <2> QED
    BY <1>o, <1>3, <2>1 DEF InOrder, OldReadOut, ReadOut, Ended
<1>10. Judged(g)'
  <2>1. task[g].pc \in WaitsOnScript => task[g].pc = "handshake"
    BY <1>o, <1>1 DEF InOrder, Judged
  <2> QED
    BY <1>o, <1>1, <1>2, <1>3, <1>5, <1>s, <2>1 DEF InOrder, Judged, WaitsOnScript
<1>11. Counted(g)'
  BY <1>o, <1>2, <1>3, <1>4, <1>s DEF InOrder, Counted
<1> QED
  BY <1>7, <1>8, <1>9, <1>10, <1>11 DEF InOrder

\* A line that is read is the last script's, and its verdict is its last line.
LEMMA LineInOrder ==
  ASSUME ProgressInv, NEW g \in Goals, g = req.goal, ReadLine
  PROVE  InOrder(g)'
<1> USE DEF ProgressInv, EarnedInv, ScriptInv, TypeInv, TypeOK
<1>o. InOrder(g)
  BY DEF RequestInOrder
<1>1. /\ ss.pc = "read" /\ script[ss.conn].lines # <<>>
      /\ script' = [script EXCEPT ![ss.conn].lines = Tail(@)]
      /\ UNCHANGED <<ss, backlog, robot>>
  BY DEF ReadLine, Received, Consume
<1>2. /\ ss.conn = Script(g) /\ Script(g) \in Scripts
      /\ task[g].pc \notin {"connect", "install", "upload"}
      /\ task[g].handshake # "pending" /\ script[Script(g)].link = "greeted"
  <2>1. ss.conn = Script(g)
    BY <1>1, ServedIsLast DEF ReadOut
  <2> QED
    BY <1>o, <1>1, <2>1, ServedIsLast DEF InOrder, Greeting, Spoken
<1> DEFINE S == script[Script(g)]
           line == Head(S.lines)
<1>3. /\ S.lines \in Seq(Lines) /\ Len(S.lines) > 0 /\ 1 \in 1 .. Len(S.lines)
      /\ line = S.lines[1] /\ line \in Lines
      /\ Len(S.lines) = 1 => Tail(S.lines) = <<>>
  <2>1. /\ S.lines \in Seq(Lines) /\ Len(S.lines) > 0 /\ 1 \in 1 .. Len(S.lines)
        /\ line = S.lines[1] /\ line \in Lines
    BY <1>1, <1>2 DEF ScriptStates
  <2> DEFINE rest == Tail(S.lines)
  <2>2. rest \in Seq(Lines) /\ Len(rest) = Len(S.lines) - 1
    BY <2>1
  <2> HIDE DEF rest
  <2>3. Len(S.lines) = 1 => rest = <<>>
    <3>1. Len(S.lines) = 1 => Len(rest) = 0
      BY <2>2
    <3> QED
      BY ONLY <2>2, <3>1, NothingLeft
  <2> QED
    BY <2>1, <2>3 DEF rest
<1>4. /\ script'[Script(g)].lines = Tail(S.lines)
      /\ \A s \in Scripts :
           /\ script'[s].pc = script[s].pc /\ script'[s].first = script[s].first
           /\ script'[s].at = script[s].at /\ script'[s].link = script[s].link
           /\ s # Script(g) => script'[s] = script[s]
  BY <1>1, <1>2, ConsumeLeaves
<1>5. /\ task'[g].pc = task[g].pc /\ task'[g].attempt = task[g].attempt
      /\ task'[g].first = task[g].first /\ task'[g].handshake = task[g].handshake
      /\ ds'.handshakeSender = ds.handshakeSender
      /\ \/ /\ line.kind \in {"ok", "error"}
            /\ ds'.waypointsCompleted = ds.waypointsCompleted
            /\ ds.goalSender = g => task'[g].verdict # "pending"
            /\ ds.goalSender # g => task'[g].verdict = task[g].verdict
         \/ /\ line.kind = "waypoint" /\ ds'.waypointsCompleted = line.n + 1
            /\ ds'.goalSender = ds.goalSender /\ task' = task
  <2>1. CASE line.kind \in {"ok", "error"} /\ task' = Resolve(VerdictOf(line))
             /\ ds' = [ds EXCEPT !.goalSender = NoGoal]
    <3>1. VerdictOf(line) \in {"ok", "failed"}
      BY DEF VerdictOf
    <3>2. /\ ds'.handshakeSender = ds.handshakeSender
          /\ ds'.waypointsCompleted = ds.waypointsCompleted
      BY <2>1 DEF DriverStates
    <3> HIDE DEF line
    <3> QED
      BY <2>1, <3>1, <3>2, ResolveTells
  <2>2. CASE line.kind = "waypoint" /\ ds' = [ds EXCEPT !.waypointsCompleted = line.n + 1]
             /\ UNCHANGED task
    BY <2>2 DEF DriverStates
  <2> QED
    BY <1>2, <2>1, <2>2 DEF ReadLine
<1>6. line.kind \in {"ok", "error"} => Ended(Script(g)) /\ Tail(S.lines) = <<>>
  <2>1. line.kind \in {"ok", "error"} => Len(S.lines) = 1
    BY <1>2, <1>3 DEF Spoken
  <2>2. line.kind \in {"ok", "error"} => Ended(Script(g))
    BY <1>2, <1>3 DEF LinesTell, Ended
  <2> QED
    BY <1>3, <2>1, <2>2
<1>7. line.kind = "waypoint" => line.n + 1 <= S.at
  <2>1. line.n \in Nat /\ S.at \in Nat
    BY <1>2, <1>3 DEF Lines, ScriptStates
  <2>2. line.kind = "waypoint" => line.n < S.at
    BY <1>2, <1>3 DEF Spoken
  <2> QED
    BY <2>1, <2>2
<1>s. Script(g)' = Script(g)
  BY <1>5 DEF Script
<1>p. S.lines # <<>>
  BY <1>1, <1>2
<1> HIDE DEF line
<1>8. LastAtWork(g)'
  BY <1>o, <1>1, <1>2, <1>4, <1>s DEF InOrder, LastAtWork
<1>9. Greeting(g)'
  BY <1>o, <1>1, <1>2, <1>5 DEF InOrder, Greeting
<1>10. OldReadOut(g)'
  <2>1. ASSUME NEW b \in 1 .. MaxAttempts, b < task[g].attempt
        PROVE  script'[<<g, b>>] = script[<<g, b>>]
    BY <1>4, <2>1 DEF Scripts, Script
  <2> QED
    BY <1>o, <1>5, <2>1 DEF InOrder, OldReadOut, ReadOut, Ended
<1>11. Judged(g)'
  <2>1. task[g].pc \in WaitsOnScript /\ task[g].handshake = "yes" => task[g].verdict = "pending"
    BY <1>o, <1>p DEF InOrder, Judged, ReadOut
  <2>2. task[g].pc \in WaitsOnScript /\ task[g].verdict = "pending" => ds.goalSender = g
    BY <1>o DEF InOrder, Judged
  <2>3. Ended(Script(g))' <=> Ended(Script(g))
    BY <1>2, <1>4, <1>s DEF Ended
  <2>4. task'[g].pc \in {"upload"} \union WaitsOnScript /\ task'[g].verdict = "pending" =>
          ds'.goalSender = g
    BY <1>2, <1>5, <2>2
  <2>5. task'[g].pc \in WaitsOnScript /\ task'[g].handshake = "yes" /\ task'[g].verdict # "pending"
          => ReadOut(Script(g))'
    BY <1>4, <1>5, <1>6, <1>s, <2>1, <2>3 DEF ReadOut
  <2>6. /\ task'[g].handshake # "pending"
        /\ script'[Script(g)'].link = "greeted" /\ ss'.conn = Script(g)'
    BY <1>1, <1>2, <1>4, <1>5, <1>s
  <2>7. /\ task'[g].pc \in WaitsOnScript \ {"handshake"} => task'[g].handshake = "yes"
        /\ task'[g].pc = "drain" => Ended(Script(g))'
    BY <1>o, <1>5, <2>3 DEF InOrder, Judged
  <2> QED
    BY <2>4, <2>5, <2>6, <2>7 DEF Judged
<1>12. Counted(g)'
  <2>1. ds'.waypointsCompleted = ds.waypointsCompleted \/ ds'.waypointsCompleted <= S.at
    BY <1>5, <1>7
  <2> QED
    BY <1>o, <1>2, <1>4, <1>5, <1>s, <2>1 DEF InOrder, Counted
<1> QED
  BY <1>8, <1>9, <1>10, <1>11, <1>12 DEF InOrder

\* A connection that closes was read to its end.
LEMMA CloseInOrder ==
  ASSUME ProgressInv, NEW g \in Goals, g = req.goal, ReadClose
  PROVE  InOrder(g)'
<1> USE DEF ProgressInv, EarnedInv, ScriptInv, TypeInv, TypeOK
<1>o. InOrder(g)
  BY DEF RequestInOrder
<1>1. /\ ss.pc = "read" /\ ReadOut(ss.conn) /\ ss'.pc = "accept"
      /\ UNCHANGED <<script, backlog, robot>>
  BY DEF ReadClose, Closed, ReadOut, NewSocketServer
<1>2. /\ task'[g].pc = task[g].pc /\ task'[g].attempt = task[g].attempt
      /\ task'[g].first = task[g].first /\ task'[g].handshake = task[g].handshake
      /\ ds.goalSender = g => task'[g].verdict # "pending"
      /\ ds.goalSender # g => task'[g].verdict = task[g].verdict
      /\ ds'.handshakeSender = ds.handshakeSender /\ ds'.goalId = NoGoal
      /\ ds'.waypointsCompleted = ds.waypointsCompleted
  <2>1. /\ ds'.handshakeSender = ds.handshakeSender /\ ds'.goalId = NoGoal
        /\ ds'.waypointsCompleted = ds.waypointsCompleted
    BY DEF ReadClose, AfterClose, DriverStates
  <2>2. task' = Resolve("failed")
    BY DEF ReadClose
  <2> QED
    BY <2>1, <2>2, ResolveTells
<1>s. Script(g)' = Script(g)
  BY <1>2 DEF Script
<1>3. LastAtWork(g)'
  BY <1>o, <1>1, <1>s DEF InOrder, LastAtWork
<1>4. Greeting(g)'
  BY <1>o, <1>1, <1>2 DEF InOrder, Greeting
<1>5. OldReadOut(g)'
  BY <1>o, <1>1, <1>2 DEF InOrder, OldReadOut, ReadOut, Ended
<1>6. Judged(g)'
  <2>1. task[g].pc \in WaitsOnScript /\ task[g].handshake = "yes" =>
          script[Script(g)].link = "greeted" /\ ReadOut(Script(g))
    BY <1>o, <1>1 DEF InOrder, Judged
  <2>2. task[g].pc \in {"upload"} \union WaitsOnScript /\ task[g].verdict = "pending" =>
          ds.goalSender = g
    BY <1>o DEF InOrder, Judged
  <2>3. /\ task[g].pc \in WaitsOnScript \ {"handshake"} => task[g].handshake = "yes"
        /\ task[g].pc = "drain" => Ended(Script(g))
    BY <1>o DEF InOrder, Judged
  <2>4. (Ended(Script(g))' <=> Ended(Script(g))) /\ (ReadOut(Script(g))' <=> ReadOut(Script(g)))
    BY <1>1, <1>s DEF Ended, ReadOut
  <2> QED
    BY <1>1, <1>2, <1>s, <2>1, <2>2, <2>3, <2>4 DEF Judged
<1>7. Counted(g)'
  BY <1>o, <1>1, <1>2, <1>s DEF InOrder, Counted
<1> QED
  BY <1>3, <1>4, <1>5, <1>6, <1>7 DEF InOrder

\* The program that runs, and a stop of it, take nothing back, and touch no script that
\* has ended.
LEMMA ProgramGoesOn ==
  ASSUME TypeInv, ControllerNext \/ ServeStop
  PROVE  /\ UNCHANGED <<ds, ss>> /\ robot'.prog \in {robot.prog, NoScript}
         /\ \A g \in Goals : UNCHANGED Seat(g)
         /\ \A s \in Scripts :
              /\ script'[s].first = script[s].first
              /\ script[s].at <= script'[s].at
              /\ Ended(s) => Ended(s)' /\ script'[s].lines = script[s].lines
         /\ \/ backlog' = backlog /\ \A s \in Scripts : script'[s].link = script[s].link
            \/ \E s \in Scripts : Dial(s)
<1> USE DEF TypeInv, TypeOK
<1>n. \A s \in Scripts : script[s].at \in Nat
  BY DEF ScriptStates
<1>1. ASSUME script' = Killed(script, robot.prog), NEW s \in Scripts
      PROVE  /\ script'[s].first = script[s].first /\ script'[s].at = script[s].at
             /\ script'[s].lines = script[s].lines /\ script'[s].link = script[s].link
             /\ Ended(s) => Ended(s)'
  <2>1. script'[s] = script[s] \/ script'[s] = [script[s] EXCEPT !.pc = "killed"]
    BY <1>1 DEF Killed
  <2> QED
    BY <2>1 DEF Ended, ScriptStates
<1>2. CASE KillProgram
  <2>1. /\ script' = Killed(script, robot.prog) /\ robot'.prog = NoScript
        /\ UNCHANGED <<ds, ss, task, backlog>>
    BY <1>2 DEF KillProgram, Stopped
  <2> QED
    BY <1>1, <1>n, <2>1 DEF Seat
<1>3. CASE ServeStop
  <2>1. /\ script' = Killed(script, robot.prog) \/ script' = script
        /\ robot'.prog \in {robot.prog, NoScript}
        /\ UNCHANGED <<ds, ss, backlog>>
    BY <1>3 DEF ServeStop
  <2>2. \A g \in Goals : UNCHANGED Seat(g)
    <3>1. Head(dash.stops) \in Goals
      BY <1>3 DEF ServeStop, Dashboards
    <3>2. \/ task' = task \/ task' = [task EXCEPT ![Head(dash.stops)].stop = "ok"]
          \/ task' = [task EXCEPT ![Head(dash.stops)].stop = "failed"]
      BY <1>3 DEF ServeStop, Reply
    <3>3. ASSUME NEW g \in Goals PROVE UNCHANGED Seat(g)
      <4>1. \/ task'[g] = task[g] \/ task'[g] = [task[g] EXCEPT !.stop = "ok"]
            \/ task'[g] = [task[g] EXCEPT !.stop = "failed"]
        BY <3>1, <3>2
      <4> QED
        BY <4>1 DEF Seat, Tasks
    <3> QED
      BY <3>3
  <2>3. CASE script' = script
    BY <1>n, <2>1, <2>2, <2>3 DEF Ended
  <2> QED
    BY <1>1, <1>n, <2>1, <2>2, <2>3
<1>4. ASSUME NEW t \in Scripts,
             Dial(t) \/ Echo(t) \/ GiveUp(t) \/ ReachWaypoint(t) \/ FinishMove(t)
      PROVE  /\ UNCHANGED <<ds, ss, task>> /\ robot'.prog \in {robot.prog, NoScript}
             /\ \A s \in Scripts :
                  /\ script'[s].first = script[s].first
                  /\ script[s].at <= script'[s].at
                  /\ Ended(s) => Ended(s)' /\ script'[s].lines = script[s].lines
             /\ \/ backlog' = backlog /\ \A s \in Scripts : script'[s].link = script[s].link
                \/ Dial(t)
  <2>1. /\ UNCHANGED <<ds, ss, task>> /\ robot'.prog \in {robot.prog, NoScript}
        /\ backlog' = backlog \/ Dial(t)
    BY <1>4 DEF Dial, Echo, GiveUp, ReachWaypoint, FinishMove, Stopped
  <2>2. \A s \in Scripts : s # t => script'[s] = script[s]
    BY <1>4 DEF Dial, Echo, GiveUp, ReachWaypoint, FinishMove, Send
  <2>3. ~ Ended(t)
    BY <1>4 DEF Dial, Echo, GiveUp, ReachWaypoint, FinishMove, Ended
  <2>4. /\ script'[t].first = script[t].first
        /\ script[t].at <= script'[t].at
        /\ script'[t].link = script[t].link \/ Dial(t)
    <3>1. CASE Dial(t)
      <4>1. script'[t] = [script[t] EXCEPT !.pc = "dialed", !.link = "queued"]
        BY <3>1 DEF Dial
      <4> QED
        BY <1>n, <3>1, <4>1 DEF ScriptStates
    <3>5. CASE GiveUp(t)
      <4>1. script'[t] = [script[t] EXCEPT !.pc = "killed"]
        BY <3>5 DEF GiveUp
      <4> QED
        BY <1>n, <4>1 DEF ScriptStates
    <3>2. CASE Echo(t)
      BY <1>n, <3>2 DEF Echo, Send, ScriptStates
    <3>3. CASE ReachWaypoint(t)
      <4>1. script'[t] = [script[t] EXCEPT !.at = @ + 1,
                                          !.lines = Append(@, Line("waypoint", script[t].at))]
        BY <3>3 DEF ReachWaypoint
      <4> QED
        BY <1>n, <4>1 DEF ScriptStates
    <3>4. CASE FinishMove(t)
      <4>1. \/ script'[t] = [script[t] EXCEPT !.pc = "done", !.lines = Append(@, Line("ok", 0))]
            \/ script'[t] = [script[t] EXCEPT !.pc = "failed",
                                              !.lines = Append(@, Line("error", 0))]
        BY <3>4 DEF FinishMove, Send
      <4>2. /\ script'[t].first = script[t].first /\ script'[t].at = script[t].at
            /\ script'[t].link = script[t].link
        BY <4>1 DEF ScriptStates
      <4> QED
        BY <1>n, <4>2
    <3> QED
      BY <1>4, <3>1, <3>2, <3>3, <3>4, <3>5
  <2> QED
    BY <1>n, <2>1, <2>2, <2>3, <2>4 DEF Ended
<1> QED
  BY <1>2, <1>3, <1>4 DEF ControllerNext, Seat

\* What the goal's last script does, and what is done to it, leaves all in order.
LEMMA ProgramInOrder ==
  ASSUME ProgressInv, NEW g \in Goals, g = req.goal, ControllerNext \/ ServeStop
  PROVE  InOrder(g)'
<1> USE DEF ProgressInv, EarnedInv, ScriptInv, TypeInv, TypeOK
<1>o. InOrder(g)
  BY DEF RequestInOrder
<1>1. /\ UNCHANGED <<ds, ss>> /\ robot'.prog \in {robot.prog, NoScript}
      /\ task'[g].pc = task[g].pc /\ task'[g].attempt = task[g].attempt
      /\ task'[g].first = task[g].first /\ task'[g].verdict = task[g].verdict
      /\ task'[g].handshake = task[g].handshake
  BY ProgramGoesOn DEF Seat
<1>2. \A s \in Scripts : /\ script'[s].first = script[s].first
                         /\ script[s].at <= script'[s].at
                         /\ Ended(s) => Ended(s)' /\ script'[s].lines = script[s].lines
  BY ProgramGoesOn
<1>n. NoScript \notin Scripts
  BY ConstantsAssumption DEF NoScript, Scripts
<1>s. Script(g)' = Script(g) /\ Script(g) \in Scripts
  BY <1>1, ScriptType DEF Script
<1>3. LastAtWork(g)' /\ (script'[Script(g)].link = script[Script(g)].link
                         \/ script[Script(g)].link = "none")
  <2>1. CASE backlog' = backlog /\ \A s \in Scripts : script'[s].link = script[s].link
    BY <1>o, <1>1, <1>n, <1>s, <2>1 DEF InOrder, LastAtWork
  <2>2. ASSUME NEW t \in Scripts, Dial(t)
        PROVE  LastAtWork(g)' /\ (script'[Script(g)].link = script[Script(g)].link
                                  \/ script[Script(g)].link = "none")
    <3>1. /\ t = Script(g) /\ script[t].link = "none" /\ robot' = robot
          /\ script'[t].link = "queued" /\ backlog' = Append(backlog, t)
      BY <1>o, <2>2 DEF Dial, Running, InOrder, LastAtWork, Spoken, ScriptStates
    <3>2. Len(backlog) = 0
      <4>1. \A i \in 1 .. Len(backlog) : FALSE
        BY <1>o, <3>1 DEF InOrder, LastAtWork
      <4>2. Len(backlog) \in Nat
        OBVIOUS
      <4> QED
        BY <4>1, <4>2
    <3>3. Len(backlog') = 1 /\ backlog'[1] = t
      BY <3>1, <3>2
    <3> QED
      BY <1>o, <1>s, <3>1, <3>3 DEF InOrder, LastAtWork
  <2> QED
    BY <2>1, <2>2, ProgramGoesOn
<1>4. Greeting(g)'
  BY <1>o, <1>1, <1>s DEF InOrder, Greeting
<1>5. OldReadOut(g)'
  BY <1>o, <1>1, <1>2 DEF InOrder, OldReadOut, ReadOut, Scripts
<1>6. Judged(g)'
  <2>1. /\ Ended(Script(g)) => Ended(Script(g))'
        /\ ReadOut(Script(g)) => ReadOut(Script(g))'
    BY <1>2, <1>s DEF Ended, ReadOut
  <2> QED
    BY <1>o, <1>1, <1>3, <1>s, <2>1 DEF InOrder, Judged
<1>7. Counted(g)'
  <2>1. ds.waypointsCompleted \in Nat /\ task[g].first \in Nat
    BY DEF DriverStates, Tasks
  <2>2. \A s \in Scripts : /\ script[s].first \in Nat /\ script[s].at \in Nat
                           /\ script'[s].at \in Int
    <3>1. ASSUME NEW s \in Scripts PROVE script'[s].at \in Int
      BY NextTypeInv DEF Next, DashboardNext, ScriptStates
    <3> QED
      BY <3>1 DEF ScriptStates
  <2>3. \A b \in 1 .. MaxAttempts : <<g, b>> \in Scripts
    BY DEF Scripts
  <2>4. /\ task[g].pc \in WaitsOnScript => ds.waypointsCompleted <= script'[Script(g)].at
        /\ task[g].pc \in {"claim", "reissue", "drain"} =>
             task[g].first <= script'[Script(g)].first + script'[Script(g)].at
    BY <1>o, <1>2, <1>s, <2>1, <2>2 DEF InOrder, Counted
  <2>5. ASSUME NEW b \in 1 .. MaxAttempts, task[g].pc \in {"connect", "install", "upload"},
               task[g].attempt = b + 1
        PROVE  task[g].first <= script'[<<g, b>>].first + script'[<<g, b>>].at
    <3>1. task[g].first <= script[<<g, b>>].first + script[<<g, b>>].at
      BY <1>o, <2>5 DEF InOrder, Counted
    <3> QED
      BY <1>2, <2>1, <2>2, <2>3, <3>1
  <2> QED
    BY <1>o, <1>1, <1>2, <1>s, <2>4, <2>5 DEF InOrder, Counted
<1> QED
  BY <1>3, <1>4, <1>5, <1>6, <1>7 DEF InOrder

\* The next request finds nothing of the last at work.
LEMMA SubmitInOrder ==
  ASSUME ProgressInv, Orderly, NEW g \in Goals, ClientSubmit(g)
  PROVE  InOrder(g)'
<1> USE DEF ProgressInv, EarnedInv, ScriptInv, TypeInv, TypeOK
<1>1. /\ Settled /\ g \notin client.submitted
      /\ UNCHANGED <<ds, task, ss, script, backlog, robot>>
  BY DEF ClientSubmit, MaySubmit, Orderly
<1>2. task[g].pc = "absent" /\ task[g].attempt = 1
  BY <1>1 DEF OneTrigger, NotYetSubmitted, SettledInv, Alone, FirstAttempt
<1>3. ss.pc = "accept" /\ Len(backlog) = 0
  BY <1>1 DEF Settled
<1>4. robot.prog \notin Scripts
  BY <1>1 DEF Settled, Ended, SentInv, OneProgram, AtWork
<1>5. ds.handshakeSender = NoGoal
  BY <1>1, SenderIsInHand DEF Settled, SettledInv, GuardIsOwned, DriverStates, OptGoal
<1>6. LastAtWork(g)'
  BY <1>1, <1>3, <1>4 DEF LastAtWork
<1>7. Greeting(g)'
  BY <1>1, <1>2, <1>3, <1>5 DEF Greeting
<1>8. OldReadOut(g)'
  BY <1>1, <1>2 DEF OldReadOut
<1>9. Judged(g)' /\ Counted(g)'
  BY <1>1, <1>2 DEF Judged, Counted, WaitsOnScript
<1> QED
  BY <1>6, <1>7, <1>8, <1>9 DEF InOrder

\* A goal is spawned for its first attempt, with nothing counted.
LEMMA SpawnInOrder ==
  ASSUME ProgressInv, NEW g \in Goals, g = req.goal, SpawnGoal
  PROVE  InOrder(g)'
<1> USE DEF ProgressInv, EarnedInv, ScriptInv, TypeInv, TypeOK
<1>o. InOrder(g)
  BY DEF RequestInOrder
<1>1. /\ UNCHANGED <<ss, script, backlog, robot>>
      /\ ds'.handshakeSender = ds.handshakeSender /\ ds'.goalId = ds.goalId
      /\ ds'.goalSender = ds.goalSender /\ ds'.waypointsCompleted = 0
  BY DEF SpawnGoal, DriverStates
<1>2. /\ cs.goal \in Goals /\ task[cs.goal].pc = "absent" /\ task[cs.goal].attempt = 1
      /\ task' = [task EXCEPT ![cs.goal].pc = "connect"]
  BY DEF SpawnGoal, RequestNamed, OneTrigger, DecidedOnce, Deciding, SettledInv, Alone,
     FirstAttempt
<1>3. CASE cs.goal # g
  <2>1. task'[g] = task[g]
    BY <1>2, <1>3
  <2>2. cs.goal = g
    BY DEF SpawnGoal, SettledInv, PatientInv, InTurn, DecidingInTurn, Deciding
  <2> QED
    BY <1>3, <2>2
<1>4. CASE cs.goal = g
  <2>1. /\ task'[g].pc = "connect" /\ task'[g].attempt = 1
        /\ task'[g].handshake = task[g].handshake /\ task'[g].verdict = task[g].verdict
    BY <1>2, <1>4 DEF Tasks
  <2>2. task[g].pc = "absent" /\ task[g].attempt = 1
    BY <1>2, <1>4
  <2>s. Script(g)' = Script(g)
    BY <2>1, <2>2 DEF Script
  <2>3. LastAtWork(g)'
    BY <1>o, <1>1, <2>s DEF InOrder, LastAtWork
  <2>4. Greeting(g)'
    BY <1>o, <1>1, <2>1, <2>s DEF InOrder, Greeting
  <2>5. OldReadOut(g)'
    BY <2>1 DEF OldReadOut
  <2>6. Judged(g)' /\ Counted(g)'
    BY <1>1, <2>1 DEF Judged, Counted, WaitsOnScript
  <2> QED
    BY <2>3, <2>4, <2>5, <2>6 DEF InOrder
<1> QED
  BY <1>3, <1>4

\* The driver that comes up again knows of nothing it left behind.
LEMMA RestartInOrder ==
  ASSUME ProgressInv, NEW g \in Goals, g = req.goal, Restart
  PROVE  InOrder(g)'
<1> USE DEF ProgressInv, EarnedInv, ScriptInv, TypeInv, TypeOK
<1>o. InOrder(g)
  BY DEF RequestInOrder
<1>1. /\ ss'.pc = "accept" /\ backlog' = <<>> /\ robot' = robot
      /\ ds'.handshakeSender = NoGoal
      /\ task'[g].pc \in {"absent", "gone"} /\ task'[g].attempt = task[g].attempt
  BY DEF Restart, NewSocketServer, NewDriverState, Live, Tasks
<1>2. \A s \in Scripts : script'[s].pc = script[s].pc /\ script'[s].lines = script[s].lines
  BY DEF Restart, ScriptStates
<1>s. Script(g)' = Script(g)
  BY <1>1 DEF Script
<1>3. LastAtWork(g)'
  BY <1>o, <1>1, <1>s DEF InOrder, LastAtWork
<1>4. Greeting(g)'
  BY <1>1 DEF Greeting
<1>5. OldReadOut(g)'
  BY <1>o, <1>1, <1>2 DEF InOrder, OldReadOut, ReadOut, Ended, Scripts
<1>6. Judged(g)' /\ Counted(g)'
  BY <1>1 DEF Judged, Counted, WaitsOnScript
<1> QED
  BY <1>3, <1>4, <1>5, <1>6 DEF InOrder

\* The rest is beside the goal's scripts: the request keys, the realtime stream while no
\* mode aborts a goal, and the operator.
LEMMA AsideInOrder ==
  ASSUME ProgressInv, Orderly, NEW g \in Goals, g = req.goal,
         \/ ClientCancel \/ (CommandServerNext /\ ~ SpawnGoal)
         \/ RealtimeReaderNext \/ (DashboardNext /\ ~ ServeStop)
  PROVE  InOrder(g)'
<1> USE DEF ProgressInv, EarnedInv, ScriptInv, TypeInv, TypeOK
<1>o. InOrder(g)
  BY DEF RequestInOrder
<1>1. UNCHANGED <<script, ss, backlog>> /\ robot'.prog = robot.prog
  <2>1. CASE ClientCancel \/ (CommandServerNext /\ ~ SpawnGoal) \/ RealtimeReaderNext
    BY <2>1 DEF ClientCancel, CommandServerNext, ReadRequestKeys, DeliverCancel, ConsumeTrigger,
       Admit, Reject, WriteExecuting, RealtimeReaderNext, ConnectRealtime, LoseRealtime, ReadFrame
  <2>2. CASE Pause \/ Resume
    BY <2>2 DEF Pause, Resume
  <2>3. CASE LatchPause \/ LosePause
    BY <2>3 DEF LatchPause, LosePause, HoldOutcomes, Robots
  <2>4. CASE PlayResumes \/ PlayFallsBack \/ LosePlay
    BY <2>4 DEF PlayResumes, PlayFallsBack, LosePlay, Robots
  <2> QED
    BY <2>1, <2>2, <2>3, <2>4 DEF DashboardNext
<1>2. UNCHANGED Wiring
  <2>1. CASE ClientCancel \/ (CommandServerNext /\ ~ SpawnGoal)
    BY <2>1 DEF ClientCancel, CommandServerNext, ReadRequestKeys, DeliverCancel, ConsumeTrigger,
       Admit, Reject, WriteExecuting, Wiring, DriverStates
  <2>2. CASE RealtimeReaderNext
    BY <2>2 DEF RealtimeReaderNext, ConnectRealtime, LoseRealtime, ReadFrame, AfterFrame,
       Orderly, Wiring, DriverStates
  <2>3. CASE DashboardNext /\ ~ ServeStop
    BY <2>3 DEF DashboardNext, Pause, LatchPause, LosePause, Resume, PlayResumes,
       PlayFallsBack, LosePlay, LatchCleared, Wiring, DriverStates
  <2> QED
    BY <2>1, <2>2, <2>3
<1>3. UNCHANGED Seat(g)
  <2>1. CASE task' = task
    BY <2>1 DEF Seat
  <2>2. CASE \/ \E h \in Goals : task' = [task EXCEPT ![h].cancel = TRUE]
             \/ \E h \in Goals : task' = [task EXCEPT ![h].resume = TRUE]
             \/ \E h \in Goals : task' = [task EXCEPT ![h].answer = "failed"]
    <3>1. \/ task'[g] = task[g] \/ task'[g] = [task[g] EXCEPT !.cancel = TRUE]
          \/ task'[g] = [task[g] EXCEPT !.resume = TRUE]
          \/ task'[g] = [task[g] EXCEPT !.answer = "failed"]
      BY <2>2
    <3> QED
      BY <3>1 DEF Seat, Tasks
  <2>3. CASE DeliverCancel
    BY <2>1, <2>2, <2>3 DEF DeliverCancel, DriverStates, OptGoal
  <2>4. CASE Reject
    BY <2>2, <2>4 DEF Reject, RequestNamed
  <2>5. CASE PlayFallsBack
    BY <2>1, <2>2, <2>5 DEF PlayFallsBack, Dashboards, OptGoal
  <2>6. CASE ClientCancel \/ (CommandServerNext /\ ~ SpawnGoal /\ ~ DeliverCancel /\ ~ Reject)
             \/ RealtimeReaderNext \/ (DashboardNext /\ ~ ServeStop /\ ~ PlayFallsBack)
    BY <2>1, <2>6 DEF ClientCancel, CommandServerNext, ReadRequestKeys, ConsumeTrigger,
       Admit, WriteExecuting, RealtimeReaderNext, ConnectRealtime, LoseRealtime, ReadFrame,
       Orderly, DashboardNext, Pause, LatchPause, LosePause, Resume, PlayResumes, LosePlay
  <2> QED
    BY <2>3, <2>4, <2>5, <2>6
<1> QED
  BY <1>o, <1>1, <1>2, <1>3, StillInOrder

\* Whatever happens next, the scripts of the request in hand stay in order.
LEMMA NextInOrder ==
  ASSUME ProgressInv, Orderly, Next
  PROVE  RequestInOrder'
<1> SUFFICES ASSUME NEW g \in Goals, g = req'.goal PROVE InOrder(g)'
  BY DEF RequestInOrder
<1> USE DEF ProgressInv, EarnedInv, ScriptInv, TypeInv, TypeOK
<1>1. CASE \E h \in Goals : ClientSubmit(h)
  <2>1. PICK h \in Goals : ClientSubmit(h)
    BY <1>1
  <2>2. h = g
    BY <2>1 DEF ClientSubmit, Requests
  <2> QED
    BY <2>1, <2>2, SubmitInOrder
<1>2. CASE \A h \in Goals : ~ ClientSubmit(h)
  <2>g. g = req.goal
    BY <1>2, RequestStays
  <2>1. CASE ClientCancel \/ CommandServerNext \/ RealtimeReaderNext \/ DashboardNext
    BY <2>1, <2>g, AsideInOrder, SpawnInOrder, ProgramInOrder
  <2>2. CASE SocketServerNext
    BY <2>2, <2>g, AcceptInOrder, GreetInOrder, LineInOrder, CloseInOrder DEF SocketServerNext
  <2>3. CASE ControllerNext \/ Restart
    BY <2>3, <2>g, ProgramInOrder, RestartInOrder
  <2>4. ASSUME NEW h \in Goals, HandleRequestNext(h) PROVE InOrder(g)'
    <3>1. Live(h)
      BY <2>4 DEF Live, HandleRequestNext, Connect, InstallGoal, Upload, UploadFails,
         HandshakeAnswered, HandshakeTimeout, RunningVerdict, CancelGoal, StopAnswered,
         StoppingVerdict, ResumeGoal, ClaimReissue, ReissueStopped, NextAttempt, Publish, Teardown
    <3>2. h = g
      BY <2>g, <3>1 DEF SettledInv, Alone, AliveInTurn
    <3> QED
      BY <2>4, <2>g, <3>2, TaskInOrder
  <2> QED
    BY <1>2, <2>1, <2>2, <2>3, <2>4 DEF Next
<1> QED
  BY <1>1, <1>2

\* Where a script starts in the list is settled with its upload, and it never goes back.
LEMMA FirstStays ==
  ASSUME TypeInv, Next, \A g \in Goals : ~ Upload(g)
  PROVE  \A s \in Scripts : script'[s].first = script[s].first /\ script[s].at <= script'[s].at
<1> USE DEF TypeInv, TypeOK
<1>n. \A s \in Scripts : script[s].at \in Nat
  BY DEF ScriptStates
<1>1. CASE UNCHANGED script
  BY <1>1, <1>n
<1>2. CASE ControllerNext \/ ServeStop
  BY <1>2, ProgramGoesOn
<1>3. CASE Restart
  BY <1>3, <1>n DEF Restart, ScriptStates
<1>4. CASE SocketServerNext
  <2>1. CASE Accept
    <3>1. \/ script' = [script EXCEPT ![Head(backlog)].link = "accepted"]
          \/ script' = [script EXCEPT ![Head(backlog)].link = "dropped"]
      BY <2>1 DEF Accept
    <3>2. ASSUME NEW s \in Scripts
          PROVE  script'[s].first = script[s].first /\ script'[s].at = script[s].at
      <4>1. \/ script'[s] = script[s] \/ script'[s] = [script[s] EXCEPT !.link = "accepted"]
            \/ script'[s] = [script[s] EXCEPT !.link = "dropped"]
        BY <3>1
      <4> QED
        BY <4>1 DEF ScriptStates
    <3> QED
      BY <1>n, <3>2
  <2>2. CASE Greet
    BY <1>n, <2>2 DEF Greet, ScriptStates
  <2>3. CASE ReadEcho \/ ReadLine \/ ReadClose
    <3>1. ss.conn \in Scripts
      BY <2>3 DEF ReadEcho, ReadLine, ReadClose, ConnectionServed
    <3>2. script' = script \/ script' = [script EXCEPT ![ss.conn].lines = Tail(@)]
      BY <2>3 DEF ReadEcho, ReadLine, ReadClose, Consume
    <3> QED
      BY <1>1, <1>n, <3>1, <3>2, ConsumeLeaves
  <2> QED
    BY <1>4, <2>1, <2>2, <2>3 DEF SocketServerNext
<1>5. UNCHANGED script \/ ControllerNext \/ ServeStop \/ Restart \/ SocketServerNext
  <2>1. CASE (\E g \in Goals : ClientSubmit(g)) \/ ClientCancel \/ CommandServerNext
             \/ RealtimeReaderNext
    BY <2>1 DEF ClientSubmit, ClientCancel, CommandServerNext, ReadRequestKeys, DeliverCancel,
       ConsumeTrigger, Admit, Reject, WriteExecuting, SpawnGoal, RealtimeReaderNext,
       ConnectRealtime, LoseRealtime, ReadFrame
  <2>2. CASE \E g \in Goals : HandleRequestNext(g)
    BY <2>2 DEF HandleRequestNext, Connect, InstallGoal, UploadFails, HandshakeAnswered,
       HandshakeTimeout, RunningVerdict, CancelGoal, StopAnswered, StoppingVerdict,
       VerdictArrives, ResumeGoal, ClaimReissue, ReissueStopped, NextAttempt, Publish, Teardown
  <2>3. CASE DashboardNext
    BY <2>3 DEF DashboardNext, Pause, LatchPause, LosePause, Resume, PlayResumes,
       PlayFallsBack, LosePlay
  <2> QED
    BY <2>1, <2>2, <2>3 DEF Next
<1> QED
  BY <1>2, <1>3, <1>4, <1>1, <1>5

\* A step that sends no script skips no waypoint; one that sends one starts it where the
\* count of the last allows.
LEMMA NextNoWaypointSkipped ==
  ASSUME ProgressInv, TypeInv', Next
  PROVE  NoWaypointSkipped'
<1> USE DEF ProgressInv, EarnedInv, ScriptInv, TypeInv, TypeOK
<1>n. \A s \in Scripts : /\ script[s].first \in Nat /\ script[s].at \in Nat
                         /\ script'[s].first \in Nat /\ script'[s].at \in Nat
  BY DEF ScriptStates
<1> SUFFICES ASSUME NEW h \in Goals, NEW a \in 2 .. MaxAttempts,
                    script'[<<h, a>>].pc # "absent"
             PROVE  script'[<<h, a>>].first <=
                      script'[<<h, a - 1>>].first + script'[<<h, a - 1>>].at
  BY DEF NoWaypointSkipped
<1>a. /\ a \in Nat /\ a - 1 \in 1 .. MaxAttempts /\ <<h, a>> \in Scripts
      /\ <<h, a - 1>> \in Scripts /\ <<h, a - 1>> # <<h, a>>
  BY ConstantsAssumption DEF Scripts
<1>1. ASSUME script[<<h, a>>].pc # "absent",
             script'[<<h, a>>].first = script[<<h, a>>].first,
             script'[<<h, a - 1>>].first = script[<<h, a - 1>>].first,
             script[<<h, a - 1>>].at <= script'[<<h, a - 1>>].at
      PROVE  script'[<<h, a>>].first <=
               script'[<<h, a - 1>>].first + script'[<<h, a - 1>>].at
  <2>1. script[<<h, a>>].first <= script[<<h, a - 1>>].first + script[<<h, a - 1>>].at
    BY <1>1 DEF NoWaypointSkipped
  <2> QED
    BY <1>1, <1>a, <1>n, <2>1
<1>2. CASE \A g \in Goals : ~ Upload(g)
  <2>1. script[<<h, a>>].pc # "absent"
    BY <1>2, <1>a, OthersGoOn DEF ScriptsGoOn
  <2> QED
    BY <1>1, <1>2, <1>a, <2>1, FirstStays
<1>3. ASSUME NEW g \in Goals, Upload(g)
      PROVE  script'[<<h, a>>].first <=
               script'[<<h, a - 1>>].first + script'[<<h, a - 1>>].at
  <2>1. ASSUME NEW s \in Scripts, s # Script(g)
        PROVE  /\ script'[s].first = script[s].first /\ script'[s].at = script[s].at
               /\ script[s].pc = "absent" => script'[s].pc = "absent"
    <3>1. /\ s # robot.prog => script'[s] = script[s]
          /\ s = robot.prog => script'[s] = [script[s] EXCEPT !.pc = "killed"]
      BY <1>3, <2>1, UploadSends
    <3>2. s = robot.prog => script[s].pc # "absent"
      BY DEF SentInv, OneProgram, AtWork
    <3> QED
      BY <3>1, <3>2 DEF ScriptStates
  <2>2. script[Script(g)].pc = "absent" /\ script'[Script(g)].first = task[g].first
    BY <1>3, UploadSends DEF NewScript
  <2>3. CASE <<h, a>> = Script(g)
    <3>1. h = g /\ task[g].attempt = (a - 1) + 1
      BY <1>a, <2>3 DEF Script
    <3>2. InOrder(g) /\ task[g].pc = "upload"
      BY <1>3 DEF Upload, Live, SettledInv, Alone, AliveInTurn, RequestInOrder
    <3>3. task[g].first <= script[<<g, a - 1>>].first + script[<<g, a - 1>>].at
      BY <1>a, <3>1, <3>2 DEF InOrder, Counted
    <3>4. /\ script'[<<h, a - 1>>].first = script[<<h, a - 1>>].first
          /\ script'[<<h, a - 1>>].at = script[<<h, a - 1>>].at
      BY <1>a, <2>1, <2>3
    <3> QED
      BY <2>2, <2>3, <3>1, <3>3, <3>4
  <2>4. CASE <<h, a>> # Script(g)
    <3>1. /\ script[<<h, a>>].pc # "absent" /\ script'[<<h, a>>].first = script[<<h, a>>].first
      BY <1>a, <2>1, <2>4
    <3>2. <<h, a - 1>> # Script(g)
      <4>1. CASE <<h, a - 1>> = Script(g)
        <5>1. Ahead(<<h, a>>)
          BY <1>a, <4>1 DEF Script, Ahead
        <5> QED
          BY <1>a, <3>1, <5>1 DEF SentInv, Unsent
      <4> QED
        BY <4>1
    <3>3. /\ script'[<<h, a - 1>>].first = script[<<h, a - 1>>].first
          /\ script[<<h, a - 1>>].at <= script'[<<h, a - 1>>].at
      BY <1>a, <1>n, <2>1, <3>2
    <3> QED
      BY <1>1, <3>1, <3>3
  <2> QED
    BY <2>3, <2>4
<1> QED
  BY <1>2, <1>3

\* Nothing was sent, counted or said at first.
LEMMA InitProgressInv == Init => ProgressInv
<1> SUFFICES ASSUME Init PROVE ProgressInv
  OBVIOUS
<1> USE DEF Init, NewScript, NewTask, NewDriverState, NewSocketServer
<1>1. Spoken
  BY DEF Spoken
<1>2. ASSUME NEW g \in Goals PROVE InOrder(g)
  <2>1. NoScript \notin Scripts
    BY ConstantsAssumption DEF NoScript, Scripts
  <2>2. LastAtWork(g)
    BY <2>1 DEF LastAtWork
  <2>3. Greeting(g) /\ OldReadOut(g)
    BY DEF Greeting, OldReadOut
  <2>4. Judged(g) /\ Counted(g)
    BY DEF Judged, Counted, WaitsOnScript
  <2> QED
    BY <2>2, <2>3, <2>4 DEF InOrder
<1>3. NoWaypointSkipped
  <2>1. \A g \in Goals : \A a \in 2 .. MaxAttempts : <<g, a>> \in Scripts
    BY ConstantsAssumption DEF Scripts
  <2> QED
    BY <2>1 DEF NoWaypointSkipped
<1> QED
  BY <1>1, <1>2, <1>3, InitEarnedInv, InitScriptInv DEF ProgressInv, RequestInOrder

\* The invariant is inductive.
LEMMA NextProgressInv ==
  ASSUME Orderly
  PROVE  ProgressInv /\ [Next]_vars => ProgressInv'
<1> SUFFICES ASSUME ProgressInv, [Next]_vars PROVE ProgressInv'
  OBVIOUS
<1>1. EarnedInv'
  BY NextEarnedInv DEF ProgressInv, Orderly
<1>2. StopKills'
  BY NextScriptInv DEF ProgressInv, EarnedInv, Orderly
<1>3. Spoken' /\ RequestInOrder' /\ NoWaypointSkipped'
  <2>1. CASE Next
    BY <1>1, <2>1, NextSpoken, NextInOrder, NextNoWaypointSkipped DEF EarnedInv, ScriptInv
  <2>2. CASE UNCHANGED vars
    <3>1. Spoken' /\ NoWaypointSkipped'
      BY <2>2 DEF vars, ProgressInv, Spoken, NoWaypointSkipped
    <3>2. RequestInOrder'
      BY <2>2, StillInOrder DEF vars, ProgressInv, RequestInOrder, Seat, Wiring
    <3> QED
      BY <3>1, <3>2
  <2> QED
    BY <2>1, <2>2
<1> QED
  BY <1>1, <1>2, <1>3 DEF ProgressInv

\* However often a trajectory is paused and re-issued, no waypoint is left out: each of
\* its scripts starts at or before the first waypoint the one before did not reach.
THEOREM NoWaypointIsSkipped ==
  ASSUME Orderly
  PROVE  Spec => []NoWaypointSkipped
<1>1. ProgressInv /\ [Next]_vars => ProgressInv'
  BY NextProgressInv
<1>2. ProgressInv => NoWaypointSkipped
  BY DEF ProgressInv
<1> QED
  BY <1>1, <1>2, InitProgressInv, PTL DEF Spec

\* A count the driver would resume from is never ahead of the script that runs.
THEOREM CountsAreReal ==
  ASSUME Orderly
  PROVE  Spec => []ProgressIsReal
<1>1. ProgressInv /\ [Next]_vars => ProgressInv'
  BY NextProgressInv
<1>2. ProgressInv => ProgressIsReal
  <2> SUFFICES ASSUME ProgressInv, NEW g \in Goals, task[g].pc = "run"
               PROVE  ds.waypointsCompleted <= script[Script(g)].at
    BY DEF ProgressIsReal
  <2>1. g = req.goal
    BY DEF Live, ProgressInv, EarnedInv, SettledInv, Alone, AliveInTurn
  <2> QED
    BY <2>1 DEF ProgressInv, RequestInOrder, InOrder, Counted, WaitsOnScript
<1> QED
  BY <1>1, <1>2, InitProgressInv, PTL DEF Spec

------------------------------------------------------------------------------
(***************************************************************************)
(* Whose verdict it is.  A script that is killed says nothing: its verdict *)
(* is its close, and after that nobody is read.  One that ends by itself   *)
(* is waited for no more once its line is read, and still has to close.    *)
(***************************************************************************)
\* A connection read on beyond the verdict is of a script that reported by a line.
Closing ==
  \A g \in Goals :
    /\ g = req.goal /\ ss.pc = "read"
    /\ ss.conn # Script(g) \/ (task[g].pc \in WaitsOnScript /\ task[g].verdict # "pending")
    => script[ss.conn].pc \in {"done", "failed"}

VerdictInv == ProgressInv /\ Closing

\* The echo is read before there is a verdict.
LEMMA EchoComesFirst ==
  ASSUME ProgressInv, ReadEcho, NEW g \in Goals, g = req.goal
  PROVE  /\ ss'.conn = Script(g)' /\ task'[g].pc = task[g].pc
         /\ task[g].pc \in WaitsOnScript => task'[g].verdict = "pending"
<1> USE DEF ProgressInv, EarnedInv, ScriptInv, TypeInv, TypeOK
<1>1. Greeting(g) /\ Judged(g)
  BY DEF RequestInOrder, InOrder
<1>2. /\ ss.conn = Script(g) /\ ss.handshake = g /\ task[g].handshake = "pending"
      /\ task[g].pc = "handshake" => task[g].verdict = "pending"
  BY <1>1 DEF ReadEcho, Greeting
<1>3. task[g].pc \in WaitsOnScript => task[g].pc = "handshake"
  BY <1>1, <1>2 DEF Judged
<1>4. /\ ss'.conn = ss.conn /\ task'[g].pc = task[g].pc
      /\ task'[g].attempt = task[g].attempt /\ task'[g].verdict = task[g].verdict
  <2>1. PICK v : task' = [task EXCEPT ![g].handshake = v]
    BY <1>2 DEF ReadEcho
  <2>2. task'[g] = [task[g] EXCEPT !.handshake = v]
    BY <2>1
  <2>3. ss'.conn = ss.conn
    BY DEF ReadEcho, SocketServers
  <2> QED
    BY <2>2, <2>3 DEF Tasks
<1> QED
  BY <1>2, <1>3, <1>4 DEF Script

\* A verdict read from a line is of a script that reported by it.
LEMMA LineReports ==
  ASSUME ProgressInv, ReadLine, NEW g \in Goals, g = req.goal
  PROVE  /\ ss.conn = Script(g) /\ UNCHANGED ss /\ Script(g)' = Script(g)
         /\ task'[g].pc = task[g].pc
         /\ \/ task'[g].verdict = task[g].verdict
            \/ script[ss.conn].pc \in {"done", "failed"}
<1> USE DEF ProgressInv, EarnedInv, ScriptInv, TypeInv, TypeOK
<1>1. /\ ss.pc = "read" /\ script[ss.conn].lines # <<>> /\ UNCHANGED ss
  BY DEF ReadLine, Received
<1>2. ss.conn = Script(g) /\ ss.conn \in Scripts
  BY <1>1, ServedIsLast DEF ReadOut
<1> DEFINE line == Head(script[ss.conn].lines)
<1>3. line = script[ss.conn].lines[1] /\ 1 \in 1 .. Len(script[ss.conn].lines)
  BY <1>1, <1>2 DEF ScriptStates
<1>4. CASE line.kind \in {"ok", "error"} /\ task' = Resolve(VerdictOf(line))
  <2>1. script[ss.conn].pc \in {"done", "failed"}
    BY <1>2, <1>3, <1>4 DEF LinesTell
  <2>2. task'[g].pc = task[g].pc /\ task'[g].attempt = task[g].attempt
    BY <1>4 DEF Resolve, Tasks
  <2> QED
    BY <1>1, <1>2, <2>1, <2>2 DEF Script
<1>5. CASE UNCHANGED task
  BY <1>1, <1>2, <1>5 DEF Script
<1> QED
  BY <1>4, <1>5 DEF ReadLine

\* A goal that goes on to its next attempt has had its verdict.
LEMMA AttemptHasVerdict ==
  ASSUME ProgressInv, Orderly, NEW g \in Goals, g = req.goal, NextAttempt(g)
  PROVE  /\ task[g].pc \in WaitsOnScript /\ task[g].verdict # "pending"
         /\ UNCHANGED ss
<1>1. Judged(g)
  BY DEF ProgressInv, RequestInOrder, InOrder
<1> QED
  BY <1>1 DEF NextAttempt, Drained, VerdictDropped, Orderly, Judged, WaitsOnScript

\* The rest of the driver reads no connection.
LEMMA OthersReadNothing ==
  ASSUME Next, ~ SocketServerNext, ~ Restart
  PROVE  UNCHANGED ss
<1>1. CASE (\E g \in Goals : ClientSubmit(g)) \/ ClientCancel \/ CommandServerNext
           \/ RealtimeReaderNext
  BY <1>1 DEF ClientSubmit, ClientCancel, CommandServerNext, ReadRequestKeys, DeliverCancel,
     ConsumeTrigger, Admit, Reject, WriteExecuting, SpawnGoal, RealtimeReaderNext,
     ConnectRealtime, LoseRealtime, ReadFrame
<1>2. CASE \E g \in Goals : HandleRequestNext(g)
  BY <1>2 DEF HandleRequestNext, Connect, InstallGoal, Upload, UploadFails, HandshakeAnswered,
     HandshakeTimeout, RunningVerdict, CancelGoal, StopAnswered, StoppingVerdict,
     VerdictArrives, ResumeGoal, ClaimReissue, ReissueStopped, NextAttempt, Publish, Teardown
<1>3. CASE DashboardNext \/ ControllerNext
  BY <1>3 DEF DashboardNext, ServeStop, Pause, LatchPause, LosePause, Resume, PlayResumes,
     PlayFallsBack, LosePlay, ControllerNext, Dial, Echo, GiveUp, ReachWaypoint, FinishMove,
     KillProgram
<1> QED
  BY <1>1, <1>2, <1>3 DEF Next

\* Nobody but the goal's own task begins its next attempt.
LEMMA AttemptStays ==
  ASSUME TypeInv, OneTrigger, Next, NEW g \in Goals, ~ NextAttempt(g)
  PROVE  task'[g].attempt = task[g].attempt
<1>1. CASE Bystander(g)
  BY <1>1 DEF Bystander
<1>2. CASE HandleRequestNext(g)
  <2>1. task[g].pc # "drain"
    BY <1>2 DEF HandleRequestNext, Connect, InstallGoal, Upload, UploadFails, HandshakeAnswered,
       HandshakeTimeout, RunningVerdict, CancelGoal, StopAnswered, StoppingVerdict,
       ResumeGoal, ClaimReissue, ReissueStopped, Publish, Teardown
  <2> QED
    BY <1>2, <2>1, TaskOutcome
<1> QED
  BY <1>1, <1>2, OwnOrBystander

\* Whoever goes on reading, what it reads on is of such a script.
LEMMA NextClosing ==
  ASSUME VerdictInv, TypeInv', Orderly, Next
  PROVE  Closing'
<1> USE DEF VerdictInv, ProgressInv, EarnedInv, ScriptInv, TypeInv, TypeOK
<1> DEFINE Beyond(g) == \/ ss.conn # Script(g)
                        \/ task[g].pc \in WaitsOnScript /\ task[g].verdict # "pending"
<1> SUFFICES ASSUME NEW g \in Goals, g = req'.goal, ss'.pc = "read", Beyond(g)'
             PROVE  script'[ss'.conn].pc \in {"done", "failed"}
  BY DEF Closing
<1>f. ASSUME UNCHANGED ss, script[ss.conn].pc \in {"done", "failed"}
      PROVE  script'[ss'.conn].pc \in {"done", "failed"}
  <2>1. ss.conn \in Scripts
    BY <1>f DEF ConnectionServed
  <2> QED
    BY <1>f, <2>1, EndedIsFinal DEF Ended
<1>1. \A h \in Goals : ~ ClientSubmit(h)
  BY DEF ClientSubmit, MaySubmit, Settled, Orderly
<1>g. g = req.goal
  BY <1>1, RequestStays
<1>2. CASE ReadEcho
  BY <1>2, <1>g, EchoComesFirst
<1>3. CASE ReadLine
  <2>1. CASE script[ss.conn].pc \in {"done", "failed"}
    BY <1>3, <1>f, <1>g, <2>1, LineReports
  <2>2. CASE task'[g].verdict = task[g].verdict
    <3>1. ss.pc = "read" /\ Beyond(g)
      BY <1>3, <1>g, <2>2, LineReports
    <3> QED
      BY <1>g, <2>1, <3>1 DEF Closing
  <2> QED
    BY <1>3, <1>g, <2>1, <2>2, LineReports
<1>4. CASE Accept \/ Greet \/ ReadClose \/ Restart
  BY <1>4 DEF Accept, Greet, ReadClose, Restart, NewSocketServer, SocketServers
<1>5. CASE ~ SocketServerNext /\ ~ Restart
  <2>1. UNCHANGED ss
    BY <1>5, OthersReadNothing
  <2>2. CASE NextAttempt(g)
    <3>1. Beyond(g)
      BY <1>g, <2>2, AttemptHasVerdict
    <3> QED
      BY <1>f, <1>g, <2>1, <3>1 DEF Closing
  <2>3. CASE ~ NextAttempt(g)
    <3>1. task'[g].attempt = task[g].attempt
      BY <2>3, AttemptStays DEF SettledInv, PatientInv
    <3>2. Script(g)' = Script(g)
      BY <3>1 DEF Script
    <3>3. CASE ss.conn # Script(g)
      BY <1>f, <1>g, <2>1, <3>3 DEF Closing
    <3>4. CASE ss.conn = Script(g)
      <4>1. task'[g].pc \in WaitsOnScript /\ task'[g].verdict # "pending"
        BY <2>1, <3>2, <3>4
      <4>2. ~ Upload(g)
        BY <1>g, <2>1, <3>4, ServedIsLast DEF Upload
      <4>3. \A h \in Goals : ~ Upload(h)
        BY <1>g, <4>2 DEF Upload, Live, SettledInv, Alone, AliveInTurn
      <4>4. task[g].pc \in WaitsOnScript
        BY <4>1, <4>3, OnlyUploadSends DEF NoUpload
      <4>5. task'[g].verdict = task[g].verdict
        <5>1. ~ AbortsGoal(ds'.safetyMode)
          BY DEF DriverStates, AbortsGoal, Orderly
        <5> QED
          BY <1>5, <4>1, <5>1, VerdictComes DEF Verdict, SocketServerNext
      <4> QED
        BY <1>f, <1>g, <2>1, <4>1, <4>4, <4>5 DEF Closing
    <3> QED
      BY <3>3, <3>4
  <2> QED
    BY <2>2, <2>3
<1> QED
  BY <1>2, <1>3, <1>4, <1>5 DEF SocketServerNext

\* So a verdict is the running script's, but for the close that fails the next attempt.
LEMMA VerdictIsJudged ==
  ASSUME VerdictInv, Next, NEW g \in Goals, task'[g].verdict \notin {task[g].verdict, "pending"}
  PROVE  \/ ss.conn = Script(g) /\ Backed(Script(g), task'[g].verdict)
         \/ task'[g].verdict = "failed" /\ (LateClose(g) \/ AbortsGoal(ds'.safetyMode))
<1> USE DEF VerdictInv, ProgressInv, EarnedInv, ScriptInv, TypeInv, TypeOK
<1>1. Verdict(g)
  BY VerdictComes
<1>2. CASE (ReadLine \/ ReadClose) /\ ss.conn \in Scripts /\ ds.goalSender = g
  <2>1. g = req.goal
    BY <1>2, ConstantsAssumption, SenderIsInHand
  <2>2. ss.pc = "read"
    BY <1>2 DEF ReadLine, ReadClose
  <2>3. CASE ss.conn = Script(g)
    <3>1. CASE task'[g].verdict = "failed" /\ Ended(ss.conn)
      BY <2>3, <3>1 DEF Backed
    <3>2. ASSUME NEW i \in 1 .. Len(script[ss.conn].lines),
                 script[ss.conn].lines[i].kind \in {"ok", "error"},
                 task'[g].verdict = VerdictOf(script[ss.conn].lines[i])
          PROVE  Backed(ss.conn, task'[g].verdict)
      BY <1>2, <3>2 DEF LinesTell, VerdictOf, Backed, Ended
    <3> QED
      BY <1>1, <1>2, <2>3, <3>1, <3>2 DEF Verdict, AbortsGoal
  <2>4. CASE ss.conn # Script(g)
    <3>1. ReadOut(ss.conn)
      BY <2>1, <2>2, <2>4, ServedIsLast
    <3>2. ReadClose /\ task'[g].verdict = "failed"
      BY <1>2, <3>1 DEF ReadOut, ReadLine, ReadClose, Received, Resolve, Tasks
    <3>3. Closed /\ ss.conn \in ScriptsOf(g)
      <4>1. ss.conn[1] = g
        BY <2>1, <2>2 DEF OfTheRequest
      <4> QED
        BY <1>2, <3>2, <4>1 DEF ReadClose, ScriptsOf
    <3>4. script[ss.conn].pc \in {"done", "failed"}
      BY <2>1, <2>2, <2>4 DEF Closing
    <3> QED
      BY <3>2, <3>3, <3>4 DEF LateClose
  <2> QED
    BY <2>3, <2>4
<1> QED
  BY <1>1, <1>2 DEF Verdict

\* The invariant holds at first, and is inductive.
LEMMA VerdictInductive ==
  ASSUME Orderly
  PROVE  /\ Init => VerdictInv
         /\ VerdictInv /\ [Next]_vars => VerdictInv'
<1>1. Init => VerdictInv
  BY InitProgressInv DEF VerdictInv, Closing, Init, NewSocketServer
<1>2. ASSUME VerdictInv, [Next]_vars PROVE VerdictInv'
  <2>1. ProgressInv'
    BY <1>2, NextProgressInv DEF VerdictInv
  <2>2. CASE Next
    BY <1>2, <2>1, <2>2, NextClosing DEF VerdictInv, ProgressInv, EarnedInv, ScriptInv
  <2>3. CASE UNCHANGED vars
    <3>1. Closing'
      BY <1>2, <2>3 DEF vars, VerdictInv, Closing, Script
    <3> QED
      BY <2>1, <3>1 DEF VerdictInv
  <2> QED
    BY <1>2, <2>2, <2>3
<1> QED
  BY <1>1, <1>2

\* A goal is judged by the script it runs and as that script ended, however often it was
\* re-issued: what a killed script still reports is never taken for its successor's.
THEOREM VerdictsAreTheirOwn ==
  ASSUME Orderly
  PROVE  Spec => OwnVerdict
<1> DEFINE A == \A g \in Goals :
                  task'[g].verdict \notin {task[g].verdict, "pending"} =>
                    \/ ss.conn = Script(g) /\ Backed(Script(g), task'[g].verdict)
                    \/ task'[g].verdict = "failed"
                       /\ (LateClose(g) \/ AbortsGoal(ds'.safetyMode))
<1>1. (Init => VerdictInv) /\ (VerdictInv /\ [Next]_vars => VerdictInv')
  BY VerdictInductive
<1>2. VerdictInv /\ [Next]_vars => [A]_vars
  BY VerdictIsJudged
<1>3. [][A]_vars => OwnVerdict
  BY DEF OwnVerdict
<1> HIDE DEF A
<1> QED
  BY <1>1, <1>2, <1>3, PTL DEF Spec
================================================================================
