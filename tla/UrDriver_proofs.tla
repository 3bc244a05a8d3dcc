---------------------------- MODULE UrDriver_proofs ----------------------------
(***************************************************************************)
(* Theorems about UrDriver, for every value of its constants.              *)
(***************************************************************************)
EXTENDS UrDriver, TLAPS

(***************************************************************************)
(* Type correctness.  Four facts the types do not carry are needed to stay *)
(* within them: a request being looked at names a goal, the connection     *)
(* being served is a script's, its handshake a goal's, and a goal that is  *)
(* re-issuing itself has an attempt left.                                  *)
(***************************************************************************)
RequestNamed ==
  /\ req.trigger => req.goal \in Goals
  /\ cs.trigger => cs.goal \in Goals
  /\ cs.pc = "trigger" => cs.trigger
  /\ cs.pc \in {"admit", "execute", "install", "reject"} => cs.goal \in Goals

ConnectionServed ==
  /\ ss.pc # "accept" => ss.conn \in Scripts
  /\ ss.pc \in {"greet", "echo"} => ss.handshake \in Goals

AttemptLeft ==
  \A g \in Goals :
    task[g].pc \in {"claim", "reissue", "drain"} => task[g].attempt < MaxAttempts

TypeInv == TypeOK /\ RequestNamed /\ ConnectionServed /\ AttemptLeft

\* A task stays one when a field of it gets another value of that field's type.
LEMMA TaskFields ==
  ASSUME NEW t \in Tasks
  PROVE  /\ \A pc \in TaskPcs : [t EXCEPT !.pc = pc] \in Tasks
         /\ \A n \in 1 .. MaxAttempts : [t EXCEPT !.attempt = n] \in Tasks
         /\ \A n \in Nat : [t EXCEPT !.first = n] \in Tasks
         /\ \A v \in {"pending", "ok", "failed"} : [t EXCEPT !.verdict = v] \in Tasks
         /\ \A h \in {"pending", "yes", "no"} : [t EXCEPT !.handshake = h] \in Tasks
         /\ \A s \in {"none", "sent", "ok", "failed"} : [t EXCEPT !.stop = s] \in Tasks
         /\ \A b \in BOOLEAN : [t EXCEPT !.cancel = b] \in Tasks
         /\ \A b \in BOOLEAN : [t EXCEPT !.resume = b] \in Tasks
         /\ \A r \in {"none", "SUCCEDED", "CANCELED", "ABORTED"} : [t EXCEPT !.result = r] \in Tasks
         /\ \A a \in {"none", "succeeded", "failed"} : [t EXCEPT !.answer = a] \in Tasks
BY DEF Tasks

\* The step of one task, as every action that touches a task takes it.
LEMMA TaskStep ==
  ASSUME task \in [Goals -> Tasks], AttemptLeft,
         NEW g \in Goals, NEW t \in Tasks, task' = [task EXCEPT ![g] = t],
         t.pc \in {"claim", "reissue", "drain"} => t.attempt < MaxAttempts
  PROVE  task' \in [Goals -> Tasks] /\ AttemptLeft'
BY DEF AttemptLeft

\* Moving a task to another place keeps the type of all tasks.
LEMMA GotoStep ==
  ASSUME task \in [Goals -> Tasks], AttemptLeft, NEW g \in Goals, NEW pc \in TaskPcs,
         pc \in {"claim", "reissue", "drain"} => task[g].attempt < MaxAttempts, Goto(g, pc)
  PROVE  task' \in [Goals -> Tasks] /\ AttemptLeft'
<1> DEFINE t == [task[g] EXCEPT !.pc = pc]
<1>1. t \in Tasks
  BY TaskFields
<1>2. t.pc = pc /\ t.attempt = task[g].attempt
  BY DEF Tasks
<1>3. task' = [task EXCEPT ![g] = t]
  BY DEF Goto
<1> HIDE DEF t
<1> QED
  BY <1>1, <1>2, <1>3, TaskStep

\* So does ending it with a result.
LEMMA FinishStep ==
  ASSUME task \in [Goals -> Tasks], AttemptLeft, NEW g \in Goals,
         NEW result \in {"SUCCEDED", "CANCELED", "ABORTED"}, Finish(g, result)
  PROVE  task' \in [Goals -> Tasks] /\ AttemptLeft'
<1> DEFINE t == [[task[g] EXCEPT !.pc = "publish"] EXCEPT !.result = result]
<1>1. t \in Tasks
  BY TaskFields DEF TaskPcs
<1>2. t.pc = "publish"
  BY DEF Tasks
<1>3. task' = [task EXCEPT ![g] = t]
  BY DEF Finish
<1> HIDE DEF t
<1> QED
  BY <1>1, <1>2, <1>3, TaskStep

\* A script stays one when a field of it gets another value of that field's type.
LEMMA ScriptFields ==
  ASSUME NEW t \in ScriptStates
  PROVE  /\ \A pc \in ScriptPcs : [t EXCEPT !.pc = pc] \in ScriptStates
         /\ \A l \in {"none", "queued", "accepted", "greeted", "dropped"} :
              [t EXCEPT !.link = l] \in ScriptStates
         /\ \A n \in Nat : [t EXCEPT !.first = n] \in ScriptStates
         /\ \A n \in Nat : [t EXCEPT !.at = n] \in ScriptStates
         /\ \A ls \in Seq(Lines) : [t EXCEPT !.lines = ls] \in ScriptStates
BY DEF ScriptStates

\* A script not sent yet is a script.
LEMMA NewScriptType == NewScript \in ScriptStates
BY DEF ScriptStates, ScriptPcs, NewScript, Lines

\* Killing a program keeps the type of all scripts.
LEMMA KilledType ==
  ASSUME NEW scripts \in [Scripts -> ScriptStates], NEW s
  PROVE  Killed(scripts, s) \in [Scripts -> ScriptStates]
BY DEF Killed, ScriptStates, ScriptPcs

\* The script a task is running is one of the scripts.
LEMMA ScriptType ==
  ASSUME task \in [Goals -> Tasks], NEW g \in Goals
  PROVE  Script(g) \in Scripts
BY DEF Script, Scripts, Tasks

\* A stop sent to the dashboard keeps the type of its channel.
LEMMA SendStopType ==
  ASSUME dash \in Dashboards, NEW g \in Goals, SendStop(g)
  PROVE  dash' \in Dashboards
<1>1. Append(dash.stops, g) \in Seq(Goals)
  BY DEF Dashboards
<1> QED
  BY <1>1 DEF SendStop, Dashboards

\* The first state of run() is of its type.
LEMMA InitTypeInv == Init => TypeInv
<1> SUFFICES ASSUME Init PROVE TypeInv
  OBVIOUS
<1> USE ConstantsAssumption DEF Init
<1>1. req \in Requests /\ ds \in DriverStates /\ cs \in CommandServers
  BY DEF Requests, DriverStates, CommandServers, SeededRequest, NewDriverState,
         NewCommandServer, RequestStates, Terminal, OptGoal
<1>2. NewTask \in Tasks /\ NewScript \in ScriptStates
  BY NewScriptType DEF Tasks, TaskPcs, NewTask
<1>3. task \in [Goals -> Tasks] /\ script \in [Scripts -> ScriptStates]
  BY <1>2
<1>4. ss \in SocketServers /\ dash \in Dashboards /\ backlog \in Seq(Scripts)
  BY DEF SocketServers, NewSocketServer, OptScript, NoScript, OptGoal, Dashboards, NewDashboard
<1>5. robot \in Robots /\ client \in Clients
  BY DEF Robots, OptScript, Clients
<1>6. RequestNamed /\ ConnectionServed /\ AttemptLeft
  BY DEF RequestNamed, ConnectionServed, AttemptLeft, SeededRequest, NewCommandServer,
         NewSocketServer, NewTask
<1> QED
  BY <1>1, <1>3, <1>4, <1>5, <1>6 DEF TypeInv, TypeOK

\* The client's steps keep the type of every variable.
LEMMA ClientTypeInv ==
  ASSUME TypeInv, (\E g \in Goals : ClientSubmit(g)) \/ ClientCancel
  PROVE  TypeInv'
<1> USE ConstantsAssumption DEF TypeInv, TypeOK, RequestNamed, ConnectionServed, AttemptLeft
<1>1. ASSUME NEW g \in Goals, ClientSubmit(g) PROVE TypeInv'
  BY <1>1 DEF ClientSubmit, Requests, RequestStates, OptGoal, Clients
<1>2. ASSUME ClientCancel PROVE TypeInv'
  <2>1. req' \in Requests
    BY <1>2 DEF ClientCancel, Requests
  <2>2. client' \in Clients
    <3>1. client.cancels + 1 \in 0 .. MaxCancels
      BY <1>2 DEF ClientCancel, Clients
    <3>2. client.cancelled \union {req.goal} \in SUBSET Goals
      BY <1>2 DEF ClientCancel, Clients, Requests, OptGoal
    <3> QED
      BY <1>2, <3>1, <3>2 DEF ClientCancel, Clients
  <2> QED
    BY <1>2, <2>1, <2>2 DEF ClientCancel, Requests
<1> QED
  BY <1>1, <1>2

\* command_server's steps keep the type of every variable.
LEMMA CommandServerTypeInv ==
  ASSUME TypeInv, CommandServerNext
  PROVE  TypeInv'
<1> USE ConstantsAssumption DEF TypeInv, TypeOK
<1>1. CASE ReadRequestKeys
  <2>1. cs' \in CommandServers
    BY <1>1 DEF ReadRequestKeys, Requests, CommandServers
  <2>2. RequestNamed'
    BY <1>1 DEF ReadRequestKeys, RequestNamed, Requests, CommandServers
  <2> QED
    BY <1>1, <2>1, <2>2 DEF ReadRequestKeys, ConnectionServed, AttemptLeft
<1>2. CASE DeliverCancel
  <2>1. req' \in Requests /\ cs' \in CommandServers
    BY <1>2 DEF DeliverCancel, CancelConsumed, Requests, CommandServers
  <2>2. ds' \in DriverStates
    BY <1>2 DEF DeliverCancel, DriverStates, OptGoal
  <2>3. RequestNamed'
    BY <1>2 DEF DeliverCancel, CancelConsumed, RequestNamed, Requests, CommandServers
  <2>4. task' \in [Goals -> Tasks] /\ AttemptLeft'
    <3>1. CASE ds.cancelSender = NoGoal
      BY <1>2, <3>1 DEF DeliverCancel, AttemptLeft
    <3>2. CASE ds.cancelSender \in Goals
      <4> DEFINE t == [task[ds.cancelSender] EXCEPT !.cancel = TRUE]
      <4>1. task' = [task EXCEPT ![ds.cancelSender] = t]
        BY <1>2, <3>2 DEF DeliverCancel
      <4>2. t \in Tasks
        BY <3>2, TaskFields
      <4>3. t.pc \in {"claim", "reissue", "drain"} => t.attempt < MaxAttempts
        BY <3>2 DEF Tasks, AttemptLeft
      <4> HIDE DEF t
      <4> QED
        BY <3>2, <4>1, <4>2, <4>3, TaskStep
    <3> QED
      BY <3>1, <3>2 DEF DriverStates, OptGoal
  <2> QED
    BY <1>2, <2>1, <2>2, <2>3, <2>4 DEF DeliverCancel, ConnectionServed
<1>3. CASE ConsumeTrigger
  <2>1. req' \in Requests
    BY <1>3 DEF ConsumeTrigger, Requests
  <2>2. cs' \in CommandServers
    <3>1. CASE cs' = NewCommandServer
      BY <3>1 DEF NewCommandServer, CommandServers, RequestStates, OptGoal
    <3>2. ASSUME NEW decision \in {"admit", "reject"}, cs' = [cs EXCEPT !.pc = decision]
          PROVE  cs' \in CommandServers
      BY <3>2 DEF CommandServers
    <3> QED
      BY <1>3, <3>1, <3>2 DEF ConsumeTrigger
  <2>3. RequestNamed'
    BY <1>3 DEF ConsumeTrigger, NewCommandServer, RequestNamed, Requests, CommandServers
  <2> QED
    BY <1>3, <2>1, <2>2, <2>3 DEF ConsumeTrigger, ConnectionServed, AttemptLeft
<1>4. CASE Admit
  BY <1>4 DEF Admit, CommandServers, RequestNamed, ConnectionServed, AttemptLeft
<1>5. CASE Reject
  <2>1. req' \in Requests /\ cs' \in CommandServers
    BY <1>5 DEF Reject, NewCommandServer, Requests, CommandServers, RequestStates, Terminal, OptGoal
  <2>2. RequestNamed'
    BY <1>5 DEF Reject, NewCommandServer, RequestNamed, Requests
  <2>3. task' \in [Goals -> Tasks] /\ AttemptLeft'
    <3> DEFINE t == [task[cs.goal] EXCEPT !.answer = "failed"]
    <3>1. cs.goal \in Goals
      BY <1>5 DEF Reject, RequestNamed
    <3>2. task' = [task EXCEPT ![cs.goal] = t]
      BY <1>5, <3>1 DEF Reject
    <3>3. t \in Tasks
      BY <3>1, TaskFields
    <3>4. t.pc \in {"claim", "reissue", "drain"} => t.attempt < MaxAttempts
      BY <3>1 DEF Tasks, AttemptLeft
    <3> HIDE DEF t
    <3> QED
      BY <3>1, <3>2, <3>3, <3>4, TaskStep
  <2> QED
    BY <1>5, <2>1, <2>2, <2>3 DEF Reject, ConnectionServed
<1>6. CASE WriteExecuting
  BY <1>6 DEF WriteExecuting, Requests, CommandServers, RequestStates, RequestNamed,
              ConnectionServed, AttemptLeft
<1>7. CASE SpawnGoal
  <2>1. cs' \in CommandServers /\ RequestNamed'
    BY <1>7 DEF SpawnGoal, NewCommandServer, CommandServers, RequestStates, OptGoal, RequestNamed
  <2>2. ds' \in DriverStates
    BY <1>7 DEF SpawnGoal, DriverStates, RequestNamed, OptGoal
  <2>3. task' \in [Goals -> Tasks] /\ AttemptLeft'
    <3>1. cs.goal \in Goals
      BY <1>7 DEF SpawnGoal, RequestNamed
    <3>2. Goto(cs.goal, "connect") /\ "connect" \in TaskPcs
      BY <1>7 DEF SpawnGoal, Goto, TaskPcs
    <3> QED
      BY <3>1, <3>2, GotoStep
  <2> QED
    BY <1>7, <2>1, <2>2, <2>3 DEF SpawnGoal, ConnectionServed
<1> QED
  BY <1>1, <1>2, <1>3, <1>4, <1>5, <1>6, <1>7 DEF CommandServerNext

\* So do the steps of a goal's task; only a goal with an attempt left is re-issued.
LEMMA HandleRequestTypeInv ==
  ASSUME TypeInv, NEW g \in Goals, HandleRequestNext(g)
  PROVE  TypeInv'
<1> USE ConstantsAssumption DEF TypeInv, TypeOK
<1>pcs. /\ {"install", "handshake", "run", "drain", "gone"} \subseteq TaskPcs
        /\ {"connect", "upload", "stopping", "claim", "reissue", "publish", "teardown"}
             \subseteq TaskPcs
  BY DEF TaskPcs
<1>1. CASE Connect(g)
  <2>1. task' \in [Goals -> Tasks] /\ AttemptLeft'
    BY <1>1, <1>pcs, GotoStep, FinishStep DEF Connect
  <2> QED
    BY <1>1, <2>1 DEF Connect, RequestNamed, ConnectionServed
<1>2. CASE InstallGoal(g)
  <2>1. ds' \in DriverStates
    BY <1>2 DEF InstallGoal, Installed, DriverStates, OptGoal
  <2>2. task' \in [Goals -> Tasks] /\ AttemptLeft'
    <3> DEFINE t == [[[task[g] EXCEPT !.pc = "upload"] EXCEPT !.verdict = "pending"]
                       EXCEPT !.handshake = "pending"]
    <3>1. task' = [task EXCEPT ![g] = t]
      BY <1>2 DEF InstallGoal
    <3>2. t \in Tasks
      BY <1>pcs, TaskFields
    <3>3. t.pc = "upload"
      BY DEF Tasks
    <3> HIDE DEF t
    <3> QED
      BY <3>1, <3>2, <3>3, TaskStep
  <2> QED
    BY <1>2, <2>1, <2>2 DEF InstallGoal, RequestNamed, ConnectionServed
<1>3. CASE Upload(g)
  <2>1. Script(g) \in Scripts
    BY ScriptType
  <2>2. script' \in [Scripts -> ScriptStates]
    <3>1. [NewScript EXCEPT !.pc = "loaded", !.first = task[g].first] \in ScriptStates
      <4>1. task[g].first \in Nat /\ "loaded" \in ScriptPcs
        BY DEF Tasks, ScriptPcs
      <4>2. [[NewScript EXCEPT !.pc = "loaded"] EXCEPT !.first = task[g].first] \in ScriptStates
        BY <4>1, NewScriptType, ScriptFields
      <4> QED
        BY <4>2
    <3> QED
      BY <1>3, <2>1, <3>1, KilledType DEF Upload
  <2>3. robot' \in Robots
    BY <1>3, <2>1 DEF Upload, Robots, OptScript
  <2>4. task' \in [Goals -> Tasks] /\ AttemptLeft'
    BY <1>3, <1>pcs, GotoStep DEF Upload
  <2> QED
    BY <1>3, <2>2, <2>3, <2>4 DEF Upload, RequestNamed, ConnectionServed
<1>4. CASE UploadFails(g) \/ HandshakeAnswered(g) \/ HandshakeTimeout(g)
  <2>1. task' \in [Goals -> Tasks] /\ AttemptLeft'
    BY <1>4, <1>pcs, GotoStep, FinishStep DEF UploadFails, HandshakeAnswered, HandshakeTimeout
  <2> QED
    BY <1>4, <2>1 DEF UploadFails, HandshakeAnswered, HandshakeTimeout, RequestNamed,
       ConnectionServed
<1>5. CASE RunningVerdict(g) \/ StoppingVerdict(g)
  <2>1. VerdictResult(g) \in {"SUCCEDED", "CANCELED", "ABORTED"}
    BY DEF VerdictResult
  <2>2. task' \in [Goals -> Tasks] /\ AttemptLeft'
    BY <1>5, <2>1, FinishStep DEF RunningVerdict, StoppingVerdict, VerdictArrives
  <2> QED
    BY <1>5, <2>2 DEF RunningVerdict, StoppingVerdict, VerdictArrives, RequestNamed,
       ConnectionServed
<1>6. CASE CancelGoal(g)
  <2>1. task' \in [Goals -> Tasks] /\ AttemptLeft'
    <3>1. CASE task' = [task EXCEPT ![g].pc = "stopping", ![g].stop = "sent", ![g].cancel = FALSE]
      <4> DEFINE t == [[[task[g] EXCEPT !.pc = "stopping"] EXCEPT !.stop = "sent"]
                         EXCEPT !.cancel = FALSE]
      <4>1. task' = [task EXCEPT ![g] = t]
        BY <3>1
      <4>2. t \in Tasks
        BY <1>pcs, TaskFields
      <4>3. t.pc = "stopping"
        BY DEF Tasks
      <4> HIDE DEF t
      <4> QED
        BY <4>1, <4>2, <4>3, TaskStep
    <3>2. CASE task' = [task EXCEPT ![g].pc = "publish", ![g].result = "ABORTED",
                                    ![g].cancel = FALSE]
      <4> DEFINE t == [[[task[g] EXCEPT !.pc = "publish"] EXCEPT !.result = "ABORTED"]
                         EXCEPT !.cancel = FALSE]
      <4>1. task' = [task EXCEPT ![g] = t]
        BY <3>2
      <4>2. t \in Tasks
        BY <1>pcs, TaskFields
      <4>3. t.pc = "publish"
        BY DEF Tasks
      <4> HIDE DEF t
      <4> QED
        BY <4>1, <4>2, <4>3, TaskStep
    <3> QED
      BY <1>6, <3>1, <3>2 DEF CancelGoal
  <2>2. dash' \in Dashboards
    BY <1>6, SendStopType DEF CancelGoal
  <2> QED
    BY <1>6, <2>1, <2>2 DEF CancelGoal, RequestNamed, ConnectionServed
<1>7. CASE StopAnswered(g) \/ ReissueStopped(g)
  <2>1. task' \in [Goals -> Tasks] /\ AttemptLeft'
    BY <1>7, <1>pcs, GotoStep, FinishStep DEF StopAnswered, ReissueStopped, AttemptLeft
  <2> QED
    BY <1>7, <2>1 DEF StopAnswered, ReissueStopped, RequestNamed, ConnectionServed
<1>8. CASE ResumeGoal(g)
  <2>1. task' \in [Goals -> Tasks] /\ AttemptLeft'
    <3>1. CASE task' = [task EXCEPT ![g].pc = "publish", ![g].result = "ABORTED",
                                    ![g].resume = FALSE]
      <4> DEFINE t == [[[task[g] EXCEPT !.pc = "publish"] EXCEPT !.result = "ABORTED"]
                         EXCEPT !.resume = FALSE]
      <4>1. task' = [task EXCEPT ![g] = t]
        BY <3>1
      <4>2. t \in Tasks
        BY <1>pcs, TaskFields
      <4>3. t.pc = "publish"
        BY DEF Tasks
      <4> HIDE DEF t
      <4> QED
        BY <4>1, <4>2, <4>3, TaskStep
    <3>2. CASE /\ task[g].attempt < MaxAttempts
               /\ task' = [task EXCEPT ![g].pc = "claim", ![g].resume = FALSE,
                                       ![g].first = @ + Remaining(g)]
      <4> DEFINE t == [[[task[g] EXCEPT !.pc = "claim"] EXCEPT !.resume = FALSE]
                         EXCEPT !.first = task[g].first + Remaining(g)]
      <4>1. task' = [task EXCEPT ![g] = t]
        BY <3>2
      <4>2. task[g].first + Remaining(g) \in Nat
        BY DEF Remaining, Tasks, DriverStates
      <4>3. t \in Tasks
        BY <4>2, <1>pcs, TaskFields
      <4>4. t.attempt = task[g].attempt
        BY DEF Tasks
      <4> HIDE DEF t
      <4> QED
        BY <3>2, <4>1, <4>3, <4>4, TaskStep
    <3> QED
      BY <1>8, <3>1, <3>2 DEF ResumeGoal
  <2> QED
    BY <1>8, <2>1 DEF ResumeGoal, RequestNamed, ConnectionServed
<1>9. CASE ClaimReissue(g)
  <2>1. ds' \in DriverStates
    BY <1>9 DEF ClaimReissue, DriverStates
  <2>2. dash' \in Dashboards
    BY <1>9, SendStopType DEF ClaimReissue
  <2>3. task' \in [Goals -> Tasks] /\ AttemptLeft'
    <3>1. task[g].attempt < MaxAttempts
      BY <1>9 DEF ClaimReissue, AttemptLeft
    <3>2. CASE task' = [task EXCEPT ![g].pc = "reissue", ![g].stop = "sent"]
      <4> DEFINE t == [[task[g] EXCEPT !.pc = "reissue"] EXCEPT !.stop = "sent"]
      <4>1. task' = [task EXCEPT ![g] = t]
        BY <3>2
      <4>2. t \in Tasks
        BY <1>pcs, TaskFields
      <4>3. t.attempt = task[g].attempt
        BY DEF Tasks
      <4> HIDE DEF t
      <4> QED
        BY <3>1, <4>1, <4>2, <4>3, TaskStep
    <3>3. CASE Goto(g, "drain")
      BY <1>pcs, <3>1, <3>3, GotoStep
    <3> QED
      BY <1>9, <3>2, <3>3 DEF ClaimReissue
  <2> QED
    BY <1>9, <2>1, <2>2, <2>3 DEF ClaimReissue, RequestNamed, ConnectionServed
<1>10. CASE NextAttempt(g)
  <2>1. ds' \in DriverStates
    BY <1>10 DEF NextAttempt, DriverStates
  <2>2. task' \in [Goals -> Tasks] /\ AttemptLeft'
    <3> DEFINE t == [[[task[g] EXCEPT !.pc = "connect"] EXCEPT !.attempt = task[g].attempt + 1]
                       EXCEPT !.stop = "none"]
    <3>1. task' = [task EXCEPT ![g] = t]
      BY <1>10 DEF NextAttempt
    <3>2. task[g].attempt + 1 \in 1 .. MaxAttempts
      BY <1>10 DEF NextAttempt, AttemptLeft, Tasks
    <3>3. t \in Tasks
      BY <3>2, <1>pcs, TaskFields
    <3>4. t.pc = "connect"
      BY DEF Tasks
    <3> HIDE DEF t
    <3> QED
      BY <3>1, <3>3, <3>4, TaskStep
  <2> QED
    BY <1>10, <2>1, <2>2 DEF NextAttempt, RequestNamed, ConnectionServed
<1>11. CASE Publish(g)
  <2>1. TerminalState(task[g].result) \in {"succeeded", "failed"}
    BY DEF TerminalState
  <2>2. req' \in Requests /\ RequestNamed'
    BY <1>11, <2>1 DEF Publish, Requests, RequestStates, Terminal, RequestNamed
  <2>3. task' \in [Goals -> Tasks] /\ AttemptLeft'
    <3> DEFINE t == [[task[g] EXCEPT !.pc = "teardown"]
                       EXCEPT !.answer = TerminalState(task[g].result)]
    <3>1. task' = [task EXCEPT ![g] = t]
      BY <1>11 DEF Publish
    <3>2. t \in Tasks
      BY <2>1, <1>pcs, TaskFields
    <3>3. t.pc = "teardown"
      BY DEF Tasks
    <3> HIDE DEF t
    <3> QED
      BY <3>1, <3>2, <3>3, TaskStep
  <2> QED
    BY <1>11, <2>2, <2>3 DEF Publish, ConnectionServed
<1>12. CASE Teardown(g)
  <2>1. ds' \in DriverStates
    BY <1>12 DEF Teardown, TornDown, DriverStates, OptGoal
  <2>2. task' \in [Goals -> Tasks] /\ AttemptLeft'
    BY <1>12, <1>pcs, GotoStep DEF Teardown
  <2> QED
    BY <1>12, <2>1, <2>2 DEF Teardown, RequestNamed, ConnectionServed
<1> QED
  BY <1>1, <1>2, <1>3, <1>4, <1>5, <1>6, <1>7, <1>8, <1>9, <1>10, <1>11, <1>12
     DEF HandleRequestNext

\* Setting a goal's verdict, handshake, stop or resume leaves where it is alone.
LEMMA SignalStep ==
  ASSUME task \in [Goals -> Tasks], AttemptLeft, NEW g \in Goals, NEW t \in Tasks,
         task' = [task EXCEPT ![g] = t], t.pc = task[g].pc, t.attempt = task[g].attempt
  PROVE  task' \in [Goals -> Tasks] /\ AttemptLeft'
BY TaskStep DEF AttemptLeft

\* Resolving the installed goal keeps the type of all tasks.
LEMMA ResolveStep ==
  ASSUME task \in [Goals -> Tasks], AttemptLeft, ds \in DriverStates,
         NEW verdict \in {"ok", "failed"}, task' = Resolve(verdict)
  PROVE  task' \in [Goals -> Tasks] /\ AttemptLeft'
<1>1. CASE ds.goalSender = NoGoal
  BY <1>1 DEF Resolve, AttemptLeft
<1>2. CASE ds.goalSender \in Goals /\ ds.goalSender # NoGoal
  <2> DEFINE t == [task[ds.goalSender] EXCEPT !.verdict = verdict]
  <2>1. task' = [task EXCEPT ![ds.goalSender] = t]
    BY <1>2 DEF Resolve
  <2>2. t \in Tasks
    BY <1>2, TaskFields
  <2>3. t.pc = task[ds.goalSender].pc /\ t.attempt = task[ds.goalSender].attempt
    BY <1>2 DEF Tasks
  <2> HIDE DEF t
  <2> QED
    BY <1>2, <2>1, <2>2, <2>3, SignalStep
<1> QED
  BY <1>1, <1>2 DEF DriverStates, OptGoal

\* socket_server's steps keep the type of every variable.
LEMMA SocketServerTypeInv ==
  ASSUME TypeInv, SocketServerNext
  PROVE  TypeInv'
<1> USE ConstantsAssumption DEF TypeInv, TypeOK
<1>1. CASE Accept
  <2>1. Head(backlog) \in Scripts /\ backlog' \in Seq(Scripts)
    BY <1>1 DEF Accept
  <2>2. script' \in [Scripts -> ScriptStates]
    <3>1. PICK link \in {"accepted", "dropped"} :
            script' = [script EXCEPT ![Head(backlog)].link = link]
      BY <1>1 DEF Accept
    <3>2. [script[Head(backlog)] EXCEPT !.link = link] \in ScriptStates
      BY <2>1, ScriptFields
    <3> QED
      BY <2>1, <3>1, <3>2
  <2>3. ds' \in DriverStates
    BY <1>1, SMTT(20) DEF Accept, DriverStates, OptGoal
  <2>4. ss' \in SocketServers /\ ConnectionServed'
    BY <1>1, <2>1 DEF Accept, Expected, SocketServers, OptScript, OptGoal, DriverStates,
                      ConnectionServed
  <2> QED
    BY <1>1, <2>1, <2>2, <2>3, <2>4 DEF Accept, RequestNamed, AttemptLeft
<1>2. CASE Greet
  <2>1. ss' \in SocketServers /\ ConnectionServed'
    BY <1>2 DEF Greet, SocketServers, ConnectionServed
  <2>2. script' \in [Scripts -> ScriptStates]
    BY <1>2, ScriptFields DEF Greet, ConnectionServed
  <2> QED
    BY <1>2, <2>1, <2>2 DEF Greet, RequestNamed, AttemptLeft
<1>read. ASSUME ss.pc \in {"echo", "read"}, Received, Consume
         PROVE  /\ script' \in [Scripts -> ScriptStates]
                /\ Head(script[ss.conn].lines) \in Lines
  <2>1. ss.conn \in Scripts
    BY <1>read DEF ConnectionServed
  <2>2. script[ss.conn].lines \in Seq(Lines)
    BY <2>1 DEF ScriptStates
  <2>3. Head(script[ss.conn].lines) \in Lines /\ Tail(script[ss.conn].lines) \in Seq(Lines)
    BY <1>read, <2>2 DEF Received
  <2> QED
    BY <1>read, <2>1, <2>3, ScriptFields DEF Consume
<1>3. CASE ReadEcho
  <2>1. script' \in [Scripts -> ScriptStates]
    BY <1>3, <1>read DEF ReadEcho
  <2>2. ss' \in SocketServers /\ ConnectionServed'
    BY <1>3 DEF ReadEcho, SocketServers, OptGoal, ConnectionServed
  <2>3. task' \in [Goals -> Tasks] /\ AttemptLeft'
    <3>1. ss.handshake \in Goals
      BY <1>3 DEF ReadEcho, ConnectionServed
    <3>2. PICK answer \in {"yes", "no"} : task' = [task EXCEPT ![ss.handshake].handshake = answer]
      BY <1>3 DEF ReadEcho
    <3> DEFINE t == [task[ss.handshake] EXCEPT !.handshake = answer]
    <3>3. task' = [task EXCEPT ![ss.handshake] = t]
      BY <3>2
    <3>4. t \in Tasks
      BY <3>1, TaskFields
    <3>5. t.pc = task[ss.handshake].pc /\ t.attempt = task[ss.handshake].attempt
      BY <3>1 DEF Tasks
    <3> HIDE DEF t
    <3> QED
      BY <3>1, <3>3, <3>4, <3>5, SignalStep
  <2> QED
    BY <1>3, <2>1, <2>2, <2>3 DEF ReadEcho, RequestNamed
<1>4. CASE ReadLine
  <2>1. script' \in [Scripts -> ScriptStates] /\ Head(script[ss.conn].lines) \in Lines
    BY <1>4, <1>read DEF ReadLine
  <2>2. Head(script[ss.conn].lines).n \in Nat
    BY <2>1 DEF Lines
  <2>3. ds' \in DriverStates
    <3> DEFINE n == Head(script[ss.conn].lines).n
    <3>1. ds \in DriverStates /\ n + 1 \in Nat
      BY <2>2
    <3>2. \/ ds' = [ds EXCEPT !.goalSender = NoGoal]
          \/ ds' = [ds EXCEPT !.waypointsCompleted = n + 1]
      BY <1>4 DEF ReadLine
    <3> HIDE DEF n
    <3>3. CASE ds' = [ds EXCEPT !.goalSender = NoGoal]
      BY <3>1, <3>3 DEF DriverStates, OptGoal
    <3>4. CASE ds' = [ds EXCEPT !.waypointsCompleted = n + 1]
      BY <3>1, <3>4 DEF DriverStates, OptGoal
    <3> QED
      BY <3>2, <3>3, <3>4
  <2>4. task' \in [Goals -> Tasks] /\ AttemptLeft'
    <3>1. CASE UNCHANGED task
      BY <3>1 DEF AttemptLeft
    <3>2. CASE task' = Resolve(VerdictOf(Head(script[ss.conn].lines)))
      BY <3>2, ResolveStep DEF VerdictOf
    <3> QED
      BY <1>4, <3>1, <3>2 DEF ReadLine
  <2> QED
    BY <1>4, <2>1, <2>3, <2>4 DEF ReadLine, RequestNamed, ConnectionServed
<1>5. CASE ReadClose
  <2>1. ds' \in DriverStates
    BY <1>5 DEF ReadClose, AfterClose, DriverStates, OptGoal
  <2>2. ss' \in SocketServers /\ ConnectionServed'
    BY <1>5 DEF ReadClose, NewSocketServer, SocketServers, OptScript, OptGoal, ConnectionServed
  <2>3. task' \in [Goals -> Tasks] /\ AttemptLeft'
    BY <1>5, ResolveStep DEF ReadClose
  <2> QED
    BY <1>5, <2>1, <2>2, <2>3 DEF ReadClose, RequestNamed
<1> QED
  BY <1>1, <1>2, <1>3, <1>4, <1>5 DEF SocketServerNext

\* realtime_reader's steps keep the type of every variable.
LEMMA RealtimeReaderTypeInv ==
  ASSUME TypeInv, RealtimeReaderNext
  PROVE  TypeInv'
<1> USE ConstantsAssumption DEF TypeInv, TypeOK
<1>1. CASE ConnectRealtime \/ LoseRealtime
  BY <1>1, ZenonT(30)
     DEF ConnectRealtime, LoseRealtime, DriverStates, RequestNamed, ConnectionServed, AttemptLeft
<1>2. CASE ReadFrame
  <2>1. PICK mode \in SafetyModes :
          /\ ds' = AfterFrame(mode)
          /\ task' = IF AbortsGoal(mode) /\ ds.goalSender # NoGoal
                     THEN [task EXCEPT ![ds.goalSender].verdict = "failed"]
                     ELSE task
    BY <1>2 DEF ReadFrame
  <2>2. ds' \in DriverStates
    BY <2>1 DEF AfterFrame, DriverStates, OptGoal
  <2>3. task' = Resolve("failed") \/ task' = task
    BY <2>1 DEF Resolve
  <2>4. task' \in [Goals -> Tasks] /\ AttemptLeft'
    BY <2>3, ResolveStep DEF AttemptLeft
  <2> QED
    BY <1>2, <2>2, <2>4 DEF ReadFrame, RequestNamed, ConnectionServed
<1> QED
  BY <1>1, <1>2 DEF RealtimeReaderNext

\* The reply to a stop keeps the type of all tasks.
LEMMA ReplyStep ==
  ASSUME task \in [Goals -> Tasks], AttemptLeft, NEW g \in Goals,
         NEW answer \in {"ok", "failed"}, Reply(g, answer)
  PROVE  task' \in [Goals -> Tasks] /\ AttemptLeft'
<1>1. CASE task' = task
  BY <1>1 DEF AttemptLeft
<1>2. CASE task' = [task EXCEPT ![g].stop = answer]
  <2> DEFINE t == [task[g] EXCEPT !.stop = answer]
  <2>1. task' = [task EXCEPT ![g] = t]
    BY <1>2
  <2>2. t \in Tasks
    BY TaskFields
  <2>3. t.pc = task[g].pc /\ t.attempt = task[g].attempt
    BY DEF Tasks
  <2> HIDE DEF t
  <2> QED
    BY <2>1, <2>2, <2>3, SignalStep
<1> QED
  BY <1>1, <1>2 DEF Reply

\* The dashboard task's steps keep the type of every variable.
LEMMA DashboardTypeInv ==
  ASSUME TypeInv, DashboardNext
  PROVE  TypeInv'
<1> USE ConstantsAssumption DEF TypeInv, TypeOK
<1>1. CASE ServeStop
  <2>1. Head(dash.stops) \in Goals /\ Tail(dash.stops) \in Seq(Goals)
    BY <1>1 DEF ServeStop, Dashboards
  <2>2. dash' \in Dashboards
    BY <1>1, <2>1 DEF ServeStop, Dashboards
  <2>3. task' \in [Goals -> Tasks] /\ AttemptLeft'
    BY <1>1, <2>1, ReplyStep DEF ServeStop
  <2>4. script' \in [Scripts -> ScriptStates]
    BY <1>1, KilledType DEF ServeStop
  <2>5. robot' \in Robots
    <3>1. [prog |-> NoScript, held |-> FALSE] \in Robots
      BY DEF Robots, OptScript
    <3> QED
      BY <1>1, <3>1 DEF ServeStop
  <2> QED
    BY <1>1, <2>2, <2>3, <2>4, <2>5 DEF ServeStop, RequestNamed, ConnectionServed
<1>2. CASE Pause
  <2>1. client' \in Clients
    BY <1>2 DEF Pause, Clients
  <2>2. dash' \in Dashboards
    BY <1>2 DEF Pause, Dashboards
  <2> QED
    BY <1>2, <2>1, <2>2 DEF Pause, RequestNamed, ConnectionServed, AttemptLeft
<1>3. CASE LatchPause \/ LosePause
  <2>1. robot' \in Robots
    BY <1>3 DEF LatchPause, LosePause, HoldOutcomes, Robots
  <2>2. dash' \in Dashboards
    BY <1>3 DEF LatchPause, LosePause, Dashboards
  <2>3. ds' \in DriverStates
    BY <1>3 DEF LatchPause, LosePause, DriverStates
  <2> QED
    BY <1>3, <2>1, <2>2, <2>3 DEF LatchPause, LosePause, RequestNamed, ConnectionServed, AttemptLeft
<1>4. CASE Resume
  <2>1. dash' \in Dashboards
    BY <1>4 DEF Resume, Dashboards, DriverStates
  <2> QED
    BY <1>4, <2>1 DEF Resume, RequestNamed, ConnectionServed, AttemptLeft
<1>5. CASE PlayResumes \/ LosePlay
  <2>1. robot' \in Robots
    BY <1>5 DEF PlayResumes, LosePlay, Robots
  <2>2. dash' \in Dashboards
    BY <1>5 DEF PlayResumes, LosePlay, Resumed, Dashboards, OptGoal
  <2>3. ds' \in DriverStates
    BY <1>5 DEF PlayResumes, LosePlay, LatchCleared, DriverStates
  <2> QED
    BY <1>5, <2>1, <2>2, <2>3 DEF PlayResumes, LosePlay, RequestNamed, ConnectionServed, AttemptLeft
<1>6. CASE PlayFallsBack
  <2>1. robot' \in Robots
    BY <1>6 DEF PlayFallsBack, Robots
  <2>2. dash' \in Dashboards
    BY <1>6 DEF PlayFallsBack, Resumed, Dashboards, OptGoal
  <2>3. ds' \in DriverStates
    BY <1>6 DEF PlayFallsBack, LatchCleared, DriverStates
  <2>4. task' \in [Goals -> Tasks] /\ AttemptLeft'
    <3>1. CASE task' = task
      BY <3>1 DEF AttemptLeft
    <3>2. CASE /\ dash.resume \in Goals
               /\ task' = [task EXCEPT ![dash.resume].resume = TRUE]
      <4> DEFINE t == [task[dash.resume] EXCEPT !.resume = TRUE]
      <4>1. task' = [task EXCEPT ![dash.resume] = t]
        BY <3>2
      <4>2. t \in Tasks
        BY <3>2, TaskFields
      <4>3. t.pc = task[dash.resume].pc /\ t.attempt = task[dash.resume].attempt
        BY <3>2 DEF Tasks
      <4> HIDE DEF t
      <4> QED
        BY <3>2, <4>1, <4>2, <4>3, SignalStep
    <3> QED
      BY <1>6, <3>1, <3>2 DEF PlayFallsBack, Dashboards, OptGoal
  <2> QED
    BY <1>6, <2>1, <2>2, <2>3, <2>4 DEF PlayFallsBack, RequestNamed, ConnectionServed
<1> QED
  BY <1>1, <1>2, <1>3, <1>4, <1>5, <1>6 DEF DashboardNext

\* The controller's steps keep the type of every variable.
LEMMA ControllerTypeInv ==
  ASSUME TypeInv, ControllerNext
  PROVE  TypeInv'
<1> USE ConstantsAssumption DEF TypeInv, TypeOK
<1>frame. ASSUME script' \in [Scripts -> ScriptStates], robot' \in Robots,
                 backlog' \in Seq(Scripts),
                 UNCHANGED <<req, ds, cs, task, ss, dash, client>>
          PROVE  TypeInv'
  BY <1>frame DEF RequestNamed, ConnectionServed, AttemptLeft
<1>send. ASSUME NEW s \in Scripts, NEW pc \in ScriptPcs, NEW line \in Lines, Send(s, pc, line)
         PROVE  script' \in [Scripts -> ScriptStates]
  <2>1. Append(script[s].lines, line) \in Seq(Lines)
    BY DEF ScriptStates
  <2> DEFINE t == [[script[s] EXCEPT !.pc = pc] EXCEPT !.lines = Append(script[s].lines, line)]
  <2>2. t \in ScriptStates
    BY <2>1, ScriptFields
  <2>3. script' = [script EXCEPT ![s] = t]
    BY <1>send DEF Send
  <2> HIDE DEF t
  <2> QED
    BY <2>2, <2>3
<1>1. ASSUME NEW s \in Scripts, Dial(s) PROVE TypeInv'
  <2> DEFINE t == [[script[s] EXCEPT !.pc = "dialed"] EXCEPT !.link = "queued"]
  <2>1. script' = [script EXCEPT ![s] = t]
    BY <1>1 DEF Dial
  <2>2. t \in ScriptStates
    BY ScriptFields DEF ScriptPcs
  <2> HIDE DEF t
  <2>3. script' \in [Scripts -> ScriptStates]
    BY <2>1, <2>2
  <2>4. backlog' \in Seq(Scripts)
    BY <1>1 DEF Dial
  <2> QED
    BY <1>1, <1>frame, <2>3, <2>4 DEF Dial
<1>2. ASSUME NEW s \in Scripts, Echo(s) PROVE TypeInv'
  <2>1. "moving" \in ScriptPcs /\ Line("echo", 0) \in Lines
    BY DEF ScriptPcs, Lines, Line
  <2> QED
    BY <1>2, <1>frame, <1>send, <2>1 DEF Echo
<1>3. ASSUME NEW s \in Scripts, GiveUp(s) PROVE TypeInv'
  <2>1. script' \in [Scripts -> ScriptStates]
    BY <1>3, ScriptFields DEF GiveUp, ScriptPcs
  <2>2. robot' \in Robots
    BY <1>3 DEF GiveUp, Stopped, Robots, OptScript
  <2> QED
    BY <1>3, <1>frame, <2>1, <2>2 DEF GiveUp
<1>4. ASSUME NEW s \in Scripts, ReachWaypoint(s) PROVE TypeInv'
  <2>1. script[s].at + 1 \in Nat /\ Line("waypoint", script[s].at) \in Lines
    BY DEF ScriptStates, Lines, Line
  <2>2. Append(script[s].lines, Line("waypoint", script[s].at)) \in Seq(Lines)
    BY <2>1 DEF ScriptStates
  <2> DEFINE t == [[script[s] EXCEPT !.at = script[s].at + 1]
                     EXCEPT !.lines = Append(script[s].lines, Line("waypoint", script[s].at))]
  <2>3. script' = [script EXCEPT ![s] = t]
    BY <1>4 DEF ReachWaypoint
  <2>4. t \in ScriptStates
    BY <2>1, <2>2, ScriptFields
  <2> HIDE DEF t
  <2> QED
    BY <1>4, <1>frame, <2>3, <2>4 DEF ReachWaypoint
<1>5. ASSUME NEW s \in Scripts, FinishMove(s) PROVE TypeInv'
  <2>1. {"done", "failed"} \subseteq ScriptPcs /\ {Line("ok", 0), Line("error", 0)} \subseteq Lines
    BY DEF ScriptPcs, Lines, Line
  <2>2. script' \in [Scripts -> ScriptStates]
    BY <1>5, <1>send, <2>1 DEF FinishMove
  <2>3. robot' \in Robots
    BY <1>5 DEF FinishMove, Stopped, Robots, OptScript
  <2> QED
    BY <1>5, <1>frame, <2>2, <2>3 DEF FinishMove
<1>6. CASE KillProgram
  <2>1. script' \in [Scripts -> ScriptStates]
    BY <1>6, KilledType DEF KillProgram
  <2>2. robot' \in Robots
    BY <1>6 DEF KillProgram, Stopped, Robots, OptScript
  <2> QED
    BY <1>6, <1>frame, <2>1, <2>2 DEF KillProgram
<1> QED
  BY <1>1, <1>2, <1>3, <1>4, <1>5, <1>6 DEF ControllerNext

\* A restart of the driver keeps the type of every variable.
LEMMA RestartTypeInv ==
  ASSUME TypeInv, Restart
  PROVE  TypeInv'
<1> USE ConstantsAssumption DEF TypeInv, TypeOK, Restart
<1>1. req' \in Requests
  BY DEF SeededRequest, Requests, RequestStates
<1>2. ds' \in DriverStates /\ cs' \in CommandServers
  BY DEF NewDriverState, DriverStates, NewCommandServer, CommandServers, RequestStates, OptGoal
<1>3. ss' \in SocketServers /\ dash' \in Dashboards /\ backlog' \in Seq(Scripts)
  BY DEF NewSocketServer, SocketServers, OptScript, OptGoal, NewDashboard, Dashboards
<1>4. \A g \in Goals : task'[g] \in Tasks
  BY TaskFields DEF TaskPcs
<1>5. \A s \in Scripts : script'[s] \in ScriptStates
  BY ScriptFields
<1>6. task' \in [Goals -> Tasks] /\ script' \in [Scripts -> ScriptStates]
  BY <1>4, <1>5
<1>7. RequestNamed' /\ ConnectionServed'
  BY DEF RequestNamed, ConnectionServed, SeededRequest, NewCommandServer, NewSocketServer
<1>8. AttemptLeft'
  BY DEF AttemptLeft, Live, Tasks
<1> QED
  BY <1>1, <1>2, <1>3, <1>6, <1>7, <1>8

\* The invariant is inductive.
LEMMA NextTypeInv == TypeInv /\ [Next]_vars => TypeInv'
<1> SUFFICES ASSUME TypeInv, [Next]_vars PROVE TypeInv'
  OBVIOUS
<1>1. CASE UNCHANGED vars
  BY <1>1 DEF vars, TypeInv, TypeOK, RequestNamed, ConnectionServed, AttemptLeft
<1>2. CASE Next
  BY <1>2, ClientTypeInv, CommandServerTypeInv, HandleRequestTypeInv, SocketServerTypeInv,
     RealtimeReaderTypeInv, DashboardTypeInv, ControllerTypeInv, RestartTypeInv DEF Next
<1> QED
  BY <1>1, <1>2

\* In every reachable state, whatever the faults, every variable is of its type: no
\* index a task uses is outside what it indexes, no count goes below zero.
THEOREM TypeCorrect == Spec => []TypeOK
<1>1. TypeInv => TypeOK
  BY DEF TypeInv
<1> QED
  BY <1>1, InitTypeInv, NextTypeInv, PTL DEF Spec
================================================================================
