------------------------ MODULE RequestIntake_proofs ------------------------
(***************************************************************************)
(* For any number of requests, of any shape.  Of every client, however it  *)
(* submits: types hold, and a command that is handed to the robot is whole.*)
(* Of one that waits for its answer: no failure is lost from the total,    *)
(* and an answer is beside its own result.  Of one that also waits for the *)
(* tasks: the streak of failures is right.                                 *)
(*                                                                         *)
(* fail_request reads a counter and writes it back two awaits later, in    *)
(* whichever task is failing.  With a client that waits no two are ever in *)
(* it: a request has one owner, from the poll that reads its trigger to    *)
(* the write of its terminal state, which comes after the counters, and    *)
(* the next request is not submitted before that.                          *)
(***************************************************************************)
EXTENDS RequestIntake, TLAPS

TaskStates ==
  {"absent", "connect", "run", "succeeded", "publish", "reset", "failing", "teardown", "gone"}
FailPcs == {"no", "read", "total", "streak", "result", "state"}

KeysTyped ==
  keys \in [trigger : BOOLEAN, state : {"initial", "executing", "succeeded", "failed"},
            id : Goals \union {NoGoal}, result : Goals \union {NoGoal}]
CountersTyped == counters \in [total : Nat, streak : Nat]
TaskTyped == task \in [Goals -> TaskStates]
FailingTyped ==
  failing \in [Callers -> [pc : FailPcs, total : Nat, streak : Nat, counted : BOOLEAN]]
ServerTyped ==
  /\ server = [pc |-> server.pc, id |-> server.id, state |-> server.state,
               target |-> server.target, tcp |-> server.tcp, pose |-> server.pose,
               done |-> server.done, seen |-> server.seen]
  /\ server.id \in Goals \union {NoGoal}
HistoryTyped ==
  /\ history = [patience |-> history.patience, asked |-> history.asked,
                moves |-> history.moves, stray |-> history.stray,
                failed |-> history.failed, recent |-> history.recent]
  /\ history.failed \in Nat /\ history.recent \in Nat

Typed ==
  KeysTyped /\ CountersTyped /\ TaskTyped /\ FailingTyped /\ ServerTyped /\ HistoryTyped

------------------------------------------------------------------------------
(***************************************************************************)
(* What holds of every client.                                             *)
(***************************************************************************)
\* Whatever command_server or a task works on has been asked for.
Unasked ==
  /\ keys.state = "initial" /\ ~ keys.trigger /\ server.pc = "poll"
  /\ \A g \in Goals : task[g] = "absent"
  /\ \A c \in Callers : failing[c].pc = "no"
Asked ==
  /\ keys.id = NoGoal => Unasked
  /\ server.pc # "poll" => server.id \in Goals

Base == Typed /\ Asked

\* Nothing is asked for at first.
LEMMA InitBase == Init => Base
BY IntakeAssumption DEF Init, Base, Typed, KeysTyped, CountersTyped, TaskTyped, FailingTyped,
     ServerTyped, HistoryTyped, TaskStates, FailPcs, NewServer, NotFailing, Asked, Unasked

\* What the client, and whoever moves frames, may do.
LEMMA ClientBase ==
  ASSUME Base, \/ \E g \in Goals : Submit(g)
               \/ StrayTrigger
               \/ \E p \in Places, pose \in Poses \union {Absent} : MoveFrame(p, pose)
  PROVE  Base'
<1>1. CASE \E g \in Goals : Submit(g)
  <2>1. PICK g \in Goals : Submit(g)
    BY <1>1
  <2>2. /\ UNCHANGED <<counters, server, task, failing>> /\ Typed
        /\ keys' = [keys EXCEPT !.trigger = TRUE, !.state = "initial", !.id = g]
        /\ history' = [history EXCEPT !.asked = @ \union {g}]
    BY <2>1 DEF Submit, Base
  <2>3. KeysTyped' /\ keys'.id = g
    BY <2>2 DEF Typed, KeysTyped
  <2>4. HistoryTyped'
    BY <2>2 DEF Typed, HistoryTyped
  <2> QED
    BY <2>2, <2>3, <2>4, IntakeAssumption DEF Base, Typed, CountersTyped, TaskTyped,
         FailingTyped, ServerTyped, Asked
<1>2. CASE StrayTrigger
  BY <1>2 DEF Base, StrayTrigger, Typed, KeysTyped, CountersTyped, TaskTyped, FailingTyped,
       ServerTyped, HistoryTyped, Asked, Unasked
<1>3. CASE \E p \in Places, pose \in Poses \union {Absent} : MoveFrame(p, pose)
  BY <1>3 DEF Base, MoveFrame, Typed, KeysTyped, CountersTyped, TaskTyped, FailingTyped,
       ServerTyped, HistoryTyped, Asked, Unasked
<1> QED
  BY <1>1, <1>2, <1>3

\* A place in fail_request is written where it should be.
LEMMA GotoFacts ==
  ASSUME FailingTyped, NEW c \in Callers, NEW pc \in FailPcs, Goto(c, pc)
  PROVE  /\ FailingTyped'
         /\ failing'[c].pc = pc
         /\ failing'[c].total = failing[c].total /\ failing'[c].streak = failing[c].streak
         /\ failing'[c].counted = failing[c].counted
         /\ \A d \in Callers \ {c} : failing'[d] = failing[d]
BY DEF FailingTyped, Goto

\* So is what was read of the counters, or that it could not be.
LEMMA CountersReadFacts ==
  ASSUME FailingTyped, CountersTyped, NEW c \in Callers, CountersRead(c)
  PROVE  /\ FailingTyped' /\ failing[c].pc = "read"
         /\ \A d \in Callers \ {c} : failing'[d] = failing[d]
         /\ \/ /\ failing'[c].pc = "total" /\ failing'[c].total = counters.total
               /\ failing'[c].streak = counters.streak /\ failing'[c].counted = failing[c].counted
            \/ failing'[c].pc = "result" /\ ~ failing'[c].counted
BY DEF FailingTyped, CountersTyped, CountersRead, FailPcs

\* An answer adds to the count of failures, and to the streak or to none.
LEMMA AnswerFacts ==
  ASSUME HistoryTyped, NEW state \in Terminal, NEW new \in Nat, Answer(state, new)
  PROVE  /\ HistoryTyped' /\ history'.failed = history.failed + new
         /\ history'.recent = IF state = "succeeded" THEN 0 ELSE history.recent + new
         /\ history'.patience = history.patience
<1> DEFINE recent == IF state = "succeeded" THEN 0 ELSE history.recent + new
<1>1. recent \in Nat /\ history.failed + new \in Nat
  BY DEF HistoryTyped
<1>2. history' = [history EXCEPT !.failed = @ + new, !.recent = recent]
  BY DEF Answer, HistoryTyped
<1>3. history' = [patience |-> history.patience, asked |-> history.asked,
                  moves |-> history.moves, stray |-> history.stray,
                  failed |-> history.failed + new, recent |-> recent]
  BY <1>2 DEF HistoryTyped
<1>4. history'.recent = recent
  BY <1>3
<1> HIDE DEF recent
<1>5. HistoryTyped'
  BY <1>1, <1>3 DEF HistoryTyped
<1> QED
  BY <1>3, <1>4, <1>5 DEF recent

\* One task moves.
LEMMA ToFacts ==
  ASSUME TaskTyped, NEW g \in Goals, NEW pc \in TaskStates, To(g, pc)
  PROVE  TaskTyped' /\ task'[g] = pc /\ \A h \in Goals \ {g} : task'[h] = task[h]
BY DEF TaskTyped, To

\* fail_request.
LEMMA FailRequestBase ==
  ASSUME Base, NEW c \in Callers, FailRequest(c)
  PROVE  Base'
<1>0. Typed /\ failing[c].pc # "no" /\ keys.id \in Goals
  BY DEF Base, Asked, Unasked, FailRequest, ReadCounters, CountersRead, WriteTotal, WriteStreak,
       WriteResult, WriteFailed, Typed, KeysTyped
<1>1. CASE ReadCounters(c)
  BY <1>0, <1>1, CountersReadFacts, IntakeAssumption DEF Base, ReadCounters, Typed, KeysTyped,
       CountersTyped, TaskTyped, ServerTyped, HistoryTyped, Asked
<1>2. CASE WriteTotal(c) \/ WriteStreak(c)
  <2>1. FailingTyped' /\ UNCHANGED <<keys, server, task, history>>
    BY <1>0, <1>2, GotoFacts DEF WriteTotal, WriteStreak, Typed, FailPcs
  <2>2. CountersTyped'
    BY <1>0, <1>2 DEF WriteTotal, WriteStreak, Typed, CountersTyped, FailingTyped
  <2> QED
    BY <1>0, <2>1, <2>2, IntakeAssumption DEF Base, Typed, KeysTyped, TaskTyped, ServerTyped,
         HistoryTyped, Asked
<1>3. CASE WriteResult(c)
  <2>1. FailingTyped' /\ UNCHANGED <<counters, server, task, history>>
    BY <1>0, <1>3, GotoFacts DEF WriteResult, Typed, FailPcs
  <2>2. Subject(c) \in Goals \union {NoGoal}
    BY <1>0 DEF Subject, Callers, Typed, ServerTyped
  <2>3. KeysTyped' /\ keys'.id = keys.id
    BY <1>0, <1>3, <2>2 DEF WriteResult, Typed, KeysTyped
  <2> QED
    BY <1>0, <2>1, <2>3, IntakeAssumption DEF Base, Typed, CountersTyped, TaskTyped,
         ServerTyped, HistoryTyped, Asked
<1>4. CASE WriteFailed(c)
  <2> DEFINE new == IF failing[c].counted THEN 1 ELSE 0
  <2>1. Answer("failed", new) /\ new \in Nat
    BY <1>4 DEF WriteFailed
  <2>2. HistoryTyped'
    BY <1>0, <2>1, AnswerFacts DEF Typed, Terminal
  <2>3. KeysTyped' /\ keys'.id = keys.id
    BY <1>0, <2>1 DEF Answer, Typed, KeysTyped
  <2>4. FailingTyped' /\ counters' = counters
    BY <1>0, <1>4 DEF WriteFailed, Typed, FailingTyped, NotFailing, FailPcs
  <2>5. \/ server' = NewServer /\ task' = task
        \/ c \in Goals /\ server' = server /\ task' = [task EXCEPT ![c] = "teardown"]
    BY <1>4 DEF WriteFailed, Callers
  <2>6. TaskTyped' /\ ServerTyped' /\ (server'.pc # "poll" => server'.id \in Goals)
    BY <1>0, <2>5 DEF Base, Asked, Typed, TaskTyped, TaskStates, ServerTyped, NewServer
  <2> QED
    BY <1>0, <2>2, <2>3, <2>4, <2>6, IntakeAssumption DEF Base, Typed, CountersTyped, Asked
<1> QED
  BY <1>1, <1>2, <1>3, <1>4 DEF FailRequest

\* command_server.
LEMMA CommandServerBase ==
  ASSUME Base, CommandServerStep
  PROVE  Base'
<1>0. Typed /\ ServerTyped /\ FailingTyped /\ UNCHANGED <<counters, history>>
  BY DEF Base, Typed, CommandServerStep, ReadRequest, ConsumeTrigger, CheckCommand, LookupGoal,
       LookupTool, Lookup, DecodeWaypoints, TakeWaypoint, ResolveTarget, ResolveTool, Admit,
       WriteExecuting, SpawnGoal
<1>1. CASE ReadRequest
  BY <1>0, <1>1, IntakeAssumption DEF Base, ReadRequest, NewServer, Typed, KeysTyped,
       CountersTyped, TaskTyped, HistoryTyped, ServerTyped, FailingTyped, Asked, Unasked
<1>2. ASSUME server.pc # "poll"
      PROVE  keys.id \in Goals /\ server.id \in Goals
  BY <1>0, <1>2 DEF Base, Asked, Unasked, Typed, KeysTyped
<1>3. ASSUME server.pc # "poll", TaskTyped', FailingTyped', KeysTyped', keys'.id = keys.id,
             server' = NewServer \/ (ServerTyped' /\ server'.id = server.id)
      PROVE  Base'
  <2>1. ServerTyped' /\ (server'.pc # "poll" => server'.id \in Goals)
    BY <1>0, <1>2, <1>3 DEF ServerTyped, NewServer
  <2> QED
    BY <1>0, <1>2, <1>3, <2>1, IntakeAssumption DEF Base, Typed, CountersTyped, HistoryTyped,
         Asked
<1>4. CASE ConsumeTrigger
  <2>1. server.pc # "poll" /\ UNCHANGED <<task, failing>>
    BY <1>4 DEF ConsumeTrigger
  <2>2. KeysTyped' /\ keys'.id = keys.id
    BY <1>0, <1>4 DEF ConsumeTrigger, Typed, KeysTyped
  <2>3. server' = NewServer \/ (ServerTyped' /\ server'.id = server.id)
    BY <1>0, <1>4 DEF ConsumeTrigger, At, ServerTyped
  <2> QED
    BY <1>0, <1>3, <2>1, <2>2, <2>3 DEF Typed, TaskTyped, FailingTyped
<1>5. CASE WriteExecuting
  <2>1. server.pc # "poll" /\ UNCHANGED <<task, failing>>
    BY <1>5 DEF WriteExecuting
  <2>2. KeysTyped' /\ keys'.id = keys.id
    BY <1>0, <1>5 DEF WriteExecuting, Typed, KeysTyped
  <2>3. ServerTyped' /\ server'.id = server.id
    BY <1>0, <1>5 DEF WriteExecuting, At, ServerTyped
  <2> QED
    BY <1>0, <1>3, <2>1, <2>2, <2>3 DEF Typed, TaskTyped, FailingTyped
<1>6. CASE SpawnGoal
  <2>1. server.pc # "poll" /\ server' = NewServer /\ UNCHANGED <<keys, failing>>
    BY <1>6 DEF SpawnGoal
  <2>2. TaskTyped'
    BY <1>0, <1>6 DEF SpawnGoal, Typed, TaskTyped, TaskStates
  <2> QED
    BY <1>0, <1>3, <2>1, <2>2 DEF Typed, KeysTyped, FailingTyped
<1>7. ASSUME server.pc # "poll", UNCHANGED <<keys, task>>,
             \/ Refuse
             \/ UNCHANGED failing /\ ServerTyped' /\ server'.id = server.id
      PROVE  Base'
  <2>1. CASE Refuse
    <3>1. FailingTyped'
      BY <1>0, <2>1, GotoFacts DEF Refuse, FailPcs, Callers
    <3>2. ServerTyped' /\ server'.id = server.id
      BY <1>0, <2>1 DEF Refuse, At, ServerTyped
    <3> QED
      BY <1>0, <1>3, <1>7, <3>1, <3>2 DEF Typed, TaskTyped, KeysTyped
  <2>2. CASE UNCHANGED failing /\ ServerTyped' /\ server'.id = server.id
    BY <1>0, <1>3, <1>7, <2>2 DEF Typed, TaskTyped, KeysTyped, FailingTyped
  <2> QED
    BY <1>7, <2>1, <2>2
<1>8. CASE CheckCommand
  BY <1>0, <1>7, <1>8 DEF CheckCommand, At, ServerTyped
<1>9. CASE LookupGoal
  BY <1>0, <1>7, <1>9 DEF LookupGoal, Lookup, ServerTyped
<1>10. CASE LookupTool
  BY <1>0, <1>7, <1>10 DEF LookupTool, Lookup, ServerTyped
<1>11. CASE DecodeWaypoints
  BY <1>0, <1>7, <1>11 DEF DecodeWaypoints, At, ServerTyped
<1>12. CASE TakeWaypoint
  BY <1>0, <1>7, <1>12 DEF TakeWaypoint, Unresolved, ServerTyped
<1>13. CASE ResolveTarget
  BY <1>0, <1>7, <1>13 DEF ResolveTarget, Lookup, Unresolved, ServerTyped
<1>14. CASE ResolveTool
  BY <1>0, <1>7, <1>14 DEF ResolveTool, Lookup, ServerTyped
<1>15. CASE Admit
  BY <1>0, <1>7, <1>15 DEF Admit, ServerTyped
<1> QED
  BY <1>1, <1>4, <1>5, <1>6, <1>8, <1>9, <1>10, <1>11, <1>12, <1>13, <1>14,
     <1>15 DEF CommandServerStep

\* A goal's task.
LEMMA TaskStepBase ==
  ASSUME Base, NEW g \in Goals, TaskStep(g)
  PROVE  Base'
<1>0. Typed /\ task[g] # "absent" /\ UNCHANGED server
  BY DEF Base, TaskStep, InstallGoal, EndGoal, PublishResult, PublishSucceeded, ResetStreak,
       Teardown
<1>1. keys.id \in Goals
  BY <1>0 DEF Base, Asked, Unasked, Typed, KeysTyped
<1>2. PICK pc \in TaskStates : To(g, pc)
  BY DEF TaskStep, InstallGoal, EndGoal, PublishResult, PublishSucceeded, ResetStreak, Teardown,
       Fails, TaskStates
<1>3. TaskTyped'
  BY <1>0, <1>2, ToFacts DEF Typed
<1>4. FailingTyped'
  <2>1. UNCHANGED failing \/ Goto(g, "read")
    BY DEF TaskStep, InstallGoal, EndGoal, PublishResult, PublishSucceeded, ResetStreak,
         Teardown, Fails
  <2> QED
    BY <1>0, <2>1, GotoFacts DEF Typed, FailingTyped, FailPcs, Callers
<1>5. CountersTyped'
  BY <1>0 DEF TaskStep, InstallGoal, EndGoal, PublishResult, PublishSucceeded, ResetStreak,
       AfterSuccess, Teardown, Typed, CountersTyped
<1>6. KeysTyped' /\ HistoryTyped' /\ keys'.id = keys.id
  <2>1. CASE UNCHANGED <<keys, history>>
    BY <1>0, <2>1 DEF Typed, KeysTyped, HistoryTyped
  <2>2. CASE PublishResult(g)
    BY <1>0, <2>2 DEF PublishResult, Typed, KeysTyped, HistoryTyped
  <2>3. CASE PublishSucceeded(g)
    <3>1. Answer("succeeded", 0)
      BY <2>3 DEF PublishSucceeded
    <3>2. HistoryTyped'
      BY <1>0, <3>1, AnswerFacts DEF Typed, Terminal
    <3> QED
      BY <1>0, <3>1, <3>2 DEF Answer, Typed, KeysTyped
  <2> QED
    BY <2>1, <2>2, <2>3 DEF TaskStep, InstallGoal, EndGoal, ResetStreak, Teardown
<1> QED
  BY <1>0, <1>1, <1>3, <1>4, <1>5, <1>6, IntakeAssumption DEF Base, Typed, ServerTyped, Asked

\* Every step, of any client.
LEMMA BaseKeeps ==
  ASSUME Base, [Next]_vars
  PROVE  Base'
<1>1. CASE UNCHANGED vars
  BY <1>1 DEF vars, Base, Typed, KeysTyped, CountersTyped, TaskTyped, FailingTyped, ServerTyped,
       HistoryTyped, Asked, Unasked
<1> QED
  BY <1>1, ClientBase, FailRequestBase, CommandServerBase, TaskStepBase DEF Next

\* A client does not change its habit.
LEMMA PatienceStays ==
  ASSUME Base, [Next]_vars
  PROVE  history'.patience = history.patience
<1>0. HistoryTyped
  BY DEF Base, Typed
<1>1. CASE \/ history' = history
           \/ \E g \in Goals : history' = [history EXCEPT !.asked = @ \union {g}]
           \/ history' = [history EXCEPT !.stray = @ + 1]
           \/ history' = [history EXCEPT !.moves = @ + 1]
  BY <1>0, <1>1 DEF HistoryTyped
<1>2. CASE \E state \in Terminal, new \in {0, 1} : Answer(state, new)
  BY <1>0, <1>2, AnswerFacts
<1> QED
  BY <1>1, <1>2 DEF Next, vars, Submit, StrayTrigger, MoveFrame, FailRequest, ReadCounters,
       WriteTotal, WriteStreak, WriteResult, WriteFailed, CommandServerStep, ReadRequest,
       ConsumeTrigger, CheckCommand, LookupGoal, LookupTool, Lookup, DecodeWaypoints,
       TakeWaypoint, ResolveTarget, ResolveTool, Admit, WriteExecuting, SpawnGoal, TaskStep,
       InstallGoal, EndGoal, PublishResult, PublishSucceeded, ResetStreak, Teardown, Terminal

------------------------------------------------------------------------------
(***************************************************************************)
(* The inductive invariant, for a client that waits.                       *)
(***************************************************************************)
\* Where a request is decided on, and where its goal has not yet answered it.
Work == {"decode", "goal", "tool", "waypoints", "resolve", "resolve_tool"}
Busy == {"connect", "run", "succeeded", "publish", "failing"}

ServerOwns ==
  \/ server.pc = "consume" /\ server.state = "initial"
  \/ server.pc \in Work \union {"execute", "spawn", "failing"}
Owns(c) == IF c = "server" THEN ServerOwns ELSE task[c] \in Busy

Waiting == keys.trigger /\ keys.state = "initial"
Open == keys.id \in Goals /\ keys.state \in {"initial", "executing"}

OneOwner ==
  /\ server.pc \in Work \union {"poll", "consume", "execute", "spawn", "failing"}
  /\ Waiting => keys.id \in Goals
  /\ \A c \in Callers : Owns(c) =>
       /\ Open /\ Subject(c) = keys.id
       /\ Waiting => c = "server" /\ server.pc = "consume"
  /\ \A c, d \in Callers : Owns(c) /\ Owns(d) => c = d

InFailRequest(c) == IF c = "server" THEN server.pc = "failing" ELSE task[c] = "failing"
FailsInPlace == \A c \in Callers : failing[c].pc # "no" <=> InFailRequest(c)

\* The total is behind the answers only for one that is about to be given.
Ahead == {"streak", "result", "state"}
One(c) == IF failing[c].counted THEN 1 ELSE 0
Counted ==
  /\ (\A c \in Callers : failing[c].pc \notin Ahead) => counters.total = history.failed
  /\ \A c \in Callers : failing[c].pc \in Ahead => counters.total = history.failed + One(c)
  /\ \A c \in Callers : failing[c].pc = "total" => failing[c].total = counters.total
  /\ \A c \in Callers : failing[c].pc \in {"no", "read", "total", "streak"} => failing[c].counted

OwnResult == keys.state \in Terminal => keys.result = keys.id
ResultFirst ==
  /\ \A c \in Callers : failing[c].pc = "state" => keys.result = Subject(c)
  /\ \A g \in Goals : task[g] = "publish" => keys.result = g
  /\ OwnResult

Inv == Typed /\ OneOwner /\ FailsInPlace /\ Counted /\ ResultFirst

\* Nothing is asked for, owned or failing at first.
LEMMA InitInv == Init => Inv
<1> SUFFICES ASSUME Init PROVE Inv
  OBVIOUS
<1>1. Typed
  BY DEF Init, Typed, KeysTyped, CountersTyped, TaskTyped, FailingTyped, ServerTyped,
       HistoryTyped, TaskStates, FailPcs, NewServer, NotFailing
<1>2. OneOwner
  BY DEF Init, OneOwner, NewServer, Owns, ServerOwns, Work, Busy, Callers, Waiting
<1>3. FailsInPlace
  BY DEF Init, FailsInPlace, InFailRequest, NewServer, NotFailing, Callers
<1>4. Counted
  BY DEF Init, Counted, Ahead, NotFailing
<1>5. ResultFirst
  BY DEF Init, ResultFirst, OwnResult, NotFailing
<1> QED
  BY <1>1, <1>2, <1>3, <1>4, <1>5 DEF Inv

------------------------------------------------------------------------------
(***************************************************************************)
(* Two facts about owners.                                                 *)
(***************************************************************************)
\* Whoever is in fail_request owns the request, so nobody else is.
LEMMA FailingOwns ==
  ASSUME Inv, NEW c \in Callers, failing[c].pc # "no"
  PROVE  Owns(c) /\ \A d \in Callers \ {c} : ~ Owns(d) /\ failing[d].pc = "no"
<1>1. \A d \in Callers : failing[d].pc # "no" => Owns(d)
  BY DEF Inv, FailsInPlace, InFailRequest, Owns, ServerOwns, Busy
<1> QED
  BY <1>1 DEF Inv, OneOwner

\* So is a goal that has not answered yet, and then nobody is in fail_request but it.
LEMMA BusyOwns ==
  ASSUME Inv, NEW g \in Goals, task[g] \in Busy
  PROVE  /\ Owns(g) /\ Open /\ keys.id = g
         /\ \A d \in Callers \ {g} : ~ Owns(d) /\ failing[d].pc = "no"
<1>1. g \in Callers /\ g # "server"
  BY IntakeAssumption DEF Callers
<1>2. Owns(g)
  BY <1>1 DEF Owns
<1>3. \A d \in Callers : failing[d].pc # "no" => Owns(d)
  BY FailingOwns
<1> QED
  BY <1>1, <1>2, <1>3 DEF Inv, OneOwner, Subject

------------------------------------------------------------------------------
(***************************************************************************)
(* Every step keeps the invariant.                                         *)
(***************************************************************************)
\* A request is submitted when the last one has its answer, so nobody owns it.
LEMMA SubmitKeeps ==
  ASSUME Inv, Waits, NEW g \in Goals, Submit(g)
  PROVE  Inv'
<1>1. Typed'
  BY DEF Inv, Submit, Typed, KeysTyped, CountersTyped, TaskTyped, FailingTyped, ServerTyped,
       HistoryTyped, TaskStates, FailPcs
<1>2. OneOwner'
  BY IntakeAssumption DEF Inv, Submit, Answered, OneOwner, Owns, ServerOwns, Subject, Open,
       Waiting, Callers, Work, Busy, Terminal
<1>3. FailsInPlace'
  BY DEF Inv, Submit, FailsInPlace, InFailRequest, Callers, Work
<1>4. Counted'
  BY DEF One, Inv, Submit, Counted, Ahead
<1>5. ResultFirst'
  BY DEF Inv, Submit, ResultFirst, OwnResult, Subject, Callers, Terminal, FailsInPlace,
       InFailRequest, OneOwner, Owns, ServerOwns, Open, Work, Busy
<1> QED
  BY <1>1, <1>2, <1>3, <1>4, <1>5 DEF Inv

\* A stray trigger is never beside the state "initial".
LEMMA StrayKeeps ==
  ASSUME Inv, StrayTrigger
  PROVE  Inv'
<1>1. Typed'
  BY DEF Inv, StrayTrigger, Typed, KeysTyped, CountersTyped, TaskTyped, FailingTyped,
       ServerTyped, HistoryTyped, TaskStates, FailPcs
<1>2. OneOwner'
  BY DEF Inv, StrayTrigger, OneOwner, Owns, ServerOwns, Subject, Open, Waiting, Callers, Work,
       Busy
<1>3. FailsInPlace'
  BY DEF Inv, StrayTrigger, FailsInPlace, InFailRequest, Work
<1>4. Counted'
  BY DEF One, Inv, StrayTrigger, Counted
<1>5. ResultFirst'
  BY DEF Inv, StrayTrigger, ResultFirst, OwnResult, Subject, Callers, Terminal
<1> QED
  BY <1>1, <1>2, <1>3, <1>4, <1>5 DEF Inv

\* The TF tree is nobody's request.
LEMMA MoveKeeps ==
  ASSUME Inv, NEW p \in Places, NEW pose, MoveFrame(p, pose)
  PROVE  Inv'
<1>1. Typed'
  BY DEF Inv, MoveFrame, Typed, KeysTyped, CountersTyped, TaskTyped, FailingTyped, ServerTyped,
       HistoryTyped, TaskStates, FailPcs
<1>2. OneOwner'
  BY DEF Inv, MoveFrame, OneOwner, Owns, ServerOwns, Subject, Open, Waiting, Callers, Work, Busy
<1>3. FailsInPlace'
  BY DEF Inv, MoveFrame, FailsInPlace, InFailRequest, Callers, Work
<1>4. Counted'
  BY DEF One, Inv, MoveFrame, Counted, Ahead
<1>5. ResultFirst'
  BY DEF Inv, MoveFrame, ResultFirst, OwnResult, Subject, Callers, Terminal
<1> QED
  BY <1>1, <1>2, <1>3, <1>4, <1>5 DEF Inv

\* A trigger that is read beside "initial" makes command_server the owner.
LEMMA ReadRequestKeeps ==
  ASSUME Inv, ReadRequest
  PROVE  Inv'
<1>1. Typed'
  BY DEF Inv, ReadRequest, NewServer, Typed, KeysTyped, CountersTyped, TaskTyped, FailingTyped,
       ServerTyped, HistoryTyped, TaskStates, FailPcs
<1>2. OneOwner'
  BY DEF Inv, ReadRequest, OneOwner, Owns, ServerOwns, Subject, Open, Waiting, Callers, Work,
       Busy
<1>3. FailsInPlace'
  BY DEF Inv, ReadRequest, FailsInPlace, InFailRequest, Callers, Work
<1>4. Counted'
  BY DEF One, Inv, ReadRequest, Counted, Ahead
<1>5. ResultFirst'
  BY DEF Inv, ReadRequest, ResultFirst, OwnResult, Subject, Callers, Terminal,
       FailsInPlace, InFailRequest
<1> QED
  BY <1>1, <1>2, <1>3, <1>4, <1>5 DEF Inv

\* The trigger is gone; the owner stays, or there was none.
LEMMA ConsumeKeeps ==
  ASSUME Inv, ConsumeTrigger
  PROVE  Inv'
<1> DEFINE Kept == server.state = "initial" /\ server' = [server EXCEPT !.pc = "decode"]
           Dropped == server.state # "initial" /\ server' = NewServer
<1>0. Kept \/ Dropped
  BY DEF ConsumeTrigger, At
<1>1. Typed'
  <2>1. keys' \in [trigger : BOOLEAN, state : {"initial", "executing", "succeeded", "failed"},
                  id : Goals \union {NoGoal}, result : Goals \union {NoGoal}]
    BY DEF Inv, Typed, KeysTyped, ConsumeTrigger
  <2>2. CASE Kept
    BY <2>1, <2>2 DEF Inv, Typed, KeysTyped, CountersTyped, TaskTyped, FailingTyped,
         ServerTyped, HistoryTyped, TaskStates, FailPcs, ConsumeTrigger
  <2>3. CASE Dropped
    BY <2>1, <2>3 DEF Inv, Typed, KeysTyped, CountersTyped, TaskTyped, FailingTyped,
         ServerTyped, HistoryTyped, TaskStates, FailPcs, ConsumeTrigger, NewServer
  <2> QED
    BY <1>0, <2>2, <2>3
<1>2. OneOwner'
  BY <1>0, IntakeAssumption DEF Inv, ConsumeTrigger, Typed, TaskTyped, FailingTyped,
       ServerTyped, HistoryTyped, OneOwner, Owns, ServerOwns, Subject, Open, Waiting, Callers,
       Work, Busy, NewServer
<1>3. FailsInPlace'
  BY <1>0 DEF Inv, ConsumeTrigger, Typed, TaskTyped, FailingTyped, ServerTyped, HistoryTyped,
       FailsInPlace, InFailRequest, Callers, Work, NewServer
<1>4. Counted'
  BY <1>0 DEF One, Inv, ConsumeTrigger, Counted
<1>5. ResultFirst'
  BY <1>0 DEF Inv, ConsumeTrigger, ResultFirst, OwnResult, Subject, Callers, Terminal,
       NewServer, FailsInPlace, InFailRequest
<1> QED
  BY <1>1, <1>2, <1>3, <1>4, <1>5 DEF Inv

\* While a request is decided on it stays with command_server.
LEMMA WorkKeeps ==
  ASSUME Inv, server.pc \in Work, server'.pc \in Work \union {"execute"},
         server' = [pc |-> server'.pc, id |-> server.id, state |-> server'.state,
                    target |-> server'.target, tcp |-> server'.tcp, pose |-> server'.pose,
                    done |-> server'.done, seen |-> server'.seen],
         UNCHANGED <<keys, counters, task, failing, history>>
  PROVE  Inv'
<1>1. Typed'
  BY DEF Inv, Typed, Typed, KeysTyped, CountersTyped, TaskTyped, FailingTyped, ServerTyped,
       HistoryTyped, TaskStates, FailPcs
<1>2. OneOwner'
  BY DEF Inv, OneOwner, Owns, ServerOwns, Subject, Open, Waiting, Callers, Work, Busy
<1>3. FailsInPlace'
  BY DEF Inv, FailsInPlace, InFailRequest, Work
<1>4. Counted'
  BY DEF One, Inv, Counted
<1>5. ResultFirst'
  BY DEF Inv, ResultFirst, OwnResult, Subject, Terminal
<1> QED
  BY <1>1, <1>2, <1>3, <1>4, <1>5 DEF Inv

\* A refusal is the start of fail_request.
LEMMA RefuseKeeps ==
  ASSUME Inv, server.pc \in Work, Refuse, UNCHANGED <<keys, counters, task, history>>
  PROVE  Inv'
<1>1. Typed /\ server' = [server EXCEPT !.pc = "failing"]
  BY DEF Inv, Refuse, At
<1>2. ServerTyped' /\ server'.pc = "failing" /\ server'.id = server.id
  BY <1>1 DEF Typed, ServerTyped
<1>3. /\ FailingTyped' /\ failing'["server"].pc = "read"
      /\ failing'["server"].counted = failing["server"].counted
      /\ \A d \in Goals : failing'[d] = failing[d]
  BY <1>1, GotoFacts, IntakeAssumption DEF Refuse, Typed, FailPcs, Callers
<1>4. "server" \in Callers /\ ServerOwns /\ Owns("server")
  BY DEF ServerOwns, Owns, Callers
<1>5. \A c \in Callers : failing[c].pc = "no"
  BY <1>4, FailingOwns DEF Inv, FailsInPlace, InFailRequest, Work
<1>6. \A d \in Goals : failing'[d].pc = "no"
  BY <1>3, <1>5 DEF Callers
<1>7. Typed'
  BY <1>1, <1>2, <1>3 DEF Typed, KeysTyped, CountersTyped, TaskTyped, HistoryTyped
<1>8. OneOwner'
  <2>1. ServerOwns'
    BY <1>2 DEF ServerOwns
  <2>2. \A c \in Callers : (Owns(c)' <=> Owns(c)) /\ (c = "server" \/ c \in Goals)
    BY <1>4, <2>1 DEF Owns, Callers
  <2>3. \A c \in Callers : Subject(c)' = Subject(c)
    BY <1>2 DEF Subject
  <2>4. ~ Waiting
    BY <1>4 DEF Inv, OneOwner, Work
  <2> QED
    BY <1>2, <2>2, <2>3, <2>4 DEF Inv, OneOwner, Open, Waiting
<1>9. FailsInPlace'
  BY <1>2, <1>3, <1>5, <1>6, IntakeAssumption DEF Inv, FailsInPlace, InFailRequest, Callers
<1>10. Counted'
  <2>1. counters.total = history.failed /\ \A c \in Callers : failing[c].counted
    BY <1>5 DEF Inv, Counted, Ahead
  <2>2. \A c \in Callers : failing'[c].pc \in {"no", "read"} /\ failing'[c].counted
    BY <1>3, <1>6, <2>1 DEF Callers
  <2> QED
    BY <2>1, <2>2 DEF Counted, Ahead
<1>11. ResultFirst'
  <2>1. \A c \in Callers : failing'[c].pc # "state"
    BY <1>3, <1>6 DEF Callers
  <2> QED
    BY <2>1 DEF Inv, ResultFirst, OwnResult
<1> QED
  BY <1>7, <1>8, <1>9, <1>10, <1>11 DEF Inv

\* "executing" is still unanswered.
LEMMA ExecuteKeeps ==
  ASSUME Inv, WriteExecuting
  PROVE  Inv'
<1>1. Typed'
  BY DEF Inv, WriteExecuting, At, Typed, KeysTyped, CountersTyped, TaskTyped, FailingTyped,
       ServerTyped, HistoryTyped, TaskStates, FailPcs
<1>2. OneOwner'
  BY DEF Inv, WriteExecuting, At, OneOwner, Owns, ServerOwns, Subject, Open, Waiting, Callers,
       Work, Busy
<1>3. FailsInPlace'
  BY DEF Inv, WriteExecuting, At, FailsInPlace, InFailRequest, Callers, Work
<1>4. Counted'
  BY DEF One, Inv, WriteExecuting, Counted, Ahead
<1>5. ResultFirst'
  BY DEF Inv, WriteExecuting, ResultFirst, OwnResult, Subject, Callers, Terminal,
       FailsInPlace, InFailRequest
<1> QED
  BY <1>1, <1>2, <1>3, <1>4, <1>5 DEF Inv

\* The request goes from command_server to the task it spawns.
LEMMA SpawnKeeps ==
  ASSUME Inv, SpawnGoal
  PROVE  Inv'
<1>a. "server" \in Callers /\ Owns("server")
  BY DEF Owns, ServerOwns, SpawnGoal, Callers
<1>b. Open /\ server.id = keys.id /\ ~ Waiting
  BY <1>a DEF Inv, OneOwner, Subject, SpawnGoal
<1>c. \A c \in Goals : ~ Owns(c) /\ task[c] \notin Busy
  BY <1>a, IntakeAssumption DEF Inv, OneOwner, Owns, Callers
<1>0. server.id \in Goals /\ server.id = keys.id /\ Open /\ ~ Waiting
      /\ \A c \in Goals : ~ Owns(c) /\ task[c] \notin Busy
  BY <1>b, <1>c DEF Open
<1>1. Typed'
  BY <1>0, IntakeAssumption DEF Inv, SpawnGoal, NewServer, Typed, KeysTyped, CountersTyped,
       TaskTyped, FailingTyped, ServerTyped, HistoryTyped, TaskStates, FailPcs
<1>2. OneOwner'
  BY <1>0 DEF Inv, SpawnGoal, NewServer, OneOwner, Owns, ServerOwns, Subject, Open, Waiting,
       Callers, Work, Busy
<1>3. FailsInPlace'
  BY <1>0 DEF Inv, SpawnGoal, NewServer, FailsInPlace, InFailRequest, Callers, Work, Busy
<1>4. Counted'
  BY <1>0 DEF One, Inv, SpawnGoal, Counted, Ahead
<1>5. ResultFirst'
  BY <1>0 DEF Inv, SpawnGoal, ResultFirst, OwnResult, Subject, Callers, Terminal,
       FailsInPlace, InFailRequest
<1> QED
  BY <1>1, <1>2, <1>3, <1>4, <1>5 DEF Inv

------------------------------------------------------------------------------
(***************************************************************************)
(* fail_request.                                                           *)
(***************************************************************************)
\* Owners are told from where the tasks are and from the keys but the result.
LEMMA OwnersStay ==
  ASSUME Inv, UNCHANGED <<server, task>>,
         keys'.trigger = keys.trigger, keys'.state = keys.state, keys'.id = keys.id
  PROVE  OneOwner'
BY DEF Inv, OneOwner, Owns, ServerOwns, Subject, Open, Waiting

\* Whoever is in fail_request is alone in it, owns the request, and goes on to a place
\* in it: the others have not moved.
LEMMA FailRequestAlone ==
  ASSUME Inv, NEW c \in Callers, failing[c].pc # "no"
  PROVE  /\ Owns(c) /\ InFailRequest(c) /\ Open /\ Subject(c) = keys.id
         /\ \A d \in Callers \ {c} : ~ Owns(d) /\ failing[d].pc = "no"
BY FailingOwns DEF Inv, OneOwner, FailsInPlace

\* One that stays in fail_request leaves everybody in his place.
LEMMA FailsInPlaceStays ==
  ASSUME Inv, NEW c \in Callers, failing[c].pc # "no", failing'[c].pc # "no",
         \A d \in Callers \ {c} : failing'[d] = failing[d], UNCHANGED <<server, task>>
  PROVE  FailsInPlace'
BY DEF Inv, FailsInPlace, InFailRequest

\* What is read is the total: nobody else is between a read and a write.
LEMMA ReadCountersKeeps ==
  ASSUME Inv, NEW c \in Callers, ReadCounters(c)
  PROVE  Inv'
<1>1. CountersRead(c) /\ UNCHANGED <<keys, counters, tf, server, task, goalId, history>>
  BY DEF ReadCounters
<1>2. FailingTyped /\ CountersTyped
  BY DEF Inv, Typed
<1>3. /\ FailingTyped' /\ failing[c].pc = "read"
      /\ \A d \in Callers \ {c} : failing'[d] = failing[d]
      /\ \/ /\ failing'[c].pc = "total" /\ failing'[c].total = counters.total
            /\ failing'[c].counted = failing[c].counted
         \/ failing'[c].pc = "result" /\ ~ failing'[c].counted
  BY <1>1, <1>2, CountersReadFacts
<1>5. Typed'
  BY <1>1, <1>3 DEF Inv, Typed, KeysTyped, CountersTyped, TaskTyped, ServerTyped, HistoryTyped
<1>6. OneOwner'
  BY <1>1, OwnersStay
<1>7. FailsInPlace'
  BY <1>1, <1>3, FailsInPlaceStays
<1>8. Counted'
  <2>1. \A d \in Callers \ {c} : failing[d].pc = "no"
    BY <1>3, FailRequestAlone
  <2>2. counters.total = history.failed /\ failing[c].counted /\ history.failed \in Nat
    BY <1>3, <2>1 DEF Inv, Counted, Ahead, Typed, HistoryTyped
  <2>3. \A d \in Callers \ {c} : failing'[d].pc = "no" /\ failing'[d].counted
    BY <1>3, <2>1 DEF Inv, Counted
  <2>4. CASE /\ failing'[c].pc = "total" /\ failing'[c].total = counters.total
             /\ failing'[c].counted = failing[c].counted
    BY <1>1, <2>2, <2>3, <2>4 DEF Counted, Ahead
  <2>5. CASE failing'[c].pc = "result" /\ ~ failing'[c].counted
    <3>1. counters'.total = history'.failed + One(c)'
      BY <1>1, <2>2, <2>5 DEF One
    <3> QED
      BY <2>3, <2>5, <3>1 DEF Counted, Ahead
  <2> QED
    BY <1>3, <2>4, <2>5
<1>9. ResultFirst'
  <2>1. \A d \in Callers : failing'[d].pc # "state"
    BY <1>3, FailRequestAlone
  <2> QED
    BY <1>1, <2>1 DEF Inv, ResultFirst, OwnResult
<1> QED
  BY <1>5, <1>6, <1>7, <1>8, <1>9 DEF Inv

\* It is written back one greater, and so ahead of the answer.
LEMMA WriteTotalKeeps ==
  ASSUME Inv, NEW c \in Callers, WriteTotal(c)
  PROVE  Inv'
<1>1. /\ failing[c].pc = "total" /\ UNCHANGED <<keys, tf, server, task, goalId, history>>
      /\ counters' = [counters EXCEPT !.total = failing[c].total + 1]
  BY DEF WriteTotal
<1>2. FailingTyped /\ CountersTyped
  BY DEF Inv, Typed
<1>3. /\ FailingTyped' /\ failing'[c].pc = "streak"
      /\ failing'[c].counted = failing[c].counted
      /\ \A d \in Callers \ {c} : failing'[d] = failing[d]
  BY <1>2, GotoFacts DEF WriteTotal, FailPcs
<1>4. CountersTyped' /\ counters'.total = failing[c].total + 1
  BY <1>1, <1>2 DEF CountersTyped, FailingTyped
<1>5. Typed'
  BY <1>1, <1>3, <1>4 DEF Inv, Typed, KeysTyped, HistoryTyped, TaskTyped, ServerTyped
<1>6. OneOwner'
  BY <1>1, OwnersStay
<1>7. FailsInPlace'
  BY <1>1, <1>3, FailsInPlaceStays
<1>8. Counted'
  <2>1. \A d \in Callers : failing[d].pc \notin Ahead
    BY <1>1, FailRequestAlone DEF Ahead
  <2>2. /\ counters.total = history.failed /\ failing[c].total = counters.total
        /\ failing[c].counted
    BY <1>1, <2>1 DEF Inv, Counted
  <2>3. \A d \in Callers \ {c} : failing'[d].pc = "no" /\ failing'[d].counted
    BY <1>1, <1>3, FailRequestAlone DEF Inv, Counted
  <2>4. counters'.total = history'.failed + One(c)'
    BY <1>1, <1>3, <1>4, <2>2 DEF One
  <2> QED
    BY <1>3, <2>2, <2>3, <2>4 DEF Counted, Ahead
<1>9. ResultFirst'
  <2>1. \A d \in Callers : failing'[d].pc # "state"
    BY <1>1, <1>3, FailRequestAlone
  <2> QED
    BY <1>1, <2>1 DEF Inv, ResultFirst, OwnResult
<1> QED
  BY <1>5, <1>6, <1>7, <1>8, <1>9 DEF Inv

\* The streak is another counter.
LEMMA WriteStreakKeeps ==
  ASSUME Inv, NEW c \in Callers, WriteStreak(c)
  PROVE  Inv'
<1>1. /\ failing[c].pc = "streak" /\ UNCHANGED <<keys, tf, server, task, goalId, history>>
      /\ counters' = [counters EXCEPT !.streak = failing[c].streak + 1]
  BY DEF WriteStreak
<1>2. FailingTyped /\ CountersTyped
  BY DEF Inv, Typed
<1>3. /\ FailingTyped' /\ failing'[c].pc = "result"
      /\ failing'[c].counted = failing[c].counted
      /\ \A d \in Callers \ {c} : failing'[d] = failing[d]
  BY <1>2, GotoFacts DEF WriteStreak, FailPcs
<1>4. CountersTyped' /\ counters'.total = counters.total
  BY <1>1, <1>2 DEF CountersTyped, FailingTyped
<1>5. Typed'
  BY <1>1, <1>3, <1>4 DEF Inv, Typed, KeysTyped, HistoryTyped, TaskTyped, ServerTyped
<1>6. OneOwner'
  BY <1>1, OwnersStay
<1>7. FailsInPlace'
  BY <1>1, <1>3, FailsInPlaceStays
<1>8. Counted'
  <2>1. counters.total = history.failed + One(c) /\ One(c)' = One(c)
    BY <1>1, <1>3 DEF Inv, Counted, Ahead, One
  <2>2. \A d \in Callers \ {c} : failing'[d].pc = "no" /\ failing'[d].counted
    BY <1>1, <1>3, FailRequestAlone DEF Inv, Counted
  <2>3. counters'.total = history'.failed + One(c)'
    BY <1>1, <1>4, <2>1
  <2> QED
    BY <1>3, <2>2, <2>3 DEF Counted, Ahead
<1>9. ResultFirst'
  <2>1. \A d \in Callers : failing'[d].pc # "state"
    BY <1>1, <1>3, FailRequestAlone
  <2> QED
    BY <1>1, <2>1 DEF Inv, ResultFirst, OwnResult
<1> QED
  BY <1>5, <1>6, <1>7, <1>8, <1>9 DEF Inv

\* The result is that of the request that fails, and of no other.
LEMMA WriteResultKeeps ==
  ASSUME Inv, NEW c \in Callers, WriteResult(c)
  PROVE  Inv'
<1>1. /\ failing[c].pc = "result" /\ UNCHANGED <<counters, tf, server, task, goalId, history>>
      /\ keys' = [keys EXCEPT !.result = Subject(c)]
  BY DEF WriteResult
<1>2. FailingTyped /\ KeysTyped
  BY DEF Inv, Typed
<1>3. /\ FailingTyped' /\ failing'[c].pc = "state"
      /\ failing'[c].counted = failing[c].counted
      /\ \A d \in Callers \ {c} : failing'[d] = failing[d]
  BY <1>2, GotoFacts DEF WriteResult, FailPcs
<1>4. Open /\ Subject(c) = keys.id /\ \A d \in Callers \ {c} : ~ Owns(d) /\ failing[d].pc = "no"
  BY <1>1, FailRequestAlone
<1>5. /\ KeysTyped' /\ keys'.result = Subject(c) /\ keys'.trigger = keys.trigger
      /\ keys'.state = keys.state /\ keys'.id = keys.id
  BY <1>1, <1>2, <1>4 DEF KeysTyped
<1>6. Typed'
  BY <1>1, <1>3, <1>5 DEF Inv, Typed, CountersTyped, HistoryTyped, TaskTyped, ServerTyped
<1>7. OneOwner'
  BY <1>1, <1>5, OwnersStay
<1>8. FailsInPlace'
  BY <1>1, <1>3, FailsInPlaceStays
<1>9. Counted'
  <2>1. counters'.total = history'.failed + One(c)'
    BY <1>1, <1>3 DEF Inv, Counted, Ahead, One
  <2>2. \A d \in Callers \ {c} : failing'[d].pc = "no" /\ failing'[d].counted
    BY <1>3, <1>4 DEF Inv, Counted
  <2> QED
    BY <1>3, <2>1, <2>2 DEF Counted, Ahead
<1>10. ResultFirst'
  <2>1. \A d \in Callers : failing'[d].pc = "state" => d = c
    BY <1>3, <1>4
  <2>2. Subject(c)' = Subject(c)
    BY <1>1 DEF Subject
  <2>3. \A g \in Goals : task[g] = "publish" => g = c
    BY <1>4, IntakeAssumption DEF Callers, Owns, Busy
  <2>4. keys'.state \notin Terminal
    BY <1>4, <1>5 DEF Open, Terminal
  <2>5. \A g \in Goals : task'[g] = "publish" => keys'.result = g
    <3>1. SUFFICES ASSUME NEW g \in Goals, task[g] = "publish" PROVE FALSE
      BY <1>1
    <3>2. g = c /\ InFailRequest(c)
      BY <1>1, <2>3, <3>1, FailRequestAlone
    <3> QED
      BY <3>1, <3>2, IntakeAssumption DEF InFailRequest
  <2> QED
    BY <1>5, <2>1, <2>2, <2>4, <2>5 DEF ResultFirst, OwnResult
<1> QED
  BY <1>6, <1>7, <1>8, <1>9, <1>10 DEF Inv

\* The answer: the count of failures comes up to the total, and nobody is the owner.
LEMMA WriteFailedKeeps ==
  ASSUME Inv, NEW c \in Callers, WriteFailed(c)
  PROVE  Inv'
<1>1. /\ failing[c].pc = "state" /\ UNCHANGED <<counters, tf, goalId>>
      /\ failing' = [failing EXCEPT ![c] = NotFailing]
      /\ keys' = [keys EXCEPT !.state = "failed"]
  BY DEF WriteFailed, Answer
<1>2. Typed
  BY DEF Inv
<1>3. /\ FailingTyped' /\ failing'[c].pc = "no"
      /\ \A d \in Callers \ {c} : failing'[d] = failing[d]
  BY <1>1, <1>2 DEF Typed, FailingTyped, NotFailing, FailPcs
<1>4. /\ InFailRequest(c) /\ Open /\ Subject(c) = keys.id
      /\ \A d \in Callers \ {c} : ~ Owns(d) /\ failing[d].pc = "no"
  BY <1>1, FailRequestAlone
<1>5. /\ KeysTyped' /\ keys'.result = keys.result /\ keys'.trigger = keys.trigger
      /\ keys'.state = "failed" /\ keys'.id = keys.id
  BY <1>1, <1>2 DEF Typed, KeysTyped
<1>6. HistoryTyped' /\ history'.failed = history.failed + One(c)
  <2>1. Answer("failed", One(c)) /\ One(c) \in Nat
    BY DEF WriteFailed, One
  <2> QED
    BY <1>2, <2>1, AnswerFacts DEF Typed, Terminal
<1>7. \/ c = "server" /\ server' = NewServer /\ task' = task
      \/ /\ c # "server" /\ c \in Goals /\ server' = server
         /\ task' = [task EXCEPT ![c] = "teardown"]
  BY DEF WriteFailed, Callers
<1>8. /\ TaskTyped' /\ ServerTyped'
      /\ server'.pc \in Work \union {"poll", "consume", "execute", "spawn", "failing"}
      /\ \A d \in Callers : ~ Owns(d)' /\ ~ InFailRequest(d)'
  <2>1. \A d \in Callers \ {c} : ~ InFailRequest(d)
    BY <1>4 DEF Inv, FailsInPlace
  <2>2. CASE c = "server" /\ server' = NewServer /\ task' = task
    BY <1>2, <1>4, <2>1, <2>2, IntakeAssumption DEF Typed, TaskTyped, ServerTyped, NewServer,
         Owns, ServerOwns, InFailRequest, Work, Callers
  <2>3. CASE /\ c # "server" /\ c \in Goals /\ server' = server
             /\ task' = [task EXCEPT ![c] = "teardown"]
    <3>1. TaskTyped' /\ task'[c] = "teardown" /\ \A g \in Goals \ {c} : task'[g] = task[g]
      BY <1>2, <2>3 DEF Typed, TaskTyped, TaskStates
    <3> QED
      BY <1>2, <1>4, <2>1, <2>3, <3>1, IntakeAssumption DEF Inv, OneOwner, Typed, ServerTyped,
           Owns, ServerOwns, InFailRequest, Busy, Callers
  <2> QED
    BY <1>7, <2>2, <2>3
<1>9. Typed'
  BY <1>1, <1>3, <1>5, <1>6, <1>8 DEF Inv, Typed, CountersTyped
<1>10. OneOwner'
  BY <1>5, <1>8 DEF OneOwner, Waiting
<1>11. FailsInPlace' /\ \A d \in Callers : failing'[d].pc = "no"
  BY <1>3, <1>4, <1>8 DEF FailsInPlace
<1>12. Counted'
  <2>1. counters.total = history.failed + One(c)
    BY <1>1 DEF Inv, Counted, Ahead
  <2>2. \A d \in Callers : failing'[d].counted
    BY <1>1, <1>2, <1>3, <1>4 DEF Inv, Counted, Typed, FailingTyped, NotFailing
  <2> QED
    BY <1>1, <1>6, <1>11, <2>1, <2>2 DEF Counted, Ahead
<1>13. ResultFirst'
  <2>1. keys.result = keys.id
    BY <1>1, <1>4 DEF Inv, ResultFirst
  <2>2. \A g \in Goals : task'[g] # "publish"
    BY <1>8, IntakeAssumption DEF Owns, Busy, Callers
  <2> QED
    BY <1>5, <1>11, <2>1, <2>2 DEF ResultFirst, OwnResult
<1> QED
  BY <1>9, <1>10, <1>11, <1>12, <1>13 DEF Inv

------------------------------------------------------------------------------
(***************************************************************************)
(* The goals' tasks.                                                       *)
(***************************************************************************)
\* A goal that is still to be answered stays the owner wherever its task goes, until the
\* answer.
LEMMA BusyStays ==
  ASSUME Inv, NEW g \in Goals, task[g] \in Busy, NEW pc \in Busy, To(g, pc),
         UNCHANGED server, keys'.trigger = keys.trigger, keys'.state = keys.state,
         keys'.id = keys.id
  PROVE  OneOwner'
<1>1. task'[g] \in Busy /\ \A h \in Goals \ {g} : task'[h] = task[h]
  BY ToFacts DEF Inv, Typed, Busy, TaskStates
<1>2. \A c \in Callers : Owns(c)' <=> Owns(c)
  BY <1>1 DEF Owns, ServerOwns, Callers
<1>3. \A c \in Callers : Subject(c)' = Subject(c)
  BY DEF Subject
<1> QED
  BY <1>2, <1>3 DEF Inv, OneOwner, Open, Waiting

\* A task that only moves, neither in fail_request nor next to its answer.
LEMMA MovesOn ==
  ASSUME Inv, NEW g \in Goals, task[g] \in Busy \ {"failing"},
         NEW pc \in Busy \ {"failing", "publish"}, To(g, pc),
         UNCHANGED <<keys, counters, server, failing, history>>
  PROVE  Inv'
<1>1. TaskTyped' /\ task'[g] = pc /\ \A h \in Goals \ {g} : task'[h] = task[h]
  BY ToFacts DEF Inv, Typed, Busy, TaskStates
<1>2. Typed'
  BY <1>1 DEF Inv, Typed, KeysTyped, CountersTyped, FailingTyped, ServerTyped, HistoryTyped
<1>3. OneOwner'
  BY BusyStays
<1>4. \A c \in Callers : InFailRequest(c)' <=> InFailRequest(c)
  BY <1>1 DEF InFailRequest, Callers
<1>5. FailsInPlace'
  BY <1>4 DEF Inv, FailsInPlace
<1>6. Counted'
  BY DEF One, Inv, Counted
<1>7. ResultFirst'
  BY <1>1 DEF Inv, ResultFirst, OwnResult, Subject
<1> QED
  BY <1>2, <1>3, <1>5, <1>6, <1>7 DEF Inv

\* A task that fails goes into fail_request, where there is nobody.
LEMMA FailureKeeps ==
  ASSUME Inv, NEW g \in Goals, task[g] \in Busy \ {"failing"}, Fails(g),
         UNCHANGED <<keys, counters, server, history>>
  PROVE  Inv'
<1>0. Typed /\ g \in Callers /\ g # "server"
  BY IntakeAssumption DEF Inv, Callers
<1>1. TaskTyped' /\ task'[g] = "failing" /\ \A h \in Goals \ {g} : task'[h] = task[h]
  BY <1>0, ToFacts DEF Fails, Typed, TaskStates
<1>2. /\ FailingTyped' /\ failing'[g].pc = "read"
      /\ failing'[g].counted = failing[g].counted
      /\ \A d \in Callers \ {g} : failing'[d] = failing[d]
  BY <1>0, GotoFacts DEF Fails, Typed, FailPcs
<1>3. \A d \in Callers : failing[d].pc = "no"
  <2>1. \A d \in Callers \ {g} : failing[d].pc = "no"
    BY BusyOwns
  <2>2. failing[g].pc = "no"
    BY <1>0 DEF Inv, FailsInPlace, InFailRequest
  <2> QED
    BY <2>1, <2>2
<1>4. Typed'
  BY <1>0, <1>1, <1>2 DEF Typed, KeysTyped, CountersTyped, ServerTyped, HistoryTyped
<1>5. OneOwner'
  BY BusyStays DEF Fails, Busy
<1>6. FailsInPlace'
  <2>1. \A c \in Callers \ {g} : InFailRequest(c)' <=> InFailRequest(c)
    BY <1>1 DEF InFailRequest, Callers
  <2>2. InFailRequest(g)'
    BY <1>0, <1>1 DEF InFailRequest
  <2> QED
    BY <1>2, <2>1, <2>2 DEF Inv, FailsInPlace
<1>7. \A d \in Callers : failing'[d].pc \in {"no", "read"}
  BY <1>2, <1>3
<1>8. Counted'
  <2>1. counters.total = history.failed /\ \A d \in Callers : failing[d].counted
    BY <1>3 DEF Inv, Counted, Ahead
  <2>2. \A d \in Callers : failing'[d].counted
    BY <1>2, <2>1
  <2> QED
    BY <1>7, <2>1, <2>2 DEF Counted, Ahead
<1>9. ResultFirst'
  BY <1>1, <1>7 DEF Inv, ResultFirst, OwnResult
<1> QED
  BY <1>4, <1>5, <1>6, <1>8, <1>9 DEF Inv

\* The connection comes, or the wait for it is over.
LEMMA InstallGoalKeeps ==
  ASSUME Inv, NEW g \in Goals, InstallGoal(g)
  PROVE  Inv'
<1>1. task[g] \in Busy \ {"failing"} /\ UNCHANGED <<keys, counters, server, history>>
  BY DEF InstallGoal, Busy
<1>2. CASE To(g, "run") /\ UNCHANGED failing
  BY <1>1, <1>2, MovesOn DEF Busy
<1>3. CASE Fails(g)
  BY <1>1, <1>3, FailureKeeps
<1> QED
  BY <1>2, <1>3 DEF InstallGoal

\* The script comes to its end, or the watch on it gives up.
LEMMA EndGoalKeeps ==
  ASSUME Inv, NEW g \in Goals, EndGoal(g)
  PROVE  Inv'
<1>1. task[g] \in Busy \ {"failing"} /\ UNCHANGED <<keys, counters, server, history>>
  BY DEF EndGoal, Busy
<1>2. CASE To(g, "succeeded") /\ UNCHANGED failing
  BY <1>1, <1>2, MovesOn DEF Busy
<1>3. CASE Fails(g)
  BY <1>1, <1>3, FailureKeeps
<1> QED
  BY <1>2, <1>3 DEF EndGoal

\* The result of a success, while the state is still "executing".
LEMMA PublishResultKeeps ==
  ASSUME Inv, NEW g \in Goals, PublishResult(g)
  PROVE  Inv'
<1>0. /\ Typed /\ g \in Callers /\ g # "server" /\ task[g] = "succeeded"
      /\ UNCHANGED <<counters, server, failing, history>>
  BY IntakeAssumption DEF Inv, Callers, PublishResult
<1>1. TaskTyped' /\ task'[g] = "publish" /\ \A h \in Goals \ {g} : task'[h] = task[h]
  BY <1>0, ToFacts DEF PublishResult, Typed, TaskStates
<1>2. /\ KeysTyped' /\ keys'.result = g /\ keys'.trigger = keys.trigger
      /\ keys'.state = keys.state /\ keys'.id = keys.id
  BY <1>0 DEF PublishResult, Typed, KeysTyped
<1>3. Open /\ \A d \in Callers \ {g} : ~ Owns(d) /\ failing[d].pc = "no"
  BY <1>0, BusyOwns DEF Busy
<1>4. Typed'
  BY <1>0, <1>1, <1>2 DEF Typed, CountersTyped, FailingTyped, ServerTyped, HistoryTyped
<1>5. OneOwner'
  BY <1>0, <1>2, BusyStays DEF PublishResult, Busy
<1>6. \A c \in Callers : InFailRequest(c)' <=> InFailRequest(c)
  BY <1>0, <1>1 DEF InFailRequest, Callers
<1>7. FailsInPlace'
  BY <1>0, <1>6 DEF Inv, FailsInPlace
<1>8. Counted'
  BY <1>0 DEF One, Inv, Counted
<1>9. ResultFirst'
  <2>1. \A h \in Goals \ {g} : task[h] # "publish"
    BY <1>3, IntakeAssumption DEF Callers, Owns, Busy
  <2>2. failing[g].pc = "no"
    BY <1>0 DEF Inv, FailsInPlace, InFailRequest
  <2>3. keys'.state \notin Terminal
    BY <1>2, <1>3 DEF Open, Terminal
  <2> QED
    BY <1>0, <1>1, <1>2, <1>3, <2>1, <2>2, <2>3 DEF ResultFirst, OwnResult
<1> QED
  BY <1>4, <1>5, <1>7, <1>8, <1>9 DEF Inv

\* The answer of a success: nobody is the owner any more.
LEMMA PublishSucceededKeeps ==
  ASSUME Inv, NEW g \in Goals, PublishSucceeded(g)
  PROVE  Inv'
<1>0. /\ Typed /\ g \in Callers /\ g # "server" /\ task[g] = "publish"
      /\ UNCHANGED <<counters, server, failing>>
      /\ keys' = [keys EXCEPT !.state = "succeeded"]
  BY IntakeAssumption DEF Inv, Callers, PublishSucceeded, Answer
<1>1. TaskTyped' /\ task'[g] = "reset" /\ \A h \in Goals \ {g} : task'[h] = task[h]
  BY <1>0, ToFacts DEF PublishSucceeded, Typed, TaskStates
<1>2. /\ KeysTyped' /\ keys'.result = keys.result /\ keys'.trigger = keys.trigger
      /\ keys'.state = "succeeded" /\ keys'.id = keys.id
  BY <1>0 DEF Typed, KeysTyped
<1>3. keys.id = g /\ \A d \in Callers \ {g} : ~ Owns(d) /\ failing[d].pc = "no"
  BY <1>0, BusyOwns DEF Busy
<1>4. HistoryTyped' /\ history'.failed = history.failed
  <2>1. Answer("succeeded", 0)
    BY DEF PublishSucceeded
  <2> QED
    BY <1>0, <2>1, AnswerFacts DEF Typed, Terminal, HistoryTyped
<1>5. \A c \in Callers : failing[c].pc = "no"
  BY <1>0, <1>3 DEF Inv, FailsInPlace, InFailRequest
<1>6. Typed'
  BY <1>0, <1>1, <1>2, <1>4 DEF Typed, CountersTyped, FailingTyped, ServerTyped
<1>7. OneOwner'
  <2>1. ~ Owns(g)'
    BY <1>0, <1>1 DEF Owns, Busy
  <2>2. \A d \in Callers \ {g} : ~ Owns(d)'
    BY <1>0, <1>1, <1>3 DEF Owns, ServerOwns, Callers
  <2> QED
    BY <1>0, <1>2, <2>1, <2>2 DEF Inv, OneOwner, Waiting
<1>8. \A c \in Callers : InFailRequest(c)' <=> InFailRequest(c)
  BY <1>0, <1>1 DEF InFailRequest, Callers
<1>9. FailsInPlace'
  BY <1>0, <1>8 DEF Inv, FailsInPlace
<1>10. Counted'
  <2>1. counters.total = history.failed /\ \A c \in Callers : failing[c].counted
    BY <1>5 DEF Inv, Counted, Ahead
  <2> QED
    BY <1>0, <1>4, <1>5, <2>1 DEF Counted, Ahead
<1>11. ResultFirst'
  <2>1. keys.result = keys.id
    BY <1>0, <1>3 DEF Inv, ResultFirst
  <2>2. \A h \in Goals : task'[h] # "publish"
    BY <1>1, <1>3, IntakeAssumption DEF Callers, Owns, Busy
  <2> QED
    BY <1>0, <1>2, <1>5, <2>1, <2>2 DEF ResultFirst, OwnResult
<1> QED
  BY <1>6, <1>7, <1>9, <1>10, <1>11 DEF Inv

\* A task that has answered owns nothing; what it still writes is not the total.
LEMMA AfterwardsKeeps ==
  ASSUME Inv, NEW g \in Goals, task[g] \in {"reset", "teardown"},
         NEW pc \in {"teardown", "gone"}, To(g, pc), CountersTyped',
         counters'.total = counters.total, UNCHANGED <<keys, server, failing, history>>
  PROVE  Inv'
<1>1. TaskTyped' /\ task'[g] = pc /\ \A h \in Goals \ {g} : task'[h] = task[h]
  BY ToFacts DEF Inv, Typed, TaskStates
<1>2. Typed'
  BY <1>1 DEF Inv, Typed, KeysTyped, FailingTyped, ServerTyped, HistoryTyped
<1>3. \A c \in Callers : (Owns(c)' <=> Owns(c)) /\ (InFailRequest(c)' <=> InFailRequest(c))
  BY <1>1 DEF Owns, ServerOwns, InFailRequest, Busy, Callers
<1>4. \A c \in Callers : Subject(c)' = Subject(c)
  BY DEF Subject
<1>5. OneOwner'
  BY <1>3, <1>4 DEF Inv, OneOwner, Open, Waiting
<1>6. FailsInPlace'
  BY <1>3 DEF Inv, FailsInPlace
<1>7. Counted'
  BY DEF One, Inv, Counted
<1>8. ResultFirst'
  BY <1>1, <1>4 DEF Inv, ResultFirst, OwnResult
<1> QED
  BY <1>2, <1>5, <1>6, <1>7, <1>8 DEF Inv

------------------------------------------------------------------------------
\* Every step of a goal's task keeps the invariant.
LEMMA TaskStepKeeps ==
  ASSUME Inv, NEW g \in Goals, TaskStep(g)
  PROVE  Inv'
<1>0. CountersTyped
  BY DEF Inv, Typed
<1>1. CASE InstallGoal(g)
  BY <1>1, InstallGoalKeeps
<1>2. CASE EndGoal(g)
  BY <1>2, EndGoalKeeps
<1>3. CASE PublishResult(g)
  BY <1>3, PublishResultKeeps
<1>4. CASE PublishSucceeded(g)
  BY <1>4, PublishSucceededKeeps
<1>5. CASE ResetStreak(g)
  <2>1. CountersTyped' /\ counters'.total = counters.total
    BY <1>0, <1>5 DEF ResetStreak, AfterSuccess, CountersTyped
  <2> QED
    BY <1>5, <2>1, AfterwardsKeeps DEF ResetStreak
<1>6. CASE Teardown(g)
  <2>1. CountersTyped' /\ counters'.total = counters.total
    BY <1>0, <1>6 DEF Teardown, CountersTyped
  <2> QED
    BY <1>6, <2>1, AfterwardsKeeps DEF Teardown
<1> QED
  BY <1>1, <1>2, <1>3, <1>4, <1>5, <1>6 DEF TaskStep

\* So does every step of fail_request.
LEMMA FailRequestKeeps ==
  ASSUME Inv, NEW c \in Callers, FailRequest(c)
  PROVE  Inv'
BY ReadCountersKeeps, WriteTotalKeeps, WriteStreakKeeps, WriteResultKeeps,
     WriteFailedKeeps DEF FailRequest

\* Checking, looking up and resolving only move the request on, or refuse it.
LEMMA DecisionKeeps ==
  ASSUME Inv,
         CheckCommand \/ LookupGoal \/ LookupTool \/ DecodeWaypoints \/ TakeWaypoint
           \/ ResolveTarget \/ ResolveTool \/ Admit
  PROVE  Inv'
<1>1. server.pc \in Work /\ UNCHANGED <<keys, counters, task, history>>
  BY DEF CheckCommand, LookupGoal, LookupTool, DecodeWaypoints, TakeWaypoint, ResolveTarget,
       ResolveTool, Admit, Lookup, Unresolved, Work
<1>2. ServerTyped
  BY DEF Inv, Typed
<1>3. CASE Refuse
  BY <1>1, <1>3, RefuseKeeps
<1>4. CASE /\ UNCHANGED failing
           /\ server'.pc \in Work \union {"execute"}
           /\ server' = [pc |-> server'.pc, id |-> server.id, state |-> server'.state,
                         target |-> server'.target, tcp |-> server'.tcp, pose |-> server'.pose,
                         done |-> server'.done, seen |-> server'.seen]
  BY <1>1, <1>4, WorkKeeps
<1>5. CASE CheckCommand
  BY <1>2, <1>3, <1>4, <1>5 DEF At, CheckCommand, ServerTyped, Work
<1>6. CASE LookupGoal
  BY <1>2, <1>3, <1>4, <1>6 DEF LookupGoal, Lookup, ServerTyped, Work
<1>7. CASE LookupTool
  BY <1>2, <1>3, <1>4, <1>7 DEF LookupTool, Lookup, ServerTyped, Work
<1>8. CASE DecodeWaypoints
  BY <1>2, <1>3, <1>4, <1>8 DEF DecodeWaypoints, At, ServerTyped, Work
<1>9. CASE TakeWaypoint
  BY <1>2, <1>4, <1>9 DEF TakeWaypoint, Unresolved, ServerTyped, Work
<1>10. CASE ResolveTarget
  BY <1>2, <1>3, <1>4, <1>10 DEF ResolveTarget, Lookup, ServerTyped, Work
<1>11. CASE ResolveTool
  BY <1>2, <1>3, <1>4, <1>11 DEF ResolveTool, Lookup, ServerTyped, Work
<1>12. CASE Admit
  BY <1>2, <1>3, <1>4, <1>12 DEF Admit, ServerTyped, Work
<1> QED
  BY <1>5, <1>6, <1>7, <1>8, <1>9, <1>10, <1>11, <1>12

\* The invariant is inductive.
LEMMA StepKeeps == Inv /\ Waits /\ [Next]_vars => Inv'
<1> SUFFICES ASSUME Inv, Waits, [Next]_vars PROVE Inv'
  OBVIOUS
<1>1. CASE \E g \in Goals : Submit(g)
  BY <1>1, SubmitKeeps
<1>2. CASE StrayTrigger
  BY <1>2, StrayKeeps
<1>3. CASE \E p \in Places, pose \in Poses \union {Absent} : MoveFrame(p, pose)
  BY <1>3, MoveKeeps
<1>4. CASE \E c \in Callers : FailRequest(c)
  BY <1>4, FailRequestKeeps
<1>5. CASE CommandServerStep
  BY <1>5, ReadRequestKeeps, ConsumeKeeps, DecisionKeeps, ExecuteKeeps,
       SpawnKeeps DEF CommandServerStep
<1>6. CASE \E g \in Goals : TaskStep(g)
  BY <1>6, TaskStepKeeps
<1>7. CASE UNCHANGED vars
  <2>1. /\ UNCHANGED <<keys, counters, server, task, failing, history>>
    BY <1>7 DEF vars
  <2>2. Typed'
    BY <2>1 DEF Inv, Typed, KeysTyped, CountersTyped, TaskTyped, FailingTyped, ServerTyped,
         HistoryTyped
  <2>3. OneOwner'
    BY <2>1, OwnersStay
  <2>4. FailsInPlace'
    BY <2>1 DEF Inv, FailsInPlace, InFailRequest
  <2>5. Counted'
    BY <2>1 DEF One, Inv, Counted
  <2>6. ResultFirst'
    BY <2>1 DEF Inv, ResultFirst, OwnResult, Subject
  <2> QED
    BY <2>2, <2>3, <2>4, <2>5, <2>6 DEF Inv
<1> QED
  BY <1>1, <1>2, <1>3, <1>4, <1>5, <1>6, <1>7 DEF Next

\* So it holds of a client that waits, all along.
Owned == Waits => Inv
LEMMA OwnedKeeps == Base /\ Owned /\ [Next]_vars => Base' /\ Owned'
BY BaseKeeps, PatienceStays, StepKeeps DEF Owned, Waits

------------------------------------------------------------------------------
\* With a client that waits for its answer no failure is lost from total_fail_counter:
\* command_server and the goals' tasks each read it, add one and write it back two awaits
\* later, and write the answer only after that (command_server.rs:676-691).
THEOREM FailuresAreCounted == Spec => []CountedBeforeAnswer
<1>1. Owned => CountedBeforeAnswer
  BY DEF Owned, Inv, Counted, CountedBeforeAnswer, EveryFailureCounted, Quiet, Ahead
<1>2. Init => Base /\ Owned
  BY InitBase, InitInv DEF Owned
<1> QED
  BY <1>1, <1>2, OwnedKeeps, PTL DEF Spec

\* With a client that waits for its answer a terminal request_state is never beside another
\* request's result (command_server.rs:711-734, handle_request.rs:277-280).
THEOREM AnswersAreWhole == Spec => []ResultBesideState
<1>1. Owned => ResultBesideState
  BY DEF Owned, Inv, ResultFirst, OwnResult, ResultBesideState
<1>2. Init => Base /\ Owned
  BY InitBase, InitInv DEF Owned
<1> QED
  BY <1>1, <1>2, OwnedKeeps, PTL DEF Spec

------------------------------------------------------------------------------
(***************************************************************************)
(* subsequent_fail_counter.                                                *)
(*                                                                         *)
(* The task that has published a success resets the counter two awaits     *)
(* later, as the owner of nothing.  For a client that waits for the tasks  *)
(* there is nobody to count a failure in between.                          *)
(***************************************************************************)
Idle == ~ Waiting /\ \A c \in Callers : ~ Owns(c)
Settled == history.patience = "settled"
Alone == Settled => \A g \in Goals : task[g] \in {"reset", "teardown"} => Idle

\* The streak is behind a success until its reset, and ahead of a failure that is about to
\* be answered.
Held == {"total", "streak"}
Written == {"result", "state"}
Streak ==
  Settled =>
    /\ (\A c \in Callers : failing[c].pc \notin Written) /\ (\A g \in Goals : task[g] # "reset")
         => counters.streak = history.recent
    /\ \A c \in Callers : failing[c].pc \in Written =>
         counters.streak = history.recent + One(c)
    /\ \A c \in Callers : failing[c].pc \in Held => failing[c].streak = counters.streak
    /\ \A g \in Goals : task[g] = "reset" => history.recent = 0

\* Nothing has been asked for or counted.
LEMMA InitStreak == Init => Alone /\ Streak
BY DEF Init, Alone, Streak, Held, Written, NotFailing

------------------------------------------------------------------------------
\* Nobody who did not own a request owns one after this, and none was submitted.
LEMMA AloneStays ==
  ASSUME Alone, history'.patience = history.patience, Waiting' => Waiting,
         \A c \in Callers : Owns(c)' => Waiting \/ \E d \in Callers : Owns(d),
         \A g \in Goals : task'[g] \in {"reset", "teardown"} => task[g] \in {"reset", "teardown"}
  PROVE  Alone'
BY DEF Settled, Alone, Idle

\* There is an owner, so no task is past its answer; none comes there but by the answer.
LEMMA OwnedStays ==
  ASSUME Alone, history'.patience = history.patience, NEW c \in Callers, Owns(c),
         \A g \in Goals : task'[g] \in {"reset", "teardown"} => task[g] \in {"reset", "teardown"}
  PROVE  Alone'
BY DEF Settled, Alone, Idle

\* An answer leaves no owner.
LEMMA AnswerIsIdle ==
  ASSUME Inv, Inv', NEW state \in Terminal, NEW new, Answer(state, new)
  PROVE  Alone'
<1>1. keys'.state = state
  BY DEF Answer, Inv, Typed, KeysTyped
<1>2. ~ Open' /\ ~ Waiting'
  BY <1>1 DEF Open, Waiting, Terminal
<1>3. \A c \in Callers : ~ Owns(c)'
  BY <1>2 DEF Inv, OneOwner
<1> QED
  BY <1>2, <1>3 DEF Alone, Idle

\* command_server decides on a request only while it owns it.
LEMMA ServerWorksAlone ==
  ASSUME Inv, Alone, history'.patience = history.patience,
         server.pc \in Work \union {"execute", "spawn"},
         \A g \in Goals : task'[g] \in {"reset", "teardown"} => task[g] \in {"reset", "teardown"}
  PROVE  Alone'
<1>1. "server" \in Callers /\ Owns("server")
  BY DEF Callers, Owns, ServerOwns
<1> QED
  BY <1>1, OwnedStays

\* A task that is past its answer is alone, if the client waits for the tasks.
LEMMA AloneKeeps ==
  ASSUME Base, Inv, Inv', Alone, [Next]_vars
  PROVE  Alone'
<1>0. history'.patience = history.patience /\ TaskTyped /\ KeysTyped /\ ServerTyped
  BY PatienceStays DEF Base, Typed
<1>1. CASE \E g \in Goals : Submit(g)
  BY <1>0, <1>1 DEF Settled, Submit, AllGone, Alone
<1>2. CASE StrayTrigger
  <2>1. keys'.state = keys.state /\ ~ Waiting'
    BY <1>0, <1>2 DEF StrayTrigger, Waiting, KeysTyped
  <2>2. \A c \in Callers : Owns(c)' => Owns(c)
    BY <1>2 DEF StrayTrigger, Owns, ServerOwns
  <2> QED
    BY <1>0, <1>2, <2>1, <2>2, AloneStays DEF StrayTrigger
<1>3. CASE \E p \in Places, pose \in Poses \union {Absent} : MoveFrame(p, pose)
  <2>1. keys' = keys /\ task' = task /\ server'.pc = server.pc /\ server'.state = server.state
    BY <1>0, <1>3 DEF MoveFrame, ServerTyped
  <2>2. \A c \in Callers : Owns(c)' => Owns(c)
    BY <2>1 DEF Owns, ServerOwns
  <2> QED
    BY <1>0, <2>1, <2>2, AloneStays DEF Waiting
<1>4. CASE \E c \in Callers : FailRequest(c)
  <2>1. PICK c \in Callers : FailRequest(c)
    BY <1>4
  <2>2. CASE WriteFailed(c)
    BY <2>2, AnswerIsIdle DEF WriteFailed, Terminal
  <2>3. CASE ReadCounters(c) \/ WriteTotal(c) \/ WriteStreak(c) \/ WriteResult(c)
    <3>1. /\ UNCHANGED <<server, task>> /\ keys'.trigger = keys.trigger
          /\ keys'.state = keys.state
      BY <1>0, <2>3 DEF ReadCounters, WriteTotal, WriteStreak, WriteResult, KeysTyped
    <3>2. (Waiting' => Waiting) /\ \A d \in Callers : Owns(d)' => Owns(d)
      BY <3>1 DEF Owns, ServerOwns, Waiting
    <3> QED
      BY <1>0, <3>1, <3>2, AloneStays
  <2> QED
    BY <2>1, <2>2, <2>3 DEF FailRequest
<1>5. CASE CommandServerStep
  <2>1. CASE ReadRequest
    <3>1. /\ keys' = keys /\ task' = task /\ server'.pc = "consume" /\ server'.state = keys.state
          /\ keys.trigger
      BY <2>1 DEF ReadRequest, NewServer
    <3>2. \A c \in Callers : Owns(c)' => Waiting \/ Owns(c)
      BY <3>1 DEF Owns, ServerOwns, Waiting, Work
    <3> QED
      BY <1>0, <3>1, <3>2, AloneStays DEF Waiting
  <2>2. CASE ConsumeTrigger
    <3>1. task' = task /\ ~ Waiting' /\ server.pc = "consume"
      BY <1>0, <2>2 DEF ConsumeTrigger, KeysTyped, Waiting
    <3>2. server.state = "initial" \/ server'.pc = "poll"
      BY <2>2 DEF ConsumeTrigger, NewServer
    <3>3. \A c \in Callers : Owns(c)' => Owns(c)
      BY <3>1, <3>2 DEF Owns, ServerOwns, Work
    <3> QED
      BY <1>0, <3>1, <3>3, AloneStays
  <2>3. CASE CheckCommand \/ LookupGoal \/ LookupTool \/ DecodeWaypoints \/ TakeWaypoint
              \/ ResolveTarget \/ ResolveTool \/ Admit \/ WriteExecuting
    <3>1. task' = task /\ server.pc \in Work \union {"execute", "spawn"}
      BY <2>3 DEF CheckCommand, LookupGoal, LookupTool, Lookup, DecodeWaypoints, TakeWaypoint,
           ResolveTarget, ResolveTool, Admit, WriteExecuting, Unresolved, Work
    <3> QED
      BY <1>0, <3>1, ServerWorksAlone
  <2>4. CASE SpawnGoal
    <3>1. server.pc = "spawn" /\ task' = [task EXCEPT ![server.id] = "connect"]
      BY <2>4 DEF SpawnGoal
    <3>2. \A g \in Goals : task'[g] \in {"reset", "teardown"} => task[g] \in {"reset", "teardown"}
      BY <1>0, <3>1 DEF TaskTyped
    <3> QED
      BY <1>0, <3>1, <3>2, ServerWorksAlone
  <2> QED
    BY <1>5, <2>1, <2>2, <2>3, <2>4 DEF CommandServerStep
<1>6. CASE \E g \in Goals : TaskStep(g)
  <2>1. PICK g \in Goals : TaskStep(g)
    BY <1>6
  <2>2. CASE PublishSucceeded(g)
    BY <2>2, AnswerIsIdle DEF PublishSucceeded, Terminal
  <2>3. CASE InstallGoal(g) \/ EndGoal(g) \/ PublishResult(g)
    <3>1. PICK pc \in Busy : To(g, pc)
      BY <2>3 DEF InstallGoal, EndGoal, PublishResult, Fails, Busy
    <3>2. task[g] \in Busy
      BY <2>3 DEF InstallGoal, EndGoal, PublishResult, Busy
    <3>3. task'[g] = pc /\ \A h \in Goals \ {g} : task'[h] = task[h]
      BY <1>0, <3>1, ToFacts DEF Busy, TaskStates
    <3>4. \A h \in Goals : task'[h] \in {"reset", "teardown"} => task[h] \in {"reset", "teardown"}
      BY <3>1, <3>3 DEF Busy
    <3>5. g \in Callers /\ Owns(g)
      BY <3>2, BusyOwns DEF Callers
    <3> QED
      BY <1>0, <3>4, <3>5, OwnedStays
  <2>4. CASE ResetStreak(g) \/ Teardown(g)
    <3>1. task[g] \in {"reset", "teardown"} /\ UNCHANGED <<keys, server>>
      BY <2>4 DEF ResetStreak, Teardown
    <3>2. PICK pc \in {"teardown", "gone"} : To(g, pc)
      BY <2>4 DEF ResetStreak, Teardown
    <3>3. task'[g] = pc /\ \A h \in Goals \ {g} : task'[h] = task[h]
      BY <1>0, <3>2, ToFacts DEF TaskStates
    <3>4. (Waiting' => Waiting) /\ \A c \in Callers : Owns(c)' => Owns(c)
      BY <3>1, <3>3 DEF Owns, ServerOwns, Waiting, Busy, Callers
    <3> QED
      BY <1>0, <3>1, <3>3, <3>4, AloneStays
  <2> QED
    BY <2>1, <2>2, <2>3, <2>4 DEF TaskStep
<1>7. CASE UNCHANGED vars
  BY <1>7 DEF Settled, vars, Alone, Idle, Owns, ServerOwns, Waiting
<1> QED
  BY <1>1, <1>2, <1>3, <1>4, <1>5, <1>6, <1>7 DEF Next

------------------------------------------------------------------------------
\* A step that writes no streak, answers nothing and moves nobody across a write of it.
LEMMA StreakStays ==
  ASSUME Streak, counters'.streak = counters.streak, history'.patience = history.patience,
         history'.recent = history.recent,
         \A c \in Callers :
           /\ failing'[c].pc \in Written <=> failing[c].pc \in Written
           /\ failing'[c].pc \in Held <=> failing[c].pc \in Held
           /\ failing'[c].streak = failing[c].streak
           /\ failing'[c].counted = failing[c].counted,
         \A g \in Goals : task'[g] = "reset" <=> task[g] = "reset"
  PROVE  Streak'
BY DEF Settled, Streak, One

\* The same of one that changes neither counters nor history.
LEMMA StreakUntouched ==
  ASSUME Streak, UNCHANGED <<counters, failing>>, history'.patience = history.patience,
         history'.recent = history.recent,
         \A g \in Goals : task'[g] = "reset" <=> task[g] = "reset"
  PROVE  Streak'
BY StreakStays

\* A caller that comes into fail_request has read nothing yet.
LEMMA StreakComes ==
  ASSUME Inv, Streak, NEW c \in Callers, failing[c].pc = "no", Goto(c, "read"),
         UNCHANGED <<counters, history>>,
         \A g \in Goals : task'[g] = "reset" <=> task[g] = "reset"
  PROVE  Streak'
<1>1. /\ failing'[c].pc = "read" /\ failing'[c].streak = failing[c].streak
      /\ failing'[c].counted = failing[c].counted
      /\ \A d \in Callers \ {c} : failing'[d] = failing[d]
  BY GotoFacts DEF Inv, Typed, FailPcs
<1> QED
  BY <1>1, StreakStays DEF Written, Held

\* fail_request: it reads the streak, writes it back one greater, and answers.
LEMMA FailRequestStreak ==
  ASSUME Inv, Alone, Streak, NEW c \in Callers, FailRequest(c), history'.patience = history.patience
  PROVE  Streak'
<1>0. FailingTyped /\ CountersTyped /\ HistoryTyped /\ TaskTyped
  BY DEF Inv, Typed
<1>1. failing[c].pc # "no"
  BY DEF FailRequest, ReadCounters, CountersRead, WriteTotal, WriteStreak, WriteResult,
       WriteFailed
<1>2. Owns(c) /\ \A d \in Callers \ {c} : failing[d].pc = "no"
  BY <1>1, FailRequestAlone
<1>3. Settled => \A g \in Goals : task[g] # "reset"
  BY <1>2 DEF Alone, Idle
<1>4. CASE ReadCounters(c)
  <2>1. /\ failing[c].pc = "read" /\ \A d \in Callers \ {c} : failing'[d] = failing[d]
        /\ \/ failing'[c].pc = "total" /\ failing'[c].streak = counters.streak
           \/ failing'[c].pc = "result" /\ ~ failing'[c].counted
    BY <1>0, <1>4, CountersReadFacts DEF ReadCounters
  <2>2. \A d \in Callers : failing[d].pc \notin Written
    BY <1>2, <2>1 DEF Written
  <2>3. Settled => counters.streak = history.recent
    BY <1>3, <2>2 DEF Streak
  <2>4. task' = task /\ counters' = counters /\ history' = history
    BY <1>4 DEF ReadCounters
  <2>5. CASE failing'[c].pc = "total" /\ failing'[c].streak = counters.streak
    BY <1>2, <1>3, <2>1, <2>3, <2>4, <2>5 DEF Streak, Written, Held, Settled
  <2>6. CASE failing'[c].pc = "result" /\ ~ failing'[c].counted
    <3>1. Settled => counters'.streak = history'.recent + One(c)'
      BY <1>0, <2>3, <2>4, <2>6 DEF One, HistoryTyped
    <3> QED
      BY <1>2, <1>3, <2>1, <2>4, <2>6, <3>1 DEF Streak, Written, Held, Settled
  <2> QED
    BY <2>1, <2>5, <2>6
<1>5. CASE WriteTotal(c)
  <2>1. /\ failing[c].pc = "total" /\ failing'[c].pc = "streak"
        /\ failing'[c].streak = failing[c].streak /\ failing'[c].counted = failing[c].counted
        /\ \A d \in Callers \ {c} : failing'[d] = failing[d]
    BY <1>0, <1>5, GotoFacts DEF WriteTotal, FailPcs
  <2>2. counters'.streak = counters.streak /\ UNCHANGED <<task, history>>
    BY <1>0, <1>5 DEF WriteTotal, CountersTyped
  <2> QED
    BY <2>1, <2>2, StreakStays DEF Written, Held
<1>6. CASE WriteStreak(c)
  <2>1. /\ failing[c].pc = "streak" /\ failing'[c].pc = "result"
        /\ failing'[c].counted = failing[c].counted
        /\ \A d \in Callers \ {c} : failing'[d] = failing[d]
    BY <1>0, <1>6, GotoFacts DEF WriteStreak, FailPcs
  <2>2. counters'.streak = failing[c].streak + 1 /\ UNCHANGED <<task, history>>
    BY <1>0, <1>6 DEF WriteStreak, CountersTyped
  <2>3. \A d \in Callers : failing[d].pc \notin Written
    BY <1>2, <2>1 DEF Written
  <2>4. Settled => failing[c].streak = history.recent
    BY <1>3, <2>1, <2>3 DEF Streak, Held
  <2>5. failing[c].counted
    BY <2>1 DEF Inv, Counted
  <2>6. Settled => counters'.streak = history'.recent + One(c)'
    BY <2>1, <2>2, <2>4, <2>5 DEF One
  <2> QED
    BY <1>2, <1>3, <2>1, <2>2, <2>6 DEF Settled, One, Streak, Written, Held
<1>7. CASE WriteResult(c)
  <2>1. /\ failing[c].pc = "result" /\ failing'[c].pc = "state"
        /\ failing'[c].streak = failing[c].streak /\ failing'[c].counted = failing[c].counted
        /\ \A d \in Callers \ {c} : failing'[d] = failing[d]
    BY <1>0, <1>7, GotoFacts DEF WriteResult, FailPcs
  <2> QED
    BY <1>7, <2>1, StreakStays DEF WriteResult, Written, Held
<1>8. CASE WriteFailed(c)
  <2>1. \A d \in Callers : failing'[d].pc = "no"
    BY <1>0, <1>2, <1>8 DEF WriteFailed, FailingTyped, NotFailing
  <2>2. \A g \in Goals : task'[g] = "reset" => task[g] = "reset"
    BY <1>0, <1>8 DEF WriteFailed, TaskTyped
  <2>3. history'.recent = history.recent + One(c)
    <3>1. Answer("failed", One(c)) /\ One(c) \in Nat
      BY <1>8 DEF WriteFailed, One
    <3> QED
      BY <1>0, <3>1, AnswerFacts DEF Terminal
  <2>4. Settled =>
          counters.streak = history.recent + One(c)
    BY <1>8 DEF Streak, WriteFailed, Written
  <2>5. counters' = counters
    BY <1>8 DEF WriteFailed
  <2> QED
    BY <1>3, <2>1, <2>2, <2>3, <2>4, <2>5 DEF Settled, One, Streak, Written, Held
<1> QED
  BY <1>4, <1>5, <1>6, <1>7, <1>8 DEF FailRequest

\* A goal's task: a success ends the streak, and its reset follows before the client asks
\* again.
LEMMA TaskStepStreak ==
  ASSUME Inv, Alone, Streak, NEW g \in Goals, TaskStep(g), history'.patience = history.patience
  PROVE  Streak'
<1>0. /\ FailingTyped /\ CountersTyped /\ HistoryTyped /\ TaskTyped
      /\ g \in Callers /\ g # "server"
  BY IntakeAssumption DEF Inv, Typed, Callers
<1>1. CASE Fails(g) /\ UNCHANGED <<counters, history>> /\ task[g] \in {"connect", "run"}
  <2>1. task'[g] = "failing" /\ \A h \in Goals \ {g} : task'[h] = task[h]
    BY <1>0, <1>1, ToFacts DEF Fails, TaskStates
  <2>2. failing[g].pc = "no"
    BY <1>0, <1>1 DEF Inv, FailsInPlace, InFailRequest
  <2> QED
    BY <1>0, <1>1, <2>1, <2>2, StreakComes DEF Fails
<1>2. CASE \E pc \in {"run", "succeeded", "publish", "gone"} :
             /\ To(g, pc) /\ task[g] # "reset" /\ UNCHANGED <<counters, failing, history>>
  <2>1. PICK pc \in {"run", "succeeded", "publish", "gone"} : To(g, pc)
    BY <1>2
  <2>2. task'[g] = pc /\ \A h \in Goals \ {g} : task'[h] = task[h]
    BY <1>0, <2>1, ToFacts DEF TaskStates
  <2> QED
    BY <1>2, <2>2, StreakUntouched
<1>3. CASE PublishSucceeded(g)
  <2>1. task'[g] = "reset" /\ \A h \in Goals \ {g} : task'[h] = task[h]
    BY <1>0, <1>3, ToFacts DEF PublishSucceeded, TaskStates
  <2>2. \A c \in Callers : failing'[c].pc = "no"
    BY <1>0, <1>3, BusyOwns DEF PublishSucceeded, Busy, Inv, FailsInPlace, InFailRequest
  <2>3. history'.recent = 0
    <3>1. Answer("succeeded", 0)
      BY <1>3 DEF PublishSucceeded
    <3> QED
      BY <1>0, <3>1, AnswerFacts DEF Terminal
  <2> QED
    BY <2>1, <2>2, <2>3 DEF Streak, Written, Held
<1>4. CASE ResetStreak(g)
  <2>1. task[g] = "reset" /\ UNCHANGED <<failing, history>>
    BY <1>4 DEF ResetStreak
  <2>2. counters'.streak = 0
    BY <1>0, <1>4 DEF ResetStreak, AfterSuccess, CountersTyped
  <2>3. Settled => history.recent = 0 /\ \A c \in Callers : failing[c].pc = "no"
    BY <2>1, FailRequestAlone DEF Streak, Alone, Idle
  <2>4. task'[g] = "teardown" /\ \A h \in Goals \ {g} : task'[h] = task[h]
    BY <1>0, <1>4, ToFacts DEF ResetStreak, TaskStates
  <2> QED
    BY <2>1, <2>2, <2>3, <2>4 DEF Settled, One, Streak, Written, Held
<1>5. TaskStep(g) =>
        \/ /\ Fails(g) /\ UNCHANGED <<counters, history>> /\ task[g] \in {"connect", "run"}
        \/ \E pc \in {"run", "succeeded", "publish", "gone"} :
             To(g, pc) /\ task[g] # "reset" /\ UNCHANGED <<counters, failing, history>>
        \/ PublishSucceeded(g)
        \/ ResetStreak(g)
  BY DEF TaskStep, InstallGoal, EndGoal, PublishResult, Teardown
<1> QED
  BY <1>1, <1>2, <1>3, <1>4, <1>5

\* command_server writes no counter outside fail_request.
LEMMA CommandServerStreak ==
  ASSUME Inv, Alone, Streak, CommandServerStep
  PROVE  Streak'
<1>0. TaskTyped /\ "server" \in Callers
  BY DEF Inv, Typed, Callers
<1>1. UNCHANGED <<counters, history>>
  BY DEF CommandServerStep, ReadRequest, ConsumeTrigger, CheckCommand, LookupGoal, LookupTool,
       Lookup, DecodeWaypoints, TakeWaypoint, ResolveTarget, ResolveTool, Admit,
       WriteExecuting, SpawnGoal
<1>2. CASE UNCHANGED <<task, failing>>
  BY <1>1, <1>2, StreakUntouched
<1>3. CASE Refuse /\ server.pc \in Work /\ UNCHANGED task
  <2>1. failing["server"].pc = "no"
    BY <1>0, <1>3 DEF Inv, FailsInPlace, InFailRequest, Work
  <2> QED
    BY <1>0, <1>1, <1>3, <2>1, StreakComes DEF Refuse
<1>4. CASE SpawnGoal
  <2>1. server.id \in Goals /\ server.id \in Callers /\ Owns("server") /\ server.id # "server"
    BY <1>4, IntakeAssumption DEF Inv, OneOwner, Owns, ServerOwns, SpawnGoal, Subject, Open,
         Callers
  <2>2. task' = [task EXCEPT ![server.id] = "connect"] /\ failing' = failing
    BY <1>4 DEF SpawnGoal
  <2>3. Settled => task[server.id] # "reset"
    BY <1>0, <2>1 DEF Alone, Idle
  <2> QED
    BY <1>0, <1>1, <2>1, <2>2, <2>3 DEF Settled, One, Streak, TaskTyped
<1> QED
  BY <1>2, <1>3, <1>4 DEF CommandServerStep, ReadRequest, ConsumeTrigger, CheckCommand,
       LookupGoal, LookupTool, Lookup, DecodeWaypoints, TakeWaypoint, ResolveTarget,
       ResolveTool, Admit, WriteExecuting, SpawnGoal, Unresolved, Work

\* The streak is kept by every step.
LEMMA StreakKeeps ==
  ASSUME Base, Inv, Alone, Streak, [Next]_vars
  PROVE  Streak'
<1>0. history'.patience = history.patience /\ HistoryTyped
  BY PatienceStays DEF Base, Typed
<1>1. CASE \/ \E g \in Goals : Submit(g)
           \/ StrayTrigger
           \/ \E p \in Places, pose \in Poses \union {Absent} : MoveFrame(p, pose)
  <2>1. /\ UNCHANGED <<counters, failing, task>>
        /\ history'.recent = history.recent
    BY <1>0, <1>1 DEF Submit, StrayTrigger, MoveFrame, HistoryTyped
  <2> QED
    BY <1>0, <2>1, StreakUntouched
<1>2. CASE \E c \in Callers : FailRequest(c)
  BY <1>0, <1>2, FailRequestStreak
<1>3. CASE CommandServerStep
  BY <1>3, CommandServerStreak
<1>4. CASE \E g \in Goals : TaskStep(g)
  BY <1>0, <1>4, TaskStepStreak
<1>5. CASE UNCHANGED vars
  BY <1>5, StreakUntouched DEF vars
<1> QED
  BY <1>1, <1>2, <1>3, <1>4, <1>5 DEF Next

\* subsequent_fail_counter is the failures since the last success, whichever tasks counted
\* them, for a client that lets each goal's task end (handle_request.rs:282-286).
THEOREM StreaksAreConsecutive == Spec => []StreakIsConsecutive
<1> DEFINE All == Base /\ Owned /\ (Waits => Alone /\ Streak)
<1>1. All => StreakIsConsecutive
  BY DEF Streak, StreakIsConsecutive, Quiet, AllGone, Written, Waits, Settled
<1>2. All /\ [Next]_vars => All'
  <2>1. SUFFICES ASSUME All, [Next]_vars PROVE All'
    OBVIOUS
  <2>2. Base' /\ Owned'
    BY <2>1, OwnedKeeps
  <2>3. Waits' <=> Waits
    BY <2>1, PatienceStays DEF Waits
  <2>4. ASSUME Waits PROVE Alone' /\ Streak'
    BY <2>1, <2>2, <2>3, <2>4, AloneKeeps, StreakKeeps DEF Owned
  <2> QED
    BY <2>2, <2>3, <2>4
<1>3. Init => All
  BY InitBase, InitInv, InitStreak DEF Owned
<1> QED
  BY <1>1, <1>2, <1>3, PTL DEF Spec

------------------------------------------------------------------------------
(***************************************************************************)
(* What command_server has made of the request.                            *)
(*                                                                         *)
(* The tree moves between two lookups, so what was looked up is known only *)
(* to have been there since the request was read: server.seen grows with   *)
(* every move, and every pose that is kept is a member of it.  The list of *)
(* waypoints is one entry longer with every one that is resolved, and a    *)
(* request of which one cannot be resolved goes no further.                *)
(***************************************************************************)
Handles == Poses \union {Identity}
PathTyped ==
  /\ tf \in [Places -> Poses \union {Absent}]
  /\ goalId \in Goals \union {NoGoal}
  /\ server.done \in Seq(Handed)
  /\ server.target \in Handles /\ server.tcp \in Handles /\ server.pose \in Handles
  /\ server.seen \in [Places -> SUBSET (Poses \union {Absent})]

SeenNow == Preparing => \A p \in Places : tf[p] \in server.seen[p]

\* Its own target, and the TCP that goes with it.
ToolKnown == {"waypoints", "resolve", "resolve_tool", "execute", "spawn"}
LookedUp ==
  /\ server.pc = "goal" => Ours.looksUp
  /\ server.pc \in ToolKnown \union {"tool"} /\ Ours.looksUp =>
       server.target \in server.seen[Ours.frame]
  /\ server.pc \in ToolKnown /\ Ours.looksUp => server.tcp \in server.seen[Tool]

\* A waypoint as it is before a planner replaces it.
Follows(got, wp, seen) ==
  \/ got.joints /\ wp.by = "joints"
  \/ ~ got.joints /\ wp.by = "frame" /\ got.target \in seen[wp.frame] /\ got.tcp \in seen[Tool]
  \/ ~ got.joints /\ wp.by = "relative" /\ got.target = Identity

Follow(asked, done, seen, tcp) ==
  /\ Len(done) <= Len(asked)
  /\ \A k \in DOMAIN done :
       /\ Follows(done[k], asked[k], seen)
       /\ asked[k].by = "frame" => tcp \in seen[Tool]

Resolved ==
  /\ server.pc \in {"consume", "decode", "goal", "tool", "waypoints"} => server.done = <<>>
  /\ server.pc \in {"resolve", "resolve_tool"} =>
       /\ \A k \in DOMAIN Ours.waypoints : Decodes(Ours.waypoints[k])
       /\ Follow(Ours.waypoints, server.done, server.seen, server.tcp)
  /\ server.pc = "resolve_tool" =>
       /\ Len(server.done) < Len(Ours.waypoints) /\ Current.by = "frame"
       /\ server.pose \in server.seen[Current.frame]

Path == PathTyped /\ SeenNow /\ LookedUp /\ Resolved /\ WholePathOrNothing

\* The poll has nothing at hand.
LEMMA NewServerPath ==
  ASSUME tf \in [Places -> Poses \union {Absent}], goalId \in Goals \union {NoGoal},
         server = NewServer
  PROVE  Path
<1>1. PathTyped
  BY DEF PathTyped, NewServer, Handles
<1>2. SeenNow /\ LookedUp /\ Resolved /\ WholePathOrNothing
  BY DEF SeenNow, Preparing, LookedUp, ToolKnown, Resolved, WholePathOrNothing, Handing,
       NewServer
<1> QED
  BY <1>1, <1>2 DEF Path

\* Nothing has been looked up.
LEMMA InitPath == Init => Path
<1> SUFFICES ASSUME Init PROVE Path
  OBVIOUS
<1>1. tf \in [Places -> Poses \union {Absent}]
  BY IntakeAssumption DEF Init, Places
<1> QED
  BY <1>1, NewServerPath DEF Init

\* Nor has it again after a request it is done with.
LEMMA ResetPath ==
  ASSUME Path, UNCHANGED <<tf, goalId>>, server' = NewServer
  PROVE  Path'
<1>1. PathTyped'
  BY DEF Path, PathTyped, NewServer, Handles
<1>2. SeenNow' /\ LookedUp' /\ Resolved' /\ WholePathOrNothing'
  BY DEF SeenNow, Preparing, LookedUp, ToolKnown, Resolved, WholePathOrNothing, Handing,
       NewServer
<1> QED
  BY <1>1, <1>2 DEF Path

\* Nor does a refusal look at anything, or any step outside command_server.
LEMMA PathStays ==
  ASSUME Path, UNCHANGED tf, goalId' \in Goals \union {NoGoal}, UNCHANGED server
  PROVE  Path'
<1>1. PathTyped'
  BY DEF Path, PathTyped
<1>2. SeenNow' /\ LookedUp' /\ Resolved' /\ WholePathOrNothing'
  BY DEF Path, SeenNow, Preparing, LookedUp, Ours, Resolved, Follow, Current,
       WholePathOrNothing, Handing
<1> QED
  BY <1>1, <1>2 DEF Path

\* A refusal keeps what was looked up, which nobody reads again.
LEMMA RefusePath ==
  ASSUME Base, Path, Refuse, UNCHANGED <<tf, goalId>>
  PROVE  Path'
<1>1. /\ server'.pc = "failing" /\ server'.done = server.done /\ server'.target = server.target
      /\ server'.tcp = server.tcp /\ server'.pose = server.pose /\ server'.seen = server.seen
  BY DEF Refuse, At, Base, Typed, ServerTyped
<1>2. PathTyped'
  BY <1>1 DEF Path, PathTyped
<1>3. SeenNow' /\ LookedUp' /\ Resolved' /\ WholePathOrNothing'
  BY <1>1 DEF SeenNow, Preparing, LookedUp, ToolKnown, Resolved, WholePathOrNothing, Handing
<1> QED
  BY <1>2, <1>3 DEF Path

\* The request command_server works on is one of those there are.
LEMMA OursIsAsked ==
  ASSUME Base, server.pc \in Work \union {"execute", "spawn"}
  PROVE  /\ server.id \in Goals /\ Ours \in Commands /\ Ours.frame \in Places
         /\ Tool \in Places /\ Ours.waypoints \in Seq(RawWaypoints)
<1>2. server.id \in Goals
  BY DEF Base, Asked, Work
<1>3. Ours \in Commands
  BY <1>2, IntakeAssumption DEF Ours
<1> QED
  BY <1>2, <1>3 DEF Commands, Places

\* A list that follows what was asked still does when its next waypoint is added to it.
LEMMA AppendFollows ==
  ASSUME NEW asked \in Seq(RawWaypoints), NEW done \in Seq(Handed), NEW wp \in Handed, NEW seen,
         NEW tcp, Follow(asked, done, seen, tcp), Len(done) < Len(asked),
         Follows(wp, asked[Len(done) + 1], seen),
         asked[Len(done) + 1].by = "frame" => tcp \in seen[Tool]
  PROVE  /\ Append(done, wp) \in Seq(Handed)
         /\ Follow(asked, Append(done, wp), seen, tcp)
BY DEF Follow

\* It does not mind another TCP that was seen, nor a tree that was seen moving.
LEMMA MoreSeenFollows ==
  ASSUME NEW asked \in Seq(RawWaypoints), NEW done \in Seq(Handed),
         \A k \in DOMAIN asked : Decodes(asked[k]),
         NEW old, NEW new, \A q \in Places : old[q] \subseteq new[q],
         NEW tcp, NEW newer, tcp \in old[Tool] => newer \in new[Tool],
         Follow(asked, done, old, tcp)
  PROVE  Follow(asked, done, new, newer)
<1>1. \A k \in DOMAIN done : k \in DOMAIN asked /\ asked[k] \in RawWaypoints
  BY DEF Follow
<1>2. \A k \in DOMAIN done : asked[k].by = "frame" => asked[k].frame \in Places
  BY <1>1 DEF Decodes, RawWaypoints, Places
<1>3. Tool \in Places
  BY DEF Places
<1>4. \A k \in DOMAIN done : Follows(done[k], asked[k], new)
  BY <1>2, <1>3 DEF Follow, Follows
<1>5. \A k \in DOMAIN done : asked[k].by = "frame" => newer \in new[Tool]
  BY <1>3 DEF Follow
<1> QED
  BY <1>4, <1>5 DEF Follow

\* A frame moves: what is in the tree is seen, if a request is being prepared.
LEMMA MovePath ==
  ASSUME Base, Path, NEW p \in Places, NEW pose \in Poses \union {Absent}, MoveFrame(p, pose)
  PROVE  Path'
<1> USE DEF Path, PathTyped
<1>0. ServerTyped /\ tf' = [tf EXCEPT ![p] = pose] /\ goalId' = goalId
  BY DEF Base, Typed, MoveFrame
<1>1. tf' \in [Places -> Poses \union {Absent}]
  BY <1>0
<1>2. CASE ~ Preparing
  <2>1. server' = server
    BY <1>2 DEF MoveFrame
  <2>2. PathTyped'
    BY <1>0, <1>1, <2>1
  <2>3. SeenNow' /\ LookedUp' /\ Resolved' /\ WholePathOrNothing'
    BY <1>2, <2>1 DEF SeenNow, Preparing, LookedUp, Ours, Resolved, Follow, Current,
         WholePathOrNothing, Handing
  <2> QED
    BY <2>2, <2>3
<1>3. CASE Preparing
  <2> DEFINE seen == [server.seen EXCEPT ![p] = @ \union {pose}]
  <2>1. server' = [pc |-> server.pc, id |-> server.id, state |-> server.state,
                   target |-> server.target, tcp |-> server.tcp, pose |-> server.pose,
                   done |-> server.done, seen |-> seen]
    BY <1>0, <1>3 DEF MoveFrame, ServerTyped
  <2>2. /\ seen \in [Places -> SUBSET (Poses \union {Absent})]
        /\ \A q \in Places : server.seen[q] \subseteq seen[q]
        /\ pose \in seen[p]
    OBVIOUS
  <2> HIDE DEF seen
  <2>3. PathTyped'
    BY <1>0, <1>1, <2>1, <2>2
  <2>4. SeenNow'
    BY <1>0, <1>3, <2>1, <2>2 DEF SeenNow, Preparing
  <2>5. Ours' = Ours /\ Current' = Current /\ ~ Handing
    BY <1>3, <2>1 DEF Ours, Current, Handing, Preparing
  <2>6. server.pc \in Work => /\ Ours.frame \in Places /\ Tool \in Places
                              /\ Ours.waypoints \in Seq(RawWaypoints)
    BY OursIsAsked
  <2>7. LookedUp'
    BY <2>1, <2>2, <2>5, <2>6 DEF LookedUp, ToolKnown, Work, Handing
  <2>8. Resolved'
    <3>1. CASE server.pc \in {"resolve", "resolve_tool"}
      <4>1. Follow(Ours.waypoints, server.done, seen, server.tcp)
        <5>1. \A k \in DOMAIN Ours.waypoints : Decodes(Ours.waypoints[k])
          BY <3>1 DEF Resolved
        <5>2. Follow(Ours.waypoints, server.done, server.seen, server.tcp)
          BY <3>1 DEF Resolved
        <5>3. server.tcp \in server.seen[Tool] => server.tcp \in seen[Tool]
          BY <2>2, <2>6, <3>1 DEF Work
        <5>4. server.done \in Seq(Handed)
          OBVIOUS
        <5>5. Ours.waypoints \in Seq(RawWaypoints)
          BY <2>6, <3>1 DEF Work
        <5>6. \A q \in Places : server.seen[q] \subseteq seen[q]
          BY <2>2
        <5> QED
          BY ONLY <5>1, <5>2, <5>3, <5>4, <5>5, <5>6, MoreSeenFollows
      <4>2. server.pc = "resolve_tool" => server.pose \in seen[Current.frame]
        <5>1. SUFFICES ASSUME server.pc = "resolve_tool" PROVE server.pose \in seen[Current.frame]
          OBVIOUS
        <5>2. /\ Len(server.done) + 1 \in DOMAIN Ours.waypoints /\ Decodes(Current)
              /\ Current.by = "frame" /\ server.pose \in server.seen[Current.frame]
          BY <2>6, <5>1 DEF Resolved, Current, Work
        <5>3. Ours.waypoints \in Seq(RawWaypoints)
          BY <2>6, <5>1 DEF Work
        <5>4. Current \in RawWaypoints
          BY <5>2, <5>3 DEF Current
        <5>5. Current.frame \in Frames \union {NoName}
          BY <5>4 DEF RawWaypoints
        <5>6. Current.frame \in Places
          BY <5>2, <5>5 DEF Decodes, Places
        <5> QED
          BY <2>2, <5>2, <5>6
      <4> QED
        BY <2>1, <2>5, <3>1, <4>1, <4>2 DEF Resolved
    <3>2. CASE server.pc \notin {"resolve", "resolve_tool"}
      BY <2>1, <3>2 DEF Resolved
    <3> QED
      BY <3>1, <3>2
  <2>9. WholePathOrNothing'
    BY <2>1, <2>5 DEF WholePathOrNothing, Handing
  <2> QED
    BY <2>3, <2>4, <2>7, <2>8, <2>9
<1> QED
  BY <1>2, <1>3

\* Reading a request: what is in the tree then is all that is seen.
LEMMA ReadRequestPath ==
  ASSUME Base, Path, ReadRequest
  PROVE  Path'
<1>1. /\ server' = [NewServer EXCEPT !.pc = "consume", !.id = keys.id, !.state = keys.state,
                                     !.seen = [p \in Places |-> {tf[p]}]]
      /\ UNCHANGED <<tf, goalId>>
  BY DEF ReadRequest
<1>2. /\ server'.pc = "consume" /\ server'.done = <<>> /\ server'.target = Identity
      /\ server'.tcp = Identity /\ server'.pose = Identity
      /\ server'.seen = [p \in Places |-> {tf[p]}]
  BY <1>1 DEF NewServer
<1>3. PathTyped'
  <2>1. tf \in [Places -> Poses \union {Absent}] /\ goalId \in Goals \union {NoGoal}
    BY DEF Path, PathTyped
  <2>2. [p \in Places |-> {tf[p]}] \in [Places -> SUBSET (Poses \union {Absent})]
    BY <2>1
  <2>3. server'.seen \in [Places -> SUBSET (Poses \union {Absent})]
    BY <1>2, <2>2
  <2>4. tf' \in [Places -> Poses \union {Absent}] /\ goalId' \in Goals \union {NoGoal}
    BY <1>1, <2>1
  <2> QED
    BY <1>2, <2>3, <2>4 DEF PathTyped, Handles
<1>4. SeenNow' /\ LookedUp' /\ Resolved' /\ WholePathOrNothing'
  BY <1>1, <1>2 DEF SeenNow, LookedUp, ToolKnown, Resolved, WholePathOrNothing, Handing
<1> QED
  BY <1>3, <1>4 DEF Path

\* One lookup: a refusal, or a pose of the tree that was seen there.
LEMMA LookupFacts ==
  ASSUME Path, Preparing, NEW place \in Places, tf[place] # Absent
  PROVE  tf[place] \in Handles /\ tf[place] \in server.seen[place]
BY DEF Path, PathTyped, SeenNow, Handles

\* The lookups of the request's own target and its TCP, and the checks around them.
LEMMA CheckPath ==
  ASSUME Base, Path,
         ConsumeTrigger \/ CheckCommand \/ LookupGoal \/ LookupTool \/ DecodeWaypoints
  PROVE  Path'
<1>0. /\ ServerTyped /\ PathTyped /\ UNCHANGED <<tf, goalId>>
      /\ server.pc \in {"consume", "decode", "goal", "tool", "waypoints"}
  BY DEF Base, Typed, Path, ConsumeTrigger, CheckCommand, LookupGoal, LookupTool, Lookup,
       DecodeWaypoints
<1>1. Preparing /\ tf \in [Places -> Poses \union {Absent}]
  BY <1>0 DEF Preparing, PathTyped
<1>2. server.done = <<>>
  BY <1>0 DEF Path, Resolved
<1>3. CASE Refuse
  BY <1>0, <1>3, RefusePath
<1>4. CASE server' = NewServer
  BY <1>0, <1>4, ResetPath
<1>5. server.pc # "consume" => /\ Ours.frame \in Places /\ Tool \in Places
                               /\ Ours.waypoints \in Seq(RawWaypoints)
  BY <1>0, OursIsAsked DEF Work
<1>6. ASSUME NEW pc \in {"decode", "goal", "tool", "waypoints", "resolve"},
             NEW target \in Handles, NEW tcp \in Handles,
             server' = [pc |-> pc, id |-> server.id, state |-> server.state,
                        target |-> target, tcp |-> tcp, pose |-> server.pose,
                        done |-> server.done, seen |-> server.seen],
             pc = "goal" => Ours.looksUp,
             pc \in ToolKnown \union {"tool"} /\ Ours.looksUp => target \in server.seen[Ours.frame],
             pc \in ToolKnown /\ Ours.looksUp => tcp \in server.seen[Tool],
             pc = "resolve" => /\ server.pc # "consume"
                               /\ \A k \in DOMAIN Ours.waypoints : Decodes(Ours.waypoints[k])
      PROVE  Path'
  <2>1. PathTyped'
    BY <1>0, <1>6 DEF PathTyped
  <2>2. SeenNow' /\ Ours' = Ours
    BY <1>0, <1>1, <1>6 DEF Path, SeenNow, Ours
  <2>3. LookedUp'
    BY <1>6, <2>2 DEF LookedUp
  <2>4. Resolved'
    <3>1. pc = "resolve" => Follow(Ours.waypoints, <<>>, server.seen, tcp)
      <4>1. SUFFICES ASSUME pc = "resolve"
                     PROVE  Follow(Ours.waypoints, <<>>, server.seen, tcp)
        OBVIOUS
      <4>2. Ours.waypoints \in Seq(RawWaypoints)
        BY <1>5, <1>6, <4>1
      <4>3. Len(Ours.waypoints) \in Nat
        BY <4>2
      <4> QED
        BY <4>3 DEF Follow
    <3> QED
      BY <1>2, <1>6, <2>2, <3>1 DEF Resolved
  <2>5. WholePathOrNothing'
    BY <1>6 DEF WholePathOrNothing, Handing
  <2> QED
    BY <2>1, <2>2, <2>3, <2>4, <2>5 DEF Path
<1>7. server.target \in Handles /\ server.tcp \in Handles
  BY <1>0 DEF PathTyped
<1>8. CASE ConsumeTrigger
  <2>1. CASE At("decode")
    BY <1>0, <1>6, <1>7, <2>1 DEF At, ServerTyped, ToolKnown
  <2> QED
    BY <1>4, <1>8, <2>1 DEF ConsumeTrigger
<1>9. CASE CheckCommand
  <2>1. CASE At(IF Ours.looksUp THEN "goal" ELSE "waypoints")
    <3> DEFINE pc == IF Ours.looksUp THEN "goal" ELSE "waypoints"
    <3>1. server' = [pc |-> pc, id |-> server.id, state |-> server.state,
                     target |-> server.target, tcp |-> server.tcp, pose |-> server.pose,
                     done |-> server.done, seen |-> server.seen]
      BY <1>0, <2>1 DEF At, ServerTyped
    <3> QED
      BY <1>6, <1>7, <3>1 DEF ToolKnown
  <2> QED
    BY <1>3, <1>9, <2>1 DEF CheckCommand
<1>10. CASE LookupGoal
  <2>1. CASE tf[Ours.frame] # Absent /\ server' = [server EXCEPT !.pc = "tool",
                                                             !.target = tf[Ours.frame]]
    <3>1. tf[Ours.frame] \in Handles /\ tf[Ours.frame] \in server.seen[Ours.frame]
      BY <1>1, <1>5, <1>10, <2>1, LookupFacts DEF LookupGoal
    <3>2. server' = [pc |-> "tool", id |-> server.id, state |-> server.state,
                     target |-> tf[Ours.frame], tcp |-> server.tcp,
                     pose |-> server.pose, done |-> server.done, seen |-> server.seen]
      BY <1>0, <2>1 DEF ServerTyped
    <3> QED
      BY <1>6, <1>7, <3>1, <3>2 DEF ToolKnown
  <2> QED
    BY <1>3, <1>10, <2>1 DEF LookupGoal, Lookup
<1>11. CASE LookupTool
  <2>1. CASE tf[Tool] # Absent /\ server' = [server EXCEPT !.pc = "waypoints", !.tcp = tf[Tool]]
    <3>1. tf[Tool] \in Handles /\ tf[Tool] \in server.seen[Tool]
      BY <1>1, <1>5, <1>11, <2>1, LookupFacts DEF LookupTool
    <3>2. Ours.looksUp => server.target \in server.seen[Ours.frame]
      BY <1>11 DEF LookupTool, Path, LookedUp
    <3> QED
      BY <1>0, <1>6, <1>7, <2>1, <3>1, <3>2 DEF ServerTyped, ToolKnown
  <2> QED
    BY <1>3, <1>11, <2>1 DEF LookupTool, Lookup
<1>12. CASE DecodeWaypoints
  <2>1. CASE /\ \A k \in DOMAIN Ours.waypoints : Decodes(Ours.waypoints[k])
             /\ At("resolve")
    <3>1. Ours.looksUp => /\ server.target \in server.seen[Ours.frame]
                          /\ server.tcp \in server.seen[Tool]
      BY <1>12 DEF DecodeWaypoints, Path, LookedUp, ToolKnown
    <3>2. server.pc # "consume"
      BY <1>12 DEF DecodeWaypoints
    <3> QED
      BY <1>0, <1>6, <1>7, <2>1, <3>1, <3>2 DEF ServerTyped, At
  <2> QED
    BY <1>3, <1>12, <2>1 DEF DecodeWaypoints
<1> QED
  BY <1>8, <1>9, <1>10, <1>11, <1>12

\* While waypoints are resolved, the list goes on following what was asked.
LEMMA ResolvingPath ==
  ASSUME Base, Path, server.pc \in {"resolve", "resolve_tool"},
         NEW pc \in {"resolve", "resolve_tool"}, NEW tcp \in Handles, NEW pose \in Handles,
         NEW done \in Seq(Handed),
         server' = [pc |-> pc, id |-> server.id, state |-> server.state,
                    target |-> server.target, tcp |-> tcp, pose |-> pose, done |-> done,
                    seen |-> server.seen],
         UNCHANGED <<tf, goalId>>,
         tcp = server.tcp \/ tcp \in server.seen[Tool],
         Follow(Ours.waypoints, done, server.seen, tcp),
         pc = "resolve_tool" =>
           /\ done = server.done /\ Unresolved /\ Current.by = "frame"
           /\ pose \in server.seen[Current.frame]
  PROVE  Path'
<1>1. PathTyped'
  BY DEF Path, PathTyped
<1>2. SeenNow' /\ Ours' = Ours
  BY DEF Path, SeenNow, Preparing, Ours
<1>3. Ours.looksUp => /\ server.target \in server.seen[Ours.frame]
                      /\ server.tcp \in server.seen[Tool]
  BY DEF Path, LookedUp, ToolKnown
<1>4. LookedUp'
  BY <1>2, <1>3 DEF LookedUp
<1>5. Resolved'
  <2>1. \A k \in DOMAIN Ours.waypoints : Decodes(Ours.waypoints[k])
    BY DEF Path, Resolved
  <2>2. pc = "resolve_tool" => Current' = Current /\ Len(done) < Len(Ours.waypoints)
    BY <1>2 DEF Current, Unresolved
  <2> QED
    BY <1>2, <2>1, <2>2 DEF Resolved
<1>6. WholePathOrNothing'
  BY DEF WholePathOrNothing, Handing
<1> QED
  BY <1>1, <1>2, <1>4, <1>5, <1>6 DEF Path

\* The next waypoint is one of those asked for, and its frame has a place in the tree.
LEMMA CurrentFacts ==
  ASSUME Base, Path, server.pc \in {"resolve", "resolve_tool"},
         Len(server.done) < Len(Ours.waypoints)
  PROVE  /\ Ours.waypoints \in Seq(RawWaypoints) /\ server.done \in Seq(Handed)
         /\ \A k \in DOMAIN Ours.waypoints : Decodes(Ours.waypoints[k])
         /\ Current \in RawWaypoints /\ Current = Ours.waypoints[Len(server.done) + 1]
         /\ Current.by = "frame" => Current.frame \in Places
         /\ Follow(Ours.waypoints, server.done, server.seen, server.tcp)
         /\ server.tcp \in Handles /\ server.pose \in Handles /\ Tool \in Places
<1>1. Ours.waypoints \in Seq(RawWaypoints) /\ Tool \in Places
  BY OursIsAsked DEF Work
<1>2. server.done \in Seq(Handed) /\ server.tcp \in Handles /\ server.pose \in Handles
  BY DEF Path, PathTyped
<1>3. /\ \A k \in DOMAIN Ours.waypoints : Decodes(Ours.waypoints[k])
      /\ Follow(Ours.waypoints, server.done, server.seen, server.tcp)
  BY DEF Path, Resolved
<1>4. Len(server.done) + 1 \in DOMAIN Ours.waypoints
  BY <1>1, <1>2
<1>5. Current \in RawWaypoints /\ Decodes(Current)
  BY <1>1, <1>3, <1>4 DEF Current
<1>6. Current.frame \in Frames \union {NoName}
  BY <1>5 DEF RawWaypoints
<1> QED
  BY <1>1, <1>2, <1>3, <1>5, <1>6 DEF Current, Decodes, Places

\* A waypoint of joints, or a relative one, is taken as it is.
LEMMA TakeWaypointPath ==
  ASSUME Base, Path, TakeWaypoint
  PROVE  Path'
<1> DEFINE wp == Waypoint(Current, Identity, server.tcp)
<1>0. /\ ServerTyped /\ Unresolved /\ Current.by # "frame" /\ UNCHANGED <<tf, goalId>>
      /\ server.pc = "resolve" /\ Len(server.done) < Len(Ours.waypoints)
      /\ server' = [server EXCEPT !.done = Append(@, wp)]
  BY DEF Base, Typed, TakeWaypoint, Unresolved
<1>1. /\ Ours.waypoints \in Seq(RawWaypoints) /\ server.done \in Seq(Handed)
      /\ Current \in RawWaypoints /\ Current = Ours.waypoints[Len(server.done) + 1]
      /\ Follow(Ours.waypoints, server.done, server.seen, server.tcp)
      /\ server.tcp \in Handles /\ server.pose \in Handles
  BY <1>0, CurrentFacts
<1>2. Current.by \in {"joints", "relative"}
  BY <1>0, <1>1 DEF RawWaypoints
<1>3. wp \in Handed /\ Follows(wp, Current, server.seen)
  BY <1>1, <1>2 DEF Waypoint, Handed, Handles, Follows
<1>4. server' = [pc |-> "resolve", id |-> server.id, state |-> server.state,
                 target |-> server.target, tcp |-> server.tcp, pose |-> server.pose,
                 done |-> Append(server.done, wp), seen |-> server.seen]
  BY <1>0 DEF ServerTyped
<1> HIDE DEF wp
<1>5. /\ Append(server.done, wp) \in Seq(Handed)
      /\ Follow(Ours.waypoints, Append(server.done, wp), server.seen, server.tcp)
  BY <1>0, <1>1, <1>3, AppendFollows
<1> QED
  BY <1>0, <1>1, <1>4, <1>5, ResolvingPath

\* The frame of a waypoint is looked up,
LEMMA ResolveTargetPath ==
  ASSUME Base, Path, ResolveTarget
  PROVE  Path'
<1>0. /\ ServerTyped /\ Unresolved /\ Current.by = "frame" /\ UNCHANGED <<tf, goalId>>
      /\ server.pc = "resolve" /\ Len(server.done) < Len(Ours.waypoints)
  BY DEF Base, Typed, ResolveTarget, Unresolved, Lookup
<1>1. CASE Refuse
  BY <1>0, <1>1, RefusePath
<1>2. CASE /\ tf[Current.frame] # Absent
           /\ server' = [server EXCEPT !.pc = "resolve_tool", !.pose = tf[Current.frame]]
  <2>1. /\ server.done \in Seq(Handed) /\ Current.frame \in Places /\ server.tcp \in Handles
        /\ Follow(Ours.waypoints, server.done, server.seen, server.tcp)
    BY <1>0, CurrentFacts
  <2>2. tf[Current.frame] \in Handles /\ tf[Current.frame] \in server.seen[Current.frame]
    BY <1>0, <1>2, <2>1, LookupFacts DEF Preparing
  <2>3. server' = [pc |-> "resolve_tool", id |-> server.id, state |-> server.state,
                   target |-> server.target, tcp |-> server.tcp, pose |-> tf[Current.frame],
                   done |-> server.done, seen |-> server.seen]
    BY <1>0, <1>2 DEF ServerTyped
  <2> QED
    BY <1>0, <2>1, <2>2, <2>3, ResolvingPath
<1> QED
  BY <1>1, <1>2 DEF ResolveTarget, Lookup

\* and then the TCP, and the waypoint is where its frame was.
LEMMA ResolveToolPath ==
  ASSUME Base, Path, ResolveTool
  PROVE  Path'
<1> DEFINE wp == Waypoint(Current, server.pose, tf[Tool])
<1>0. /\ ServerTyped /\ UNCHANGED <<tf, goalId>> /\ server.pc = "resolve_tool"
      /\ Len(server.done) < Len(Ours.waypoints) /\ Current.by = "frame"
      /\ server.pose \in server.seen[Current.frame]
  BY DEF Base, Typed, ResolveTool, Lookup, Path, Resolved
<1>1. CASE Refuse
  BY <1>0, <1>1, RefusePath
<1>2. CASE /\ tf[Tool] # Absent
           /\ server' = [server EXCEPT !.pc = "resolve", !.tcp = tf[Tool], !.done = Append(@, wp)]
  <2>1. /\ Ours.waypoints \in Seq(RawWaypoints) /\ server.done \in Seq(Handed)
        /\ \A k \in DOMAIN Ours.waypoints : Decodes(Ours.waypoints[k])
        /\ Current \in RawWaypoints /\ Current = Ours.waypoints[Len(server.done) + 1]
        /\ Follow(Ours.waypoints, server.done, server.seen, server.tcp)
        /\ server.pose \in Handles /\ Tool \in Places
    BY <1>0, CurrentFacts
  <2>2. tf[Tool] \in Handles /\ tf[Tool] \in server.seen[Tool]
    BY <1>0, <1>2, <2>1, LookupFacts DEF Preparing
  <2>3. Follow(Ours.waypoints, server.done, server.seen, tf[Tool])
    <3>1. \A q \in Places : server.seen[q] \subseteq server.seen[q]
      OBVIOUS
    <3> QED
      BY ONLY <2>1, <2>2, <3>1, MoreSeenFollows
  <2>4. wp \in Handed /\ Follows(wp, Current, server.seen)
    BY <1>0, <2>1, <2>2 DEF Waypoint, Handed, Handles, Follows
  <2>5. server' = [pc |-> "resolve", id |-> server.id, state |-> server.state,
                   target |-> server.target, tcp |-> tf[Tool],
                   pose |-> server.pose, done |-> Append(server.done, wp),
                   seen |-> server.seen]
    BY <1>0, <1>2 DEF ServerTyped
  <2> HIDE DEF wp
  <2>6. /\ Append(server.done, wp) \in Seq(Handed)
        /\ Follow(Ours.waypoints, Append(server.done, wp), server.seen, tf[Tool])
    BY <1>0, <2>1, <2>2, <2>3, <2>4, AppendFollows
  <2> QED
    BY <1>0, <2>1, <2>2, <2>5, <2>6, ResolvingPath
<1> QED
  BY <1>1, <1>2 DEF ResolveTool, Lookup

\* The list that is handed over is the one that was resolved, or joints of a planner.
HandsOver(list) ==
  /\ Ours.planner = "none" => FollowsRequest(list, Ours.waypoints, server.seen)
  /\ Ours.planner # "none" => OnlyJoints(list)
  /\ Ours.planner = "plan" => Len(list) = Len(Ours.waypoints)

\* It has a waypoint for each that was asked for, unless it is a stored one.
LEMMA PlannedFacts ==
  ASSUME Ours.waypoints \in Seq(RawWaypoints), server.done \in Seq(Handed),
         server.tcp \in Handles, Len(server.done) = Len(Ours.waypoints),
         Follow(Ours.waypoints, server.done, server.seen, server.tcp), NEW list \in Planned
  PROVE  list \in Seq(Handed) /\ HandsOver(list)
<1>1. CASE Ours.planner = "none"
  <2>1. list = server.done
    BY <1>1 DEF Planned
  <2> QED
    BY <1>1, <2>1 DEF HandsOver, FollowsRequest, Follow, Follows
<1>2. CASE Ours.planner # "none"
  <2> DEFINE Lengths == {n \in Nat \ {0} : Ours.planner = "plan" => n = Len(server.done)}
             joined == [joints |-> TRUE, target |-> Identity, tcp |-> server.tcp]
  <2>1. Planned \subseteq {JointTargets(n) : n \in Lengths}
    <3>1. Len(server.done) \in Nat /\ 1 .. MaxStored \subseteq Nat \ {0}
      BY IntakeAssumption
    <3>2. CASE Ours.planner = "stored"
      <4>1. Planned = {JointTargets(n) : n \in 1 .. MaxStored} /\ 1 .. MaxStored \subseteq Lengths
        BY <3>1, <3>2 DEF Planned
      <4> QED
        BY <4>1
    <3>3. CASE Ours.planner # "stored"
      <4>1. /\ Planned = {JointTargets(n) : n \in {Len(server.done)} \ {0}}
            /\ {Len(server.done)} \ {0} \subseteq Lengths
        BY <1>2, <3>1, <3>3 DEF Planned
      <4> QED
        BY <4>1
    <3> QED
      BY <3>2, <3>3
  <2>2. PICK m \in Lengths : list = JointTargets(m)
    BY <2>1
  <2>3. m \in Nat \ {0} /\ (Ours.planner = "plan" => m = Len(server.done))
    OBVIOUS
  <2>4. joined \in Handed /\ joined.joints
    BY DEF Handed, Handles
  <2>5. list = [k \in 1 .. m |-> joined]
    BY <2>2 DEF JointTargets
  <2> HIDE DEF joined, Lengths
  <2>6. list \in [1 .. m -> Handed] /\ DOMAIN list = 1 .. m
    BY <2>4, <2>5
  <2>7. list \in Seq(Handed) /\ Len(list) = m
    BY <2>3, <2>6
  <2>8. OnlyJoints(list)
    <3>1. list # <<>>
      BY <2>3, <2>7
    <3>2. \A k \in DOMAIN list : list[k].joints
      BY <2>4, <2>5, <2>6
    <3> QED
      BY ONLY <3>1, <3>2 DEF OnlyJoints
  <2> QED
    BY <1>2, <2>3, <2>7, <2>8 DEF HandsOver
<1> QED
  BY <1>1, <1>2

\* What is admitted has every waypoint, or is what a planner made of it.
LEMMA AdmitPath ==
  ASSUME Base, Path, Admit
  PROVE  Path'
<1>0. /\ ServerTyped /\ PathTyped /\ server.pc = "resolve" /\ UNCHANGED <<tf, goalId>>
      /\ Len(server.done) = Len(Ours.waypoints)
  BY DEF Base, Typed, Admit, Path
<1>1. CASE Refuse
  BY <1>0, <1>1, RefusePath
<1>2. CASE \E list \in Planned : server' = [server EXCEPT !.pc = "execute", !.done = list]
  <2>1. PICK list \in Planned : server' = [server EXCEPT !.pc = "execute", !.done = list]
    BY <1>2
  <2>2. server' = [pc |-> "execute", id |-> server.id, state |-> server.state,
                   target |-> server.target, tcp |-> server.tcp, pose |-> server.pose,
                   done |-> list, seen |-> server.seen]
    BY <1>0, <2>1 DEF ServerTyped
  <2>3. Ours' = Ours /\ Ours.waypoints \in Seq(RawWaypoints)
    BY <1>0, <2>2, OursIsAsked DEF Ours, Work
  <2>4. /\ Follow(Ours.waypoints, server.done, server.seen, server.tcp)
        /\ server.done \in Seq(Handed) /\ server.tcp \in Handles
    BY <1>0 DEF Path, Resolved, PathTyped
  <2>5. list \in Seq(Handed) /\ HandsOver(list)
    BY <1>0, <2>3, <2>4, PlannedFacts
  <2>6. Ours.looksUp => /\ server.target \in server.seen[Ours.frame]
                        /\ server.tcp \in server.seen[Tool]
    BY <1>0 DEF Path, LookedUp, ToolKnown
  <2>7. (\E k \in DOMAIN Ours.waypoints : Ours.waypoints[k].by = "frame")
          => server.tcp \in server.seen[Tool]
    BY <1>0, <2>3, <2>4 DEF Follow
  <2>8. PathTyped' /\ SeenNow' /\ Resolved'
    BY <1>0, <2>2, <2>5 DEF PathTyped, SeenNow, Preparing, Resolved
  <2>9. LookedUp'
    BY <2>2, <2>3, <2>6 DEF LookedUp
  <2>10. WholePathOrNothing'
    BY <2>2, <2>3, <2>5, <2>6, <2>7 DEF WholePathOrNothing, HandsOver
  <2> QED
    BY <2>8, <2>9, <2>10 DEF Path
<1> QED
  BY <1>1, <1>2 DEF Admit

\* It is handed over as it was admitted.
LEMMA ExecutePath ==
  ASSUME Base, Path, WriteExecuting
  PROVE  Path'
<1>1. /\ server' = [pc |-> "spawn", id |-> server.id, state |-> server.state,
                    target |-> server.target, tcp |-> server.tcp, pose |-> server.pose,
                    done |-> server.done, seen |-> server.seen]
      /\ server.pc = "execute" /\ UNCHANGED <<tf, goalId>>
  BY DEF Base, Typed, ServerTyped, WriteExecuting, At
<1>2. Ours' = Ours
  BY <1>1 DEF Ours
<1>3. PathTyped' /\ SeenNow' /\ Resolved'
  BY <1>1 DEF Path, PathTyped, SeenNow, Preparing, Resolved
<1>4. LookedUp'
  BY <1>1, <1>2 DEF Path, LookedUp, ToolKnown
<1>5. WholePathOrNothing'
  BY <1>1, <1>2 DEF Path, WholePathOrNothing, Handing
<1> QED
  BY <1>3, <1>4, <1>5 DEF Path

\* Every step keeps what command_server has made of the request.
LEMMA PathKeeps ==
  ASSUME Base, Path, [Next]_vars
  PROVE  Path'
<1>0. goalId \in Goals \union {NoGoal}
  BY DEF Path, PathTyped
<1>1. CASE (\E g \in Goals : Submit(g)) \/ StrayTrigger
  BY <1>0, <1>1, PathStays DEF Submit, StrayTrigger
<1>2. CASE \E p \in Places, pose \in Poses \union {Absent} : MoveFrame(p, pose)
  BY <1>2, MovePath
<1>3. CASE \E c \in Callers : FailRequest(c)
  <2>1. UNCHANGED <<tf, goalId>> /\ (server' = server \/ server' = NewServer)
    BY <1>3 DEF FailRequest, ReadCounters, WriteTotal, WriteStreak, WriteResult, WriteFailed
  <2> QED
    BY <1>0, <2>1, PathStays, ResetPath
<1>4. CASE CommandServerStep
  <2>1. CASE SpawnGoal
    BY <2>1, ResetPath DEF SpawnGoal
  <2> QED
    BY <1>4, <2>1, ReadRequestPath, CheckPath, TakeWaypointPath, ResolveTargetPath,
         ResolveToolPath, AdmitPath, ExecutePath DEF CommandServerStep
<1>5. CASE \E g \in Goals : TaskStep(g)
  <2>1. UNCHANGED <<tf, server>> /\ goalId' \in Goals \union {NoGoal}
    BY <1>0, <1>5 DEF TaskStep, InstallGoal, EndGoal, PublishResult, PublishSucceeded,
         ResetStreak, Teardown
  <2> QED
    BY <2>1, PathStays
<1>6. CASE UNCHANGED vars
  BY <1>0, <1>6, PathStays DEF vars
<1> QED
  BY <1>1, <1>2, <1>3, <1>4, <1>5, <1>6 DEF Next

\* A command that reaches the robot has every waypoint that was asked for, in order, each
\* where its frame was while the request was prepared, however the TF tree moves between the
\* lookups and however the client submits; a fresh plan as many joint targets; a stored one
\* nothing but joint targets (command_server.rs:461-462, structs.rs:459-464, online.rs:53-66).
THEOREM PathsAreWhole == Spec => []WholePathOrNothing
<1>1. Path => WholePathOrNothing
  BY DEF Path
<1>2. Base /\ Path /\ [Next]_vars => Base' /\ Path'
  BY BaseKeeps, PathKeeps
<1> QED
  BY InitBase, InitPath, <1>1, <1>2, PTL DEF Spec

\* Every variable keeps its type, whatever the request holds and however the client submits:
\* a waypoint that is handed over has a pose, never a name that is not in the tree
\* (command_server.rs:406-431).
THEOREM TypeCorrect == Spec => []TypeOK
<1>1. Base /\ Path => TypeOK
  <2> SUFFICES ASSUME Base, Path PROVE TypeOK
    OBVIOUS
  <2>1. KeysTyped /\ CountersTyped /\ TaskTyped /\ FailingTyped /\ ServerTyped /\ PathTyped
    BY DEF Base, Path, Typed
  <2>2. keys \in [trigger : BOOLEAN, state : {"initial", "executing"} \union Terminal,
                  id : Goals \union {NoGoal}, result : Goals \union {NoGoal}]
    BY <2>1 DEF KeysTyped, Terminal
  <2> QED
    BY <2>1, <2>2 DEF TypeOK, CountersTyped, TaskTyped, FailingTyped, ServerTyped, PathTyped,
         TaskStates, FailPcs, Handles
<1>2. Base /\ Path /\ [Next]_vars => Base' /\ Path'
  BY BaseKeeps, PathKeeps
<1> QED
  BY InitBase, InitPath, <1>1, <1>2, PTL DEF Spec
=============================================================================
