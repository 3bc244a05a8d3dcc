--------------------------- MODULE DashboardSystem ---------------------------
(***************************************************************************)
(* The dashboard interface end to end: a client writing the dashboard_*    *)
(* keys, dashboard_server, the command channel it shares with the goals'   *)
(* stops, the dashboard task, and the controller behind its socket.        *)
(***************************************************************************)
EXTENDS DashboardServer, DashboardTask

ClientOnly == UNCHANGED <<server, link, sock, status, ctl, done>>
ControllerOnly == UNCHANGED <<keys, server, chan, outcome, link, asked>>

------------------------------------------------------------------------------
(***************************************************************************)
(* The client and the goals.                                               *)
(***************************************************************************)
\* A client writes the command and resets the state, once the last one is answered...
Prepare(r) ==
  /\ r \notin asked
  /\ \E s \in Sessions : \E n \in DOMAIN s : s[n] = r /\ asked = {s[m] : m \in 1 .. n - 1}
  /\ keys.command \in asked \union {NoCaller}
  /\ keys.command # NoCaller => keys.state \in Terminal
  /\ keys' = [keys EXCEPT !.command = r, !.state = "initial"]
  /\ UNCHANGED <<chan, outcome, asked>> /\ ClientOnly

\* ... and sets the trigger last.
Trigger ==
  /\ keys.command \in Requests \ asked
  /\ keys' = [keys EXCEPT !.trigger = TRUE]
  /\ asked' = asked \union {keys.command}
  /\ UNCHANGED <<chan, outcome>> /\ ClientOnly

\* stop_script: try_send, so a full channel refuses the stop at once.
TryStop(s) ==
  /\ outcome[s] = "idle"
  /\ IF Len(chan) < Capacity
     THEN chan' = Append(chan, s) /\ outcome' = [outcome EXCEPT ![s] = "waiting"]
     ELSE chan' = chan /\ outcome' = [outcome EXCEPT ![s] = "refused"]
  /\ UNCHANGED <<keys, asked>> /\ ClientOnly

\* handle_request: the goal that was held is over, and so is the hold.
GoalEnds ==
  /\ status.paused
  /\ status' = [status EXCEPT !.paused = FALSE]
  /\ UNCHANGED <<keys, server, chan, outcome, link, sock, ctl, asked, done>>

------------------------------------------------------------------------------
(***************************************************************************)
(* The controller.                                                         *)
(***************************************************************************)
\* What a line does, if the controller grants it.
Unlocks(line, ok) == line[1] = "unlock" /\ ok
Executed(line, ok) ==
  IF line[1] \in {"plain", "pause", "play"} /\ ok THEN [done EXCEPT ![line[2]] = @ + 1] ELSE done

\* It may refuse a command, and must refuse an unlock when there is no protective stop.
\* A query has its answer; where it matters, "ok" is the one hoped for: Remote Control,
\* PAUSED, a running program, PLAYING.
Grants(line, ok) ==
  /\ ok \/ line[1] \notin {"greeting", "identity", "popup", "poll"}
        \/ (line[1] = "poll" /\ line[3] = 1)
  /\ Unlocks(line, ok) => ctl.mode = 3

\* Lines are answered in order.
AnswerLine ==
  /\ sock.up /\ sock.wire # <<>>
  /\ \E ok \in BOOLEAN :
       /\ Grants(Head(sock.wire), ok)
       /\ sock' = [sock EXCEPT !.wire = Tail(@),
                               !.replies = Append(@, [to |-> Head(sock.wire), ok |-> ok])]
       /\ done' = Executed(Head(sock.wire), ok)
       /\ ctl' = [ctl EXCEPT !.releasing = @ \/ Unlocks(Head(sock.wire), ok)]
  /\ status' = status /\ ControllerOnly

\* The connection closes, and the line under way may have been executed, its reply lost.
CloseConnection ==
  /\ sock.up /\ ctl.losses < MaxLosses
  /\ sock' = NoSocket
  /\ \/ done' = done /\ ctl' = [ctl EXCEPT !.losses = @ + 1]
     \/ /\ sock.wire # <<>>
        /\ done' = Executed(Head(sock.wire), TRUE)
        /\ ctl' = [ctl EXCEPT !.losses = @ + 1,
                              !.releasing = @ \/ (ctl.mode = 3 /\ Unlocks(Head(sock.wire), TRUE))]
  /\ status' = status /\ ControllerOnly

ProtectiveStop ==
  /\ ctl.mode = 1 /\ ctl.stops < MaxStops
  /\ ctl' = [ctl EXCEPT !.mode = 3, !.stops = @ + 1]
  /\ UNCHANGED <<sock, status, done>> /\ ControllerOnly

\* Released by an unlock, or at the pendant.
ReleaseStop ==
  /\ ctl.mode = 3
  /\ ctl' = [ctl EXCEPT !.mode = 1, !.releasing = FALSE, !.releases = ctl.stops]
  /\ UNCHANGED <<sock, status, done>> /\ ControllerOnly

\* Acknowledged, and yet not released: what caused the stop is still there.
ReleaseFails ==
  /\ ctl.releasing
  /\ ctl' = [ctl EXCEPT !.releasing = FALSE]
  /\ UNCHANGED <<sock, status, done>> /\ ControllerOnly

\* realtime_reader: a frame brings the safety mode of the moment.
RealtimeFrame ==
  /\ <<status.safety, status.stop>> # <<ctl.mode, ctl.stops>>
  /\ status' = [status EXCEPT !.safety = ctl.mode, !.stop = ctl.stops]
  /\ UNCHANGED <<sock, ctl, done>> /\ ControllerOnly

Next ==
  \/ \E r \in Requests : Prepare(r)
  \/ Trigger
  \/ \E s \in Stops : TryStop(s)
  \/ GoalEnds
  \/ DashboardServerNext
  \/ DashboardTaskNext
  \/ AnswerLine
  \/ CloseConnection
  \/ ProtectiveStop
  \/ ReleaseStop
  \/ ReleaseFails
  \/ RealtimeFrame

Spec == Init /\ [][Next]_vars

------------------------------------------------------------------------------
(***************************************************************************)
(* Properties.                                                             *)
(***************************************************************************)
\* Every variable of the dashboard interface stays in its type.
TypeOK ==
  /\ keys \in Keys
  /\ server \in Servers
  /\ chan \in Seq(Callers) /\ Len(chan) <= Capacity
  /\ outcome \in [Callers -> Outcomes]
  /\ link \in Links
  /\ sock \in [up : BOOLEAN, wire : Seq(Lines), replies : Seq(Replies)]
  /\ status \in Statuses
  /\ ctl \in Controllers
  /\ asked \subseteq Requests
  /\ done \in [Callers -> Nat]

\* Replies carry no name: the line read next is the answer to the line sent last, or
\* a late reply would be taken for the next command's (dashboard.rs:288-334).
ReplyIsItsOwn ==
  link.pc \in Awaiting /\ sock.replies # <<>> => Head(sock.replies).to = Line(link)

\* A caller that waits is in the channel or in service: no reconnect drops one between
\* the two without its answer (dashboard.rs:192-200).
NoCallerStranded ==
  \A c \in Callers : outcome[c] = "waiting" =>
    \/ \E i \in DOMAIN chan : chan[i] = c
    \/ link.cur = c /\ link.pc \in Serving \ {"serve", "poll"}

\* The controller runs a request's command at most once, and only once its trigger has
\* been set: a trigger left over never runs the next one early (dashboard_server.rs:83-86).
RunsOnceWhenAsked ==
  \A r \in Requests : done[r] <= 1 /\ (done[r] = 1 => r \in asked)

\* "succeeded" was the controller's word: it executed the command, or it released the
\* protective stop (dashboard_server.rs:140-147).
SucceededWasDone ==
  keys.state = "succeeded" =>
    /\ outcome[keys.command] = "ok"
    /\ Kind[keys.command] \in {"plain", "pause"} => done[keys.command] = 1

\* The client that sees the answer finds its own result beside it, not the last
\* request's (dashboard_server.rs:160-180).
ResultBesideAnswer == keys.state \in Terminal => keys.result = keys.command

\* The connection, its identity and Remote Control are taken back on every way out of it
\* (dashboard.rs:112-117).  The rest of what was polled is not: program_state,
\* program_running and operational_mode outlive their connection, until a poll of the next
\* one is complete.  They are known to be of the open connection only beside Remote Control.
StatusOfThisConnection ==
  /\ status.connected => link.pc \in Serving
  /\ status.remote \/ status.identity => status.connected
  /\ status.remote /\ sock.up => status.polled = Connection

\* An unlock is confirmed only once the protective stop it was asked for has been
\* released; the acknowledgement comes before that (dashboard.rs:482-488).
ReleaseWasConfirmed ==
  [][\A r \in Requests :
       Kind[r] = "unlock" /\ outcome[r] # "ok" /\ outcome'[r] = "ok"
         => ctl.releases >= link.stop]_vars

\* A hold is settled by the command it was asked with, unless the connection is lost on
\* the way: once the controller has acknowledged a pause the hold is latched, whatever
\* the program state says, and once "play" is sent the latch comes off, whatever "play"
\* does - left on, it would refuse every motion request (dashboard.rs:381-386, 441-443).
HoldIsSettled ==
  [][link'.pc = "serve" =>
       /\ link.pc = "paused" => status'.paused
       /\ link.pc \in {"play", "running", "playing"} => ~ status'.paused]_vars

\* Tokio polls every ready task and the controller answers.  A keepalive is due only
\* every two seconds, so a waiting command is not passed over for ever.  That the
\* controller can be reached again is not assumed.
Fairness ==
  /\ WF_vars(DashboardServerNext)
  /\ WF_vars(ServeNext)
  /\ SF_vars(TakeCommand)
  /\ WF_vars(AnswerLine)

FairSpec == Spec /\ Fairness
ReachableSpec == FairSpec /\ WF_vars(Connect)

\* dashboard_server waits for a slot of a full channel that nobody is reading.
Blocked == server.pc = "send" /\ Len(chan) = Capacity /\ link.pc = "down"

\* Every dashboard request that is triggered is answered, connection losses and bad
\* commands included (dashboard_server.rs:97-155), with one way out that the comment at
\* dashboard_server.rs:133-135 denies: the send of line 136 is outside the timeout, and
\* with the channel full and the dashboard out of reach it waits for ever.
EveryRequestAnswered ==
  keys.command \in asked ~>
    (keys.command \in asked /\ keys.state \in Terminal) \/ []Blocked

\* A command that arrives while the task reconnects is answered with a failure
\* (dashboard.rs:60-62).
MeanwhileIsFailed ==
  \A c \in Callers :
    link.pc = "down" /\ (\E i \in DOMAIN chan : chan[i] = c) ~> outcome[c] = "failed"
==============================================================================
