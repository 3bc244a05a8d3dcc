----------------------- MODULE DashboardSystem_proofs -----------------------
(***************************************************************************)
(* For any requests and sessions, any stops, any channel, and any number   *)
(* of polls, losses and protective stops: a reply is never taken for       *)
(* another line's, no caller is lost between the channel and its answer,   *)
(* and "succeeded" is what the controller did.                             *)
(*                                                                         *)
(* The socket is half duplex: one line is out or one reply is in, and      *)
(* only while serve() waits for it.  A command has one place at a time,    *)
(* from the trigger to its answer: with the client, with dashboard_server, *)
(* in the channel, or in service.                                          *)
(***************************************************************************)
EXTENDS DashboardSystem, SequenceTheorems, TLAPS

------------------------------------------------------------------------------
(***************************************************************************)
(* The inductive invariant.                                                *)
(***************************************************************************)
\* The keys and the server are about requests, and what the server sends is one.
SendsRequests ==
  /\ {keys.command, server.cur} \subseteq Requests \union {NoCaller}
  /\ server.pc \in {"execute", "send", "await"} => server.cur \in Requests

Typed == TypeOK /\ SendsRequests

\* One line out, or one reply in, and it is the one serve() waits for.
HalfDuplex ==
  \/ sock.wire = <<>> /\ sock.replies = <<>>
  \/ link.pc \in Awaiting /\ sock.wire = <<Line(link)>> /\ sock.replies = <<>>
  \/ link.pc \in Awaiting /\ sock.wire = <<>>
       /\ Len(sock.replies) = 1 /\ Head(sock.replies).to = Line(link)

\* The request the keys are about: the client's until its trigger is seen, the server's
\* until its state is written.
ClientsTurn == server.pc = "idle"
OneTurn ==
  /\ keys.command \notin asked => ClientsTurn /\ ~ keys.trigger /\ keys.state = "initial"
  /\ ~ ClientsTurn =>
       /\ keys.command \in asked /\ server.cur = keys.command
       /\ server.state = "initial" /\ keys.state \notin Terminal
  /\ keys.trigger => server.pc \in {"idle", "consume"} /\ keys.state = "initial"
  /\ server.pc = "state" => keys.result = keys.command
  /\ ResultBesideAnswer

\* What a command in service is being asked about is what it is.
KindInService ==
  /\ link.pc \in Serving \ {"serve", "poll"} => link.cur \in Callers
  /\ link.pc = "plain" => KindOf(link.cur) \notin {"unlock", "pause", "resume"}
  /\ link.pc \in {"popup", "unlock", "release"} => KindOf(link.cur) = "unlock"
  /\ link.pc \in {"pause", "paused"} => KindOf(link.cur) = "pause"
  /\ link.pc \in {"play", "running", "playing"} => KindOf(link.cur) = "resume"

\* A command is sent once: who has not been sent has no place in the channel, in service
\* or at the controller.
InChannel(c) == \E i \in DOMAIN chan : chan[i] = c
ChannelOnce ==
  /\ \A i, j \in DOMAIN chan : chan[i] = chan[j] => i = j
  /\ \A c \in Callers : InChannel(c) => outcome[c] # "idle"
ServiceApart ==
  /\ ~ InChannel(link.cur)
  /\ link.cur # NoCaller => outcome[link.cur] # "idle"
AskedFirst == \A r \in Requests : outcome[r] # "idle" => r \in asked
NotYetSent ==
  /\ server.pc \in {"idle", "consume", "execute", "send"}
  /\ keys.state \notin Terminal /\ keys.command # NoCaller
  => outcome[keys.command] = "idle"
OnePlace == ChannelOnce /\ ServiceApart /\ AskedFirst /\ NotYetSent

\* The line under way has not been executed yet, and no other is.
Executes(pc) == pc \in {"plain", "pause", "play"}
DoneOnce ==
  /\ \A c \in Callers : done[c] <= 1
  /\ \A c \in Callers : outcome[c] = "idle" \/ InChannel(c) => done[c] = 0
  /\ Executes(link.pc) /\ sock.wire # <<>> => done[link.cur] = 0
  /\ Executes(link.pc) /\ sock.replies # <<>> /\ Head(sock.replies).ok => done[link.cur] = 1
  /\ link.pc = "paused" => done[link.cur] = 1

\* A success is earned, and passed on as it is.
EarnedOk ==
  /\ \A c \in Callers : outcome[c] = "ok" /\ KindOf(c) \in {"plain", "pause"} => done[c] = 1
  /\ server.ok => server.pc \in {"result", "state"} /\ outcome[server.cur] = "ok"
  /\ keys.state = "succeeded" => outcome[keys.command] = "ok"

\* What is reported of the protective stops lags behind the controller, and never leads.
StopsLag ==
  /\ link.stop <= status.stop /\ status.stop <= ctl.stops
  /\ ctl.mode = 1 => ctl.releases = ctl.stops
  /\ status.safety = 1 => ctl.releases >= status.stop
  /\ ctl.releases <= ctl.stops

Connected ==
  /\ status.connected <=> link.pc \in Serving
  /\ status.remote \/ status.identity => status.connected
PolledNow == status.remote /\ sock.up => status.polled = Connection

\* What the theorems about callers rest on.
Places == Typed /\ HalfDuplex /\ OneTurn /\ KindInService /\ OnePlace

------------------------------------------------------------------------------
(***************************************************************************)
(* Types.                                                                  *)
(***************************************************************************)
\* Nobody has asked for anything at first.
LEMMA InitTyped == Init => Typed
<1> SUFFICES ASSUME Init PROVE Typed
  OBVIOUS
<1>1. keys \in Keys /\ server \in Servers /\ SendsRequests
  BY DEF Init, Keys, Servers, IdleServer, OptCaller, SendsRequests
<1>2. chan \in Seq(Callers) /\ Len(chan) <= Capacity
  BY DashboardAssumption DEF Init
<1>3. outcome \in [Callers -> Outcomes] /\ done \in [Callers -> Nat] /\ asked \subseteq Requests
  BY DEF Init, Outcomes
<1>4. link \in Links
  BY DashboardAssumption DEF Init, Down, Links, Steps, OptCaller
<1>5. sock \in [up : BOOLEAN, wire : Seq(Lines), replies : Seq(Replies)]
  BY DEF Init, NoSocket
<1>6. status \in Statuses /\ ctl \in Controllers
  BY DashboardAssumption DEF Init, Statuses, Controllers
<1> QED
  BY <1>1, <1>2, <1>3, <1>4, <1>5, <1>6 DEF Typed, TypeOK

\* A place in serve() is a link, and its line a line.
LEMMA LinkTyped ==
  ASSUME TypeOK
  PROVE  /\ \A pc \in {"serve", "release"} \union Awaiting, c \in OptCaller, n \in Steps :
               /\ At(pc, c, n) \in Links
               /\ [At(pc, c, n) EXCEPT !.stop = status.stop] \in Links
               /\ \A b \in BOOLEAN : [At(pc, c, n) EXCEPT !.remote = b] \in Links
         /\ Down \in Links /\ [Down EXCEPT !.pc = "serve"] \in Links
         /\ \A l \in Links : l.pc \in Awaiting => Line(l) \in Lines
<1>1. 0 \in Steps /\ 0 \in 0 .. MaxStops
  BY DashboardAssumption DEF Steps
<1>2. \A pc \in {"serve", "release"} \union Awaiting, c \in OptCaller, n \in Steps :
               /\ At(pc, c, n) \in Links
               /\ [At(pc, c, n) EXCEPT !.stop = status.stop] \in Links
               /\ \A b \in BOOLEAN : [At(pc, c, n) EXCEPT !.remote = b] \in Links
  <2>1. link = [pc |-> link.pc, cur |-> link.cur, step |-> link.step, remote |-> link.remote,
                stop |-> link.stop]
        /\ link.remote \in BOOLEAN /\ link.stop \in 0 .. MaxStops
        /\ status.stop \in 0 .. MaxStops
    BY DEF TypeOK, Links, Statuses
  <2>2. {"serve", "release"} \union Awaiting \subseteq {"down"} \union Serving \union Awaiting
    BY DEF Serving
  <2> QED
    BY <2>1, <2>2 DEF Links, At
<1>3. Down \in Links /\ [Down EXCEPT !.pc = "serve"] \in Links
  BY <1>1 DEF Down, Links, OptCaller, Serving
<1>4. \A l \in Links : l.pc \in Awaiting => Line(l) \in Lines
  BY DEF Links, Line, Lines
<1> QED
  BY <1>2, <1>3, <1>4

\* The fields of a place in serve().
LEMMA AtFields ==
  ASSUME TypeOK, NEW pc, NEW c, NEW n
  PROVE  /\ At(pc, c, n).pc = pc /\ At(pc, c, n).cur = c /\ At(pc, c, n).step = n
         /\ At(pc, c, n).stop = link.stop
<1>1. link = [pc |-> link.pc, cur |-> link.cur, step |-> link.step, remote |-> link.remote,
              stop |-> link.stop]
  BY DEF TypeOK, Links
<1> QED
  BY <1>1 DEF At

SockTyped == sock \in [up : BOOLEAN, wire : Seq(Lines), replies : Seq(Replies)]

\* Asking keeps the types of the link and of the socket.
LEMMA AskTyped ==
  ASSUME TypeOK, NEW next \in Links, next.pc \in Awaiting, Ask(next)
  PROVE  link' \in Links /\ SockTyped'
<1>1. Line(next) \in Lines
  BY LinkTyped
<1>2. Append(sock.wire, Line(next)) \in Seq(Lines)
  BY <1>1 DEF TypeOK
<1>3. (IF sock.replies = <<>> THEN sock.replies ELSE Tail(sock.replies)) \in Seq(Replies)
  BY DEF TypeOK
<1> QED
  BY <1>2, <1>3 DEF Ask, TypeOK, SockTyped

\* So does going back to serve a command.
LEMMA GoServeTyped ==
  ASSUME TypeOK, GoServe
  PROVE  link' \in Links /\ SockTyped'
<1>1. (IF sock.replies = <<>> THEN sock.replies ELSE Tail(sock.replies)) \in Seq(Replies)
  BY DEF TypeOK
<1> QED
  BY <1>1, LinkTyped DEF GoServe, TypeOK, SockTyped

\* An answer is an outcome.
LEMMA AnsweredTyped ==
  ASSUME TypeOK, NEW c \in OptCaller, NEW v \in {"ok", "failed"}
  PROVE  Answered(c, v) \in [Callers -> Outcomes]
BY DEF Answered, TypeOK, Outcomes, OptCaller

\* The server's steps.
LEMMA ServerTyped ==
  ASSUME Typed, DashboardServerNext
  PROVE  Typed'
<1>1. link' = link /\ sock' = sock /\ status' = status /\ ctl' = ctl /\ asked' = asked
      /\ done' = done
  BY DEF DashboardServerNext, ServerOnly, ReadKeys, ConsumeTrigger, WriteExecuting, SendCommand,
       ReplyArrives, CommandExpires, WriteResult, WriteState
<1> SUFFICES /\ keys' \in Keys /\ server' \in Servers /\ SendsRequests'
             /\ chan' \in Seq(Callers) /\ Len(chan') <= Capacity
             /\ outcome' \in [Callers -> Outcomes]
  BY <1>1 DEF Typed, TypeOK
<1> USE DEF Typed, TypeOK, SendsRequests
<1>2. CASE ReadKeys
  BY <1>2 DEF ReadKeys, IdleServer, Keys, Servers
<1>3. CASE ConsumeTrigger
  BY <1>3 DEF ConsumeTrigger, Consumed, AfterConsume, IdleServer, Keys, Servers, OptCaller
<1>4. CASE WriteExecuting
  BY <1>4 DEF WriteExecuting, Keys, Servers
<1>5. CASE SendCommand
  <2>1. server.cur \in Callers
    BY <1>5 DEF SendCommand, Callers
  <2>2. chan' = Append(chan, server.cur) /\ Len(chan) < Capacity
    BY <1>5 DEF SendCommand
  <2>3. chan' \in Seq(Callers) /\ Len(chan') <= Capacity
    BY <2>1, <2>2, DashboardAssumption
  <2> QED
    BY <1>5, <2>1, <2>3 DEF SendCommand, Servers, Outcomes
<1>6. CASE ReplyArrives
  BY <1>6 DEF ReplyArrives, Servers
<1>7. CASE CommandExpires
  BY <1>7 DEF CommandExpires, Servers, Outcomes
<1>8. CASE WriteResult
  BY <1>8 DEF WriteResult, Servers, Keys
<1>9. CASE WriteState
  BY <1>9 DEF WriteState, Servers, Keys, IdleServer, OptCaller, Terminal
<1> QED
  BY <1>2, <1>3, <1>4, <1>5, <1>6, <1>7, <1>8, <1>9 DEF DashboardServerNext

\* A loss is counted up to the bound.
LEMMA LossTyped ==
  ASSUME TypeOK
  PROVE  ctl.losses < MaxLosses => [ctl EXCEPT !.losses = @ + 1] \in Controllers
<1>1. ctl \in Controllers /\ MaxLosses \in Nat
  BY DashboardAssumption DEF TypeOK
<1>2. ctl.losses < MaxLosses => ctl.losses + 1 \in 0 .. MaxLosses
  BY <1>1 DEF Controllers
<1> QED
  BY <1>1, <1>2 DEF Controllers

\* Where a command is started, and with what.
LEMMA FirstLineTyped ==
  ASSUME TypeOK, NEW c \in OptCaller
  PROVE  /\ FirstLine(c) \in Links
         /\ FirstLine(c).pc \in {"popup", "pause", "play", "plain"} /\ FirstLine(c).pc \in Awaiting
         /\ FirstLine(c).cur = c /\ FirstLine(c).stop \in {link.stop, status.stop}
         /\ FirstLine(c).pc = "popup" <=> KindOf(c) = "unlock"
         /\ FirstLine(c).pc = "pause" <=> KindOf(c) = "pause"
         /\ FirstLine(c).pc = "play" <=> KindOf(c) = "resume"
<1>1. 0 \in Steps
  BY DashboardAssumption DEF Steps
<1>2. link = [pc |-> link.pc, cur |-> link.cur, step |-> link.step, remote |-> link.remote,
              stop |-> link.stop]
  BY DEF TypeOK, Links
<1>3. \A pc \in {"popup", "pause", "play", "plain"} :
        /\ pc \in Awaiting /\ At(pc, c, 0) \in Links
        /\ [At(pc, c, 0) EXCEPT !.stop = status.stop] \in Links
        /\ At(pc, c, 0).pc = pc /\ At(pc, c, 0).cur = c /\ At(pc, c, 0).stop = link.stop
        /\ [At(pc, c, 0) EXCEPT !.stop = status.stop].pc = pc
        /\ [At(pc, c, 0) EXCEPT !.stop = status.stop].cur = c
        /\ [At(pc, c, 0) EXCEPT !.stop = status.stop].stop = status.stop
  BY <1>1, <1>2, LinkTyped DEF At, Awaiting, Conversations
<1>4. CASE KindOf(c) = "unlock"
  BY <1>3, <1>4 DEF FirstLine
<1>5. CASE KindOf(c) = "pause"
  BY <1>3, <1>5 DEF FirstLine
<1>6. CASE KindOf(c) = "resume"
  BY <1>3, <1>6 DEF FirstLine
<1>7. CASE KindOf(c) \notin {"unlock", "pause", "resume"}
  BY <1>3, <1>7 DEF FirstLine
<1> QED
  BY <1>4, <1>5, <1>6, <1>7

\* The task's steps.
LEMMA TaskTyped ==
  ASSUME Typed, DashboardTaskNext
  PROVE  Typed'
<1>1. keys' = keys /\ server' = server /\ asked' = asked /\ done' = done
  BY DEF DashboardTaskNext, ServeNext, TaskOnly, Connect, ReadGreeting, ReadIdentity, TakeCommand,
     ReadPlain,
       ReadPopup, ReadUnlock, ConfirmRelease, ReleaseExpires, ReadPause, ReadPaused, ReadPlay,
       ReadRunning, ReadPlaying, Keepalive, ReadStatus, RoundTripFails
<1> SUFFICES /\ chan' \in Seq(Callers) /\ Len(chan') <= Capacity
             /\ outcome' \in [Callers -> Outcomes]
             /\ link' \in Links /\ SockTyped'
             /\ status' \in Statuses /\ ctl' \in Controllers
  BY <1>1 DEF Typed, TypeOK, SendsRequests, SockTyped
<1> TypeOK
  BY DEF Typed
<1>a. link.cur \in OptCaller /\ NoCaller \in OptCaller /\ link.step \in Steps
      /\ 0 \in Steps /\ 1 \in Steps
      /\ (link.step < Facts \/ link.step < Queries \/ link.step < MaxPolls =>
            link.step + 1 \in Steps)
  BY DashboardAssumption DEF TypeOK, Links, Steps, OptCaller
<1>b. sock.replies # <<>> => ReplyOk \in BOOLEAN
  <2>1. sock.replies \in Seq(Replies)
    BY DEF TypeOK
  <2>2. sock.replies # <<>> => Head(sock.replies) \in Replies
    BY <2>1
  <2> QED
    BY <2>2 DEF Replies, ReplyOk
<1>c. \A b \in BOOLEAN : Latched(b) \in Statuses
  BY DEF Latched, TypeOK, Statuses
<1>d. /\ (GoServe => link' \in Links /\ SockTyped')
      /\ \A pc \in Awaiting, c \in OptCaller, n \in Steps :
           Ask(At(pc, c, n)) => link' \in Links /\ SockTyped'
  <2>1. GoServe => link' \in Links /\ SockTyped'
    BY GoServeTyped
  <2>2. ASSUME NEW pc \in Awaiting, NEW c \in OptCaller, NEW n \in Steps, Ask(At(pc, c, n))
        PROVE  link' \in Links /\ SockTyped'
    <3>1. At(pc, c, n) \in Links /\ At(pc, c, n).pc \in Awaiting
      BY LinkTyped DEF At, TypeOK, Links
    <3> QED
      BY <3>1, <2>2, AskTyped
  <2> QED
    BY <2>1, <2>2
<1>e. \A pc \in Awaiting : PollAgain(pc) => link' \in Links /\ SockTyped'
  BY <1>a, <1>d DEF PollAgain
<1>f. \A v \in {"ok", "failed"} :
        Concluded(v) => link' \in Links /\ SockTyped' /\ outcome' \in [Callers -> Outcomes]
  BY <1>a, <1>d, AnsweredTyped DEF Concluded
<1>g. FallBack => link' \in Links /\ SockTyped' /\ outcome' \in [Callers -> Outcomes]
                  /\ status' \in Statuses
  BY <1>c, <1>f DEF FallBack
<1> USE DEF TypeOK, SockTyped, Awaiting, Conversations
<1>2. CASE Connect
  <2> DEFINE next == At("greeting", NoCaller, 0)
  <2>0. "greeting" \in Awaiting /\ next.pc = "greeting"
    BY AtFields
  <2>1. next \in Links /\ next.pc \in Awaiting
    BY <2>0, <1>a, LinkTyped
  <2>2. Line(next) \in Lines
    BY <2>1, LinkTyped
  <2> QED
    BY <1>2, <2>1, <2>2 DEF Connect
<1>3. CASE ReadGreeting
  BY <1>3, <1>a, <1>d DEF ReadGreeting
<1>4. CASE ReadIdentity
  <2>1. link' \in Links /\ SockTyped'
    BY <1>4, <1>a, <1>d DEF ReadIdentity
  <2> QED
    BY <1>4, <2>1 DEF ReadIdentity, Statuses
<1>5. CASE TakeCommand
  <2>1. chan # <<>> /\ Head(chan) \in Callers /\ Tail(chan) \in Seq(Callers)
        /\ Len(Tail(chan)) <= Capacity
    BY <1>5, DashboardAssumption DEF TakeCommand
  <2>2. CASE Pointless(Head(chan)) /\ outcome' = Answered(Head(chan), "failed")
             /\ UNCHANGED <<link, sock>>
    BY <1>5, <2>1, <2>2, AnsweredTyped DEF TakeCommand, OptCaller
  <2>3. CASE Ask(FirstLine(Head(chan))) /\ UNCHANGED outcome
    <3>0. Head(chan) \in OptCaller
      BY <2>1 DEF OptCaller
    <3>1. FirstLine(Head(chan)) \in Links /\ FirstLine(Head(chan)).pc \in Awaiting
      BY <3>0, <1>a, FirstLineTyped
    <3>2. link' \in Links /\ SockTyped'
      BY <3>1, <2>3, AskTyped
    <3> QED
      BY <1>5, <2>1, <2>3, <3>2 DEF TakeCommand
  <2> QED
    BY <1>5, <2>2, <2>3 DEF TakeCommand
<1>6. CASE ReadPlain
  BY <1>6, <1>a, <1>b, <1>d, AnsweredTyped DEF ReadPlain, HasReply, Verdict
<1>7. CASE ReadPopup
  BY <1>7, <1>a, <1>d DEF ReadPopup
<1>8. CASE ReadUnlock
  <2>1. CASE ReplyOk /\ link' = At("release", link.cur, 0)
             /\ sock' = [sock EXCEPT !.replies = Tail(@)] /\ UNCHANGED outcome
    <3>1. Tail(sock.replies) \in Seq(Replies)
      BY <1>8 DEF ReadUnlock, HasReply
    <3> QED
      BY <1>8, <2>1, <3>1, <1>a, LinkTyped DEF ReadUnlock
  <2>2. CASE outcome' = Answered(link.cur, "failed") /\ GoServe
    BY <1>8, <2>2, <1>a, <1>d, AnsweredTyped DEF ReadUnlock
  <2> QED
    BY <1>8, <2>1, <2>2 DEF ReadUnlock
<1>9. CASE ConfirmRelease \/ ReleaseExpires
  BY <1>9, <1>a, <1>d, AnsweredTyped DEF ConfirmRelease, ReleaseExpires
<1>10. CASE ReadPause
  BY <1>10, <1>a, <1>d, <1>f DEF ReadPause
<1>11. CASE ReadPaused
  BY <1>11, <1>c, <1>e, <1>f DEF ReadPaused
<1>12. CASE ReadPlay
  BY <1>12, <1>a, <1>d, <1>g DEF ReadPlay
<1>13. CASE ReadRunning
  BY <1>13, <1>a, <1>d, <1>e, <1>g DEF ReadRunning
<1>14. CASE ReadPlaying
  BY <1>14, <1>c, <1>e, <1>f, <1>g DEF ReadPlaying
<1>15. CASE Keepalive
  BY <1>15, <1>a, <1>d DEF Keepalive
<1>16. CASE ReadStatus
  <2>1. CASE /\ link.step < Queries
             /\ Ask([At("poll", NoCaller, link.step + 1)
                     EXCEPT !.remote = IF link.step = 1 THEN ReplyOk ELSE @])
             /\ UNCHANGED status
    <3> DEFINE next == [At("poll", NoCaller, link.step + 1)
                        EXCEPT !.remote = IF link.step = 1 THEN ReplyOk ELSE @]
    <3>1. next \in Links /\ next.pc \in Awaiting
      BY <1>16, <2>1, <1>a, <1>b DEF ReadStatus, HasReply, At, Links
    <3>2. link' \in Links /\ SockTyped'
      BY <3>1, <2>1, AskTyped
    <3> QED
      BY <1>16, <2>1, <3>2 DEF ReadStatus
  <2>2. CASE /\ GoServe
             /\ status' = [status EXCEPT !.remote = IF link.step = 1 THEN ReplyOk ELSE link.remote,
                                         !.polled = Connection]
    <3>0. Connection \in 0 .. MaxLosses + 1
      BY DashboardAssumption DEF Connection, Controllers
    <3>1. status' \in Statuses
      BY <1>16, <2>2, <3>0, <1>b DEF ReadStatus, HasReply, Statuses, Links
    <3> QED
      BY <1>16, <2>2, <3>1, <1>d DEF ReadStatus
  <2> QED
    BY <1>16, <2>1, <2>2 DEF ReadStatus
<1>17. CASE RoundTripFails
  <2>1. ctl' = ctl \/ (ctl.losses < MaxLosses /\ ctl' = [ctl EXCEPT !.losses = @ + 1])
    BY <1>17 DEF RoundTripFails, SocketFailed, CountLoss
  <2>3. ctl' \in Controllers
    BY <2>1, LossTyped
  <2>2. status' \in Statuses
    BY <1>17 DEF RoundTripFails, TornDown, Statuses
  <2> QED
    BY <1>17, <2>2, <2>3, <1>a, AnsweredTyped, LinkTyped DEF RoundTripFails, NoSocket
<1> QED
  BY <1>2, <1>3, <1>4, <1>5, <1>6, <1>7, <1>8, <1>9, <1>10, <1>11, <1>12, <1>13, <1>14, <1>15,
     <1>16, <1>17 DEF DashboardTaskNext, ServeNext

\* What a line may add to the executions.
LEMMA ExecutedTyped ==
  ASSUME TypeOK, NEW line, NEW ok
  PROVE  Executed(line, ok) \in [Callers -> Nat]
<1>1. done \in [Callers -> Nat]
  BY DEF TypeOK
<1>2. ASSUME NEW c PROVE [done EXCEPT ![c] = @ + 1] \in [Callers -> Nat]
  <2>1. CASE c \in Callers
    BY <1>1, <2>1
  <2>2. CASE c \notin Callers
    BY <1>1, <2>2
  <2> QED
    BY <2>1, <2>2
<1> QED
  BY <1>1, <1>2 DEF Executed

\* The steps of the client, of the goals and of the controller.
LEMMA OthersTyped ==
  ASSUME Typed, Next, ~ DashboardServerNext, ~ DashboardTaskNext
  PROVE  Typed'
<1> TypeOK
  BY DEF Typed
<1> USE DEF Typed, SendsRequests
<1>1. ASSUME NEW r \in Requests, Prepare(r) PROVE Typed'
  BY <1>1 DEF Prepare, ClientOnly, TypeOK, Keys, OptCaller, Callers
<1>2. CASE Trigger
  BY <1>2 DEF Trigger, ClientOnly, TypeOK, Keys
<1>3. ASSUME NEW s \in Stops, TryStop(s) PROVE Typed'
  <2>1. chan' \in Seq(Callers) /\ Len(chan') <= Capacity
    <3>1. s \in Callers
      BY DEF Callers
    <3>2. chan' = chan \/ (chan' = Append(chan, s) /\ Len(chan) < Capacity)
      BY <1>3 DEF TryStop
    <3>3. chan \in Seq(Callers) /\ Len(chan) <= Capacity /\ Capacity \in Nat
      BY DashboardAssumption DEF TypeOK
    <3> QED
      BY <3>1, <3>2, <3>3
  <2>2. outcome' \in [Callers -> Outcomes]
    BY <1>3 DEF TryStop, TypeOK, Outcomes
  <2> QED
    BY <1>3, <2>1, <2>2 DEF TryStop, ClientOnly, TypeOK
<1>4. CASE GoalEnds
  BY <1>4 DEF GoalEnds, TypeOK, Statuses
<1>5. CASE AnswerLine
  <2>1. PICK ok \in BOOLEAN :
          /\ sock' = [sock EXCEPT !.wire = Tail(@),
                                  !.replies = Append(@, [to |-> Head(sock.wire), ok |-> ok])]
          /\ done' = Executed(Head(sock.wire), ok)
          /\ ctl' = [ctl EXCEPT !.releasing = @ \/ Unlocks(Head(sock.wire), ok)]
    BY <1>5 DEF AnswerLine
  <2>2. sock.wire # <<>> /\ Head(sock.wire) \in Lines /\ Tail(sock.wire) \in Seq(Lines)
    BY <1>5 DEF AnswerLine, TypeOK
  <2>3. Append(sock.replies, [to |-> Head(sock.wire), ok |-> ok]) \in Seq(Replies)
    BY <2>2 DEF TypeOK, Replies
  <2>4. SockTyped'
    BY <2>1, <2>2, <2>3 DEF TypeOK, SockTyped
  <2>5. ctl' \in Controllers
    BY <2>1 DEF TypeOK, Controllers, Unlocks
  <2> QED
    BY <1>5, <2>1, <2>4, <2>5, ExecutedTyped
    DEF AnswerLine, ControllerOnly, TypeOK, SockTyped
<1>6. CASE CloseConnection
  <2>1. SockTyped'
    BY <1>6 DEF CloseConnection, NoSocket, SockTyped
  <2>a. done' = done \/ done' = Executed(Head(sock.wire), TRUE)
    BY <1>6 DEF CloseConnection
  <2>b. done \in [Callers -> Nat]
    BY DEF TypeOK
  <2>2. done' \in [Callers -> Nat]
    BY <2>a, <2>b, ExecutedTyped
  <2>3. ctl' = [ctl EXCEPT !.losses = @ + 1]
        \/ ctl' = [ctl EXCEPT !.losses = @ + 1,
                              !.releasing = @ \/ (ctl.mode = 3 /\ Unlocks(Head(sock.wire), TRUE))]
    BY <1>6 DEF CloseConnection
  <2>4. [ctl EXCEPT !.losses = @ + 1] \in Controllers
    BY <1>6, LossTyped DEF CloseConnection
  <2>5. ctl' \in Controllers
    BY <2>3, <2>4 DEF TypeOK, Controllers, Unlocks
  <2> QED
    BY <1>6, <2>1, <2>2, <2>5 DEF CloseConnection, ControllerOnly, TypeOK, SockTyped
<1>7. CASE ProtectiveStop
  <2>1. ctl \in Controllers /\ MaxStops \in Nat /\ ctl.stops < MaxStops
    BY <1>7, DashboardAssumption DEF ProtectiveStop, TypeOK
  <2>2. ctl.stops + 1 \in 0 .. MaxStops
    BY <2>1 DEF Controllers
  <2>3. ctl' \in Controllers
    BY <1>7, <2>1, <2>2 DEF ProtectiveStop, Controllers
  <2> QED
    BY <1>7, <2>3 DEF ProtectiveStop, ControllerOnly, TypeOK
<1>8. CASE ReleaseStop \/ ReleaseFails
  <2>1. ctl' \in Controllers
    BY <1>8 DEF ReleaseStop, ReleaseFails, TypeOK, Controllers
  <2> QED
    BY <1>8, <2>1 DEF ReleaseStop, ReleaseFails, ControllerOnly, TypeOK
<1>9. CASE RealtimeFrame
  <2>1. status' \in Statuses
    BY <1>9 DEF RealtimeFrame, TypeOK, Controllers, Statuses
  <2> QED
    BY <1>9, <2>1 DEF RealtimeFrame, ControllerOnly, TypeOK
<1> QED
  BY <1>1, <1>2, <1>3, <1>4, <1>5, <1>6, <1>7, <1>8, <1>9 DEF Next

\* Every variable of the dashboard interface stays in its type.
LEMMA TypedAlways == Spec => []Typed
<1>1. Typed /\ [Next]_vars => Typed'
  <2>1. Typed /\ Next => Typed'
    BY ServerTyped, TaskTyped, OthersTyped
  <2>2. Typed /\ UNCHANGED vars => Typed'
    BY DEF vars, Typed, TypeOK, SendsRequests
  <2> QED
    BY <2>1, <2>2
<1> QED
  BY InitTyped, <1>1, PTL DEF Spec

\* Every variable of the dashboard interface stays in its type (TypeOK).
THEOREM TypeCorrect == Spec => []TypeOK
<1>1. Typed => TypeOK
  BY DEF Typed
<1> QED
  BY TypedAlways, <1>1, PTL

------------------------------------------------------------------------------
(***************************************************************************)
(* What the task's steps come down to.                                     *)
(***************************************************************************)
\* Which round trip may follow which.
Follows ==
  { <<"greeting", "identity">>, <<"identity", "identity">>, <<"serve", "poll">>,
    <<"poll", "poll">>, <<"popup", "unlock">>, <<"pause", "paused">>, <<"paused", "paused">>,
    <<"play", "running">>, <<"running", "running">>, <<"running", "playing">>,
    <<"playing", "running">> }

OneLineOut == sock.wire = <<Line(link)>> /\ sock.replies = <<>>
NothingUnderWay == sock.wire = <<>> /\ sock.replies = <<>>

\* The next line of the same conversation goes out.
GoesOn ==
  /\ <<link.pc, link'.pc>> \in Follows
  /\ link'.cur = IF link'.pc \in {"identity", "poll"} THEN NoCaller ELSE link.cur
  /\ link'.stop = link.stop
  /\ link.pc = "pause" => sock.replies # <<>> /\ ReplyOk
  /\ OneLineOut'
  /\ UNCHANGED <<chan, outcome, status, ctl>>

\* An unlock is acknowledged, and its release waited for.
Acknowledged ==
  /\ link.pc = "unlock" /\ link'.pc = "release" /\ link'.cur = link.cur /\ link'.stop = link.stop
  /\ NothingUnderWay'
  /\ UNCHANGED <<chan, outcome, status, ctl>>

\* The conversation is over, and whoever waited for it has an answer.
Deserved(v) ==
  v = "ok" =>
    \/ link.pc = "release" /\ Released
    \/ link.pc = "plain" /\ sock.replies # <<>> /\ ReplyOk
    \/ link.pc \in {"paused", "play", "running", "playing"}
GoesBack ==
  /\ link.pc \in Serving \union {"identity"} /\ link.pc \notin {"serve", "popup"}
  /\ link' = [Down EXCEPT !.pc = "serve"]
  /\ \/ link.pc \in {"identity", "poll"} /\ outcome' = outcome
     \/ /\ link.pc \notin {"identity", "poll"}
        /\ \E v \in {"ok", "failed"} : Deserved(v) /\ outcome' = Answered(link.cur, v)
  /\ status'.safety = status.safety /\ status'.stop = status.stop
  /\ link.pc = "identity" => status'.connected
  /\ link.pc # "identity" =>
       status'.connected = status.connected /\ status'.identity = status.identity
  /\ link.pc # "poll" => status'.remote = status.remote
  /\ link.pc = "paused" => status'.paused
  /\ link.pc \in {"play", "running", "playing"} => ~ status'.paused
  /\ NothingUnderWay'
  /\ UNCHANGED <<chan, ctl>>

\* After the only element of a sequence there is none.
LEMMA TailOfOne ==
  ASSUME NEW S, NEW s \in Seq(S), Len(s) = 1
  PROVE  Tail(s) = <<>>
<1>1. s # <<>>
  OBVIOUS
<1>2. Tail(s) \in Seq(S) /\ Len(Tail(s)) = 0
  BY <1>1, HeadTailProperties
<1> QED
  BY <1>2, EmptySeq

\* Asking puts the one line on a wire that is empty.
LEMMA AskAlone ==
  ASSUME Typed, HalfDuplex, NEW next, Ask(next), link.pc \notin Awaiting \/ sock.replies # <<>>
  PROVE  link' = next /\ OneLineOut'
<1>1. sock.wire = <<>> /\ (sock.replies = <<>> \/ Len(sock.replies) = 1)
  BY DEF HalfDuplex
<1>2. Append(sock.wire, Line(next)) = <<Line(next)>>
  BY <1>1
<1>3. (IF sock.replies = <<>> THEN sock.replies ELSE Tail(sock.replies)) = <<>>
  BY <1>1, TailOfOne DEF Typed, TypeOK
<1> QED
  BY <1>2, <1>3 DEF Ask, OneLineOut, Typed, TypeOK, Line

\* Going back takes the last reply with it.
LEMMA GoServeAlone ==
  ASSUME Typed, HalfDuplex, GoServe, link.pc \notin Awaiting \/ sock.replies # <<>>
  PROVE  link' = [Down EXCEPT !.pc = "serve"] /\ NothingUnderWay'
<1>1. sock.wire = <<>> /\ (sock.replies = <<>> \/ Len(sock.replies) = 1)
  BY DEF HalfDuplex
<1>2. (IF sock.replies = <<>> THEN sock.replies ELSE Tail(sock.replies)) = <<>>
  BY <1>1, TailOfOne DEF Typed, TypeOK
<1> QED
  BY <1>1, <1>2 DEF GoServe, NothingUnderWay, Typed, TypeOK

\* Every step of the task is a connection made or lost, a command taken, or a move on in
\* the conversation it is in.
LEMMA TaskMoves ==
  ASSUME Typed, HalfDuplex, DashboardTaskNext
  PROVE  Connect \/ TakeCommand \/ RoundTripFails \/ GoesOn \/ Acknowledged \/ GoesBack
<1> TypeOK
  BY DEF Typed
<1> USE DEF TaskOnly, Serving, Awaiting, Conversations
<1>a. \A next : Ask(next) /\ (link.pc \notin Awaiting \/ sock.replies # <<>>) =>
        link' = next /\ OneLineOut'
  BY AskAlone
<1>b. GoServe /\ (link.pc \notin Awaiting \/ sock.replies # <<>>) =>
        link' = [Down EXCEPT !.pc = "serve"] /\ NothingUnderWay'
  BY GoServeAlone
<1>c. \A pc, c, n : /\ At(pc, c, n).pc = pc /\ At(pc, c, n).cur = c
                    /\ At(pc, c, n).stop = link.stop
  BY AtFields
<1>d. \A on \in BOOLEAN :
        /\ Latched(on).safety = status.safety /\ Latched(on).stop = status.stop
        /\ Latched(on).connected = status.connected /\ Latched(on).identity = status.identity
        /\ Latched(on).remote = status.remote /\ Latched(on).paused = on
  BY DEF Latched, TypeOK, Statuses
<1>e. \A v \in {"ok", "failed"} : Concluded(v) /\ sock.replies # <<>> =>
        /\ link' = [Down EXCEPT !.pc = "serve"] /\ NothingUnderWay'
        /\ outcome' = Answered(link.cur, v)
  BY <1>b DEF Concluded
<1>f. \A pc \in {"paused", "running"} : PollAgain(pc) /\ sock.replies # <<>> =>
        link'.pc = pc /\ link'.cur = link.cur /\ link'.stop = link.stop /\ OneLineOut'
  BY <1>a, <1>c DEF PollAgain
<1>2. CASE ReadGreeting
  BY <1>2, <1>a, <1>c DEF ReadGreeting, HasReply, GoesOn, Follows
<1>3. CASE ReadIdentity
  <2>1. CASE Ask(At("identity", NoCaller, link.step + 1)) /\ UNCHANGED status
    BY <1>3, <2>1, <1>a, <1>c DEF ReadIdentity, HasReply, GoesOn, Follows
  <2>2. CASE GoServe /\ status' = [status EXCEPT !.identity = TRUE, !.connected = TRUE]
    BY <1>3, <2>2, <1>b DEF ReadIdentity, HasReply, GoesBack, TypeOK, Statuses
  <2> QED
    BY <1>3, <2>1, <2>2 DEF ReadIdentity
<1>4. CASE ReadPlain
  BY <1>4, <1>b DEF ReadPlain, HasReply, GoesBack, Deserved, Verdict
<1>5. CASE ReadPopup
  BY <1>5, <1>a, <1>c DEF ReadPopup, HasReply, GoesOn, Follows
<1>6. CASE ReadUnlock
  <2>1. CASE link' = At("release", link.cur, 0) /\ sock' = [sock EXCEPT !.replies = Tail(@)]
             /\ UNCHANGED outcome
    <3>1. sock.wire = <<>> /\ Len(sock.replies) = 1 /\ sock.replies \in Seq(Replies)
      BY <1>6 DEF ReadUnlock, HasReply, HalfDuplex, TypeOK
    <3>2. NothingUnderWay'
      BY <2>1, <3>1, TailOfOne DEF NothingUnderWay, TypeOK
    <3> QED
      BY <1>6, <2>1, <3>2, <1>c DEF ReadUnlock, HasReply, Acknowledged
  <2>2. CASE outcome' = Answered(link.cur, "failed") /\ GoServe
    BY <1>6, <2>2, <1>b DEF ReadUnlock, HasReply, GoesBack, Deserved
  <2> QED
    BY <1>6, <2>1, <2>2 DEF ReadUnlock
<1>7. CASE ConfirmRelease \/ ReleaseExpires
  BY <1>7, <1>b DEF ConfirmRelease, ReleaseExpires, GoesBack, Deserved
<1>8. CASE ReadPause
  BY <1>8, <1>a, <1>b, <1>c DEF ReadPause, HasReply, Concluded, GoesOn, Follows, GoesBack, Deserved
<1>9. CASE ReadPaused
  <2>1. CASE Concluded("ok") /\ status' = Latched(TRUE)
    BY <1>9, <2>1, <1>d, <1>e DEF ReadPaused, HasReply, GoesBack, Deserved
  <2>2. CASE PollAgain("paused") /\ UNCHANGED <<outcome, status>>
    BY <1>9, <2>2, <1>f DEF ReadPaused, HasReply, GoesOn, Follows
  <2> QED
    BY <1>9, <2>1, <2>2 DEF ReadPaused
<1>g. ASSUME NEW pc \in {"play", "running", "playing"}, HasReply(pc), NEW v \in {"ok", "failed"},
             Concluded(v), status' = Latched(FALSE), UNCHANGED <<chan, ctl>>
      PROVE  GoesBack
  BY <1>g, <1>d, <1>e DEF HasReply, GoesBack, Deserved
<1>10. CASE ReadPlay
  <2>1. CASE Ask(At("running", link.cur, 0)) /\ UNCHANGED <<outcome, status>>
    BY <1>10, <2>1, <1>a, <1>c DEF ReadPlay, HasReply, GoesOn, Follows
  <2> QED
    BY <1>10, <2>1, <1>g DEF ReadPlay, FallBack
<1>11. CASE ReadRunning
  <2>1. CASE Ask(At("playing", link.cur, link.step)) /\ UNCHANGED <<outcome, status>>
    BY <1>11, <2>1, <1>a, <1>c DEF ReadRunning, HasReply, GoesOn, Follows
  <2>2. CASE PollAgain("running") /\ UNCHANGED <<outcome, status>>
    BY <1>11, <2>2, <1>f DEF ReadRunning, HasReply, GoesOn, Follows
  <2> QED
    BY <1>11, <2>1, <2>2, <1>g DEF ReadRunning, FallBack
<1>12. CASE ReadPlaying
  <2>1. CASE PollAgain("running") /\ UNCHANGED <<outcome, status>>
    BY <1>12, <2>1, <1>f DEF ReadPlaying, HasReply, GoesOn, Follows
  <2> QED
    BY <1>12, <2>1, <1>g DEF ReadPlaying, FallBack
<1>13. CASE Keepalive
  BY <1>13, <1>a, <1>c DEF Keepalive, GoesOn, Follows
<1>14. CASE ReadStatus
  <2> DEFINE next == [At("poll", NoCaller, link.step + 1)
                      EXCEPT !.remote = IF link.step = 1 THEN ReplyOk ELSE @]
  <2>1. CASE Ask(next) /\ UNCHANGED status
    <3>1. next.pc = "poll" /\ next.cur = NoCaller /\ next.stop = link.stop
      BY DEF At, TypeOK, Links
    <3>2. link' = next /\ OneLineOut'
      BY <1>14, <2>1, <1>a DEF ReadStatus, HasReply
    <3>3. link'.pc = "poll" /\ link'.cur = NoCaller /\ link'.stop = link.stop
      BY <3>1, <3>2
    <3> QED
      BY <1>14, <2>1, <3>2, <3>3 DEF ReadStatus, HasReply, GoesOn, Follows
  <2>2. CASE GoServe /\ status' = [status EXCEPT !.remote = IF link.step = 1 THEN ReplyOk
                                                            ELSE link.remote,
                                                 !.polled = Connection]
    BY <1>14, <2>2, <1>b DEF ReadStatus, HasReply, GoesBack, TypeOK, Statuses
  <2> QED
    BY <1>14, <2>1, <2>2 DEF ReadStatus
<1> QED
  BY <1>2, <1>3, <1>4, <1>5, <1>6, <1>7, <1>8, <1>9, <1>10, <1>11, <1>12, <1>13, <1>14
  DEF DashboardTaskNext, ServeNext

------------------------------------------------------------------------------
(***************************************************************************)
(* The socket and the connection.                                          *)
(***************************************************************************)
\* A command is taken by nobody asking, or by asking its first line.
LEMMA TakesCommand ==
  ASSUME Typed, HalfDuplex, TakeCommand
  PROVE  /\ chan # <<>> /\ Head(chan) \in Callers /\ chan' = Tail(chan) /\ link.pc = "serve"
         /\ UNCHANGED <<status, ctl, keys, server, asked, done>>
         /\ \/ /\ Pointless(Head(chan)) /\ outcome' = Answered(Head(chan), "failed")
               /\ UNCHANGED <<link, sock>>
            \/ /\ link' = FirstLine(Head(chan)) /\ OneLineOut' /\ UNCHANGED outcome
               /\ ~ Pointless(Head(chan))
<1>1. chan # <<>> /\ Head(chan) \in Callers
  BY DEF TakeCommand, Typed, TypeOK
<1>2. link.pc \notin Awaiting
  BY DEF TakeCommand, Awaiting, Conversations
<1>3. Ask(FirstLine(Head(chan))) => link' = FirstLine(Head(chan)) /\ OneLineOut'
  BY <1>2, AskAlone
<1> QED
  BY <1>1, <1>3 DEF TakeCommand, TaskOnly

\* What the client, the server and the goals do leaves the task alone; the controller
\* leaves the link alone.
LEMMA OthersLeaveLink ==
  ASSUME Next, ~ DashboardTaskNext
  PROVE  /\ link' = link
         /\ AnswerLine \/ CloseConnection \/ sock' = sock
<1>1. DashboardServerNext => link' = link /\ sock' = sock
  BY DEF DashboardServerNext, ServerOnly, ReadKeys, ConsumeTrigger, WriteExecuting, SendCommand,
       ReplyArrives, CommandExpires, WriteResult, WriteState
<1> QED
  BY <1>1 DEF Next, Prepare, Trigger, TryStop, ClientOnly, GoalEnds, AnswerLine, CloseConnection,
       ProtectiveStop, ReleaseStop, ReleaseFails, RealtimeFrame, ControllerOnly

\* The controller turns the one line into the one reply.
LEMMA AnswersTheLine ==
  ASSUME Typed, HalfDuplex, AnswerLine
  PROVE  \E ok \in BOOLEAN :
           /\ link.pc \in Awaiting /\ sock.wire # <<>> /\ Head(sock.wire) = Line(link)
           /\ Grants(Line(link), ok)
           /\ sock'.wire = <<>> /\ sock'.replies = <<[to |-> Line(link), ok |-> ok]>>
           /\ done' = Executed(Line(link), ok)
           /\ UNCHANGED <<status, keys, server, chan, outcome, link, asked>>
<1>1. PICK ok \in BOOLEAN :
        /\ Grants(Head(sock.wire), ok)
        /\ sock' = [sock EXCEPT !.wire = Tail(@),
                                !.replies = Append(@, [to |-> Head(sock.wire), ok |-> ok])]
        /\ done' = Executed(Head(sock.wire), ok)
  BY DEF AnswerLine
<1>2. link.pc \in Awaiting /\ sock.wire = <<Line(link)>> /\ sock.replies = <<>>
  BY DEF HalfDuplex, AnswerLine
<1>3. sock.wire # <<>> /\ Head(sock.wire) = Line(link) /\ Tail(sock.wire) = <<>>
  BY <1>2
<1>4. Append(sock.replies, [to |-> Line(link), ok |-> ok]) = <<[to |-> Line(link), ok |-> ok]>>
  BY <1>2
<1>5. sock'.wire = <<>> /\ sock'.replies = <<[to |-> Line(link), ok |-> ok]>>
  BY <1>1, <1>3, <1>4 DEF Typed, TypeOK
<1> QED
  BY <1>1, <1>2, <1>3, <1>5 DEF AnswerLine, ControllerOnly

\* There is never more than one line or one reply, and it is the awaited one.
LEMMA HalfDuplexKept ==
  ASSUME Typed, HalfDuplex, Next
  PROVE  HalfDuplex'
<1>1. CASE DashboardTaskNext
  <2>1. OneLineOut' /\ link'.pc \in Awaiting => HalfDuplex'
    BY DEF OneLineOut, HalfDuplex
  <2>2. NothingUnderWay' => HalfDuplex'
    BY DEF NothingUnderWay, HalfDuplex
  <2>3. CASE Connect
    <3>1. link' = At("greeting", NoCaller, 0) /\ sock'.wire = <<Line(link')>>
          /\ sock'.replies = <<>>
      BY <2>3 DEF Connect
    <3>2. At("greeting", NoCaller, 0).pc \in Awaiting
      BY AtFields DEF Typed, Awaiting
    <3> QED
      BY <3>1, <3>2, <2>1 DEF OneLineOut, Line
  <2>4. CASE TakeCommand
    <3>1. Head(chan) \in OptCaller /\ FirstLine(Head(chan)).pc \in Awaiting
      BY <2>4, TakesCommand, FirstLineTyped DEF Typed, OptCaller
    <3>2. link.pc \notin Awaiting
      BY <2>4 DEF TakeCommand, Awaiting, Conversations
    <3> QED
      BY <2>1, <2>4, <3>1, <3>2, TakesCommand DEF HalfDuplex
  <2>5. CASE RoundTripFails
    BY <2>5 DEF RoundTripFails, NoSocket, HalfDuplex
  <2>6. CASE GoesOn
    BY <2>6, <2>1 DEF GoesOn, Follows, Awaiting, Conversations
  <2>7. CASE Acknowledged \/ GoesBack
    BY <2>7, <2>2 DEF Acknowledged, GoesBack
  <2> QED
    BY <1>1, <2>3, <2>4, <2>5, <2>6, <2>7, TaskMoves
<1>2. CASE AnswerLine
  <2>1. PICK ok \in BOOLEAN :
          /\ link.pc \in Awaiting /\ link' = link
          /\ sock'.wire = <<>> /\ sock'.replies = <<[to |-> Line(link), ok |-> ok]>>
    BY <1>2, AnswersTheLine
  <2>2. Len(sock'.replies) = 1 /\ Head(sock'.replies).to = Line(link')
    BY <2>1
  <2> QED
    BY <2>1, <2>2 DEF HalfDuplex
<1>3. CASE CloseConnection
  BY <1>3 DEF CloseConnection, NoSocket, HalfDuplex
<1>4. CASE link' = link /\ sock' = sock
  BY <1>4 DEF HalfDuplex, Line
<1> QED
  BY <1>1, <1>2, <1>3, <1>4, OthersLeaveLink

\* The task is connected while, and only while, it serves.
LEMMA ConnectedKept ==
  ASSUME Typed, HalfDuplex, Connected, Next
  PROVE  Connected'
<1> USE DEF Connected, Serving, Conversations
<1>1. CASE DashboardTaskNext
  <2>1. CASE Connect
    <3>1. link'.pc = "greeting"
      BY <2>1, AtFields DEF Connect, Typed
    <3> QED
      BY <2>1, <3>1 DEF Connect
  <2>2. CASE TakeCommand
    <3>1. /\ Head(chan) \in OptCaller
          /\ FirstLine(Head(chan)).pc \in {"popup", "pause", "play", "plain"}
      BY <2>2, TakesCommand, FirstLineTyped DEF Typed, OptCaller
    <3> QED
      BY <2>2, <3>1, TakesCommand
  <2>3. CASE RoundTripFails
    BY <2>3 DEF RoundTripFails, TornDown, Down, Typed, TypeOK, Statuses
  <2>4. CASE GoesOn
    BY <2>4 DEF GoesOn, Follows
  <2>5. CASE Acknowledged
    BY <2>5 DEF Acknowledged
  <2>6. CASE GoesBack
    <3>1. link'.pc = "serve"
      BY <2>6 DEF GoesBack, Down
    <3> QED
      BY <2>6, <3>1 DEF GoesBack
  <2> QED
    BY <1>1, <2>1, <2>2, <2>3, <2>4, <2>5, <2>6, TaskMoves
<1>2. CASE ~ DashboardTaskNext
  <2>1. DashboardServerNext => status' = status
    BY DEF DashboardServerNext, ServerOnly, ReadKeys, ConsumeTrigger, WriteExecuting, SendCommand,
         ReplyArrives, CommandExpires, WriteResult, WriteState
  <2>2. /\ status'.connected = status.connected /\ status'.remote = status.remote
        /\ status'.identity = status.identity
    BY <1>2, <2>1 DEF Next, Prepare, Trigger, TryStop, ClientOnly, GoalEnds, AnswerLine,
         CloseConnection, ProtectiveStop, ReleaseStop, ReleaseFails, RealtimeFrame, ControllerOnly,
         Typed, TypeOK, Statuses
  <2> QED
    BY <1>2, <2>2, OthersLeaveLink
<1> QED
  BY <1>1, <1>2

\* What a task step that neither connects nor loses the connection leaves alone.
LEMMA SocketStays ==
  ASSUME Typed, ServeNext, ~ RoundTripFails
  PROVE  /\ sock'.up = sock.up /\ ctl' = ctl
         /\ ReadStatus \/ (status'.remote = status.remote /\ status'.polled = status.polled)
<1>1. /\ \A next : Ask(next) => sock'.up = sock.up
      /\ GoServe => sock'.up = sock.up
      /\ \A on \in BOOLEAN : /\ Latched(on).remote = status.remote
                            /\ Latched(on).polled = status.polled
  BY DEF Ask, GoServe, Latched, Typed, TypeOK, Statuses
<1>2. /\ \A v : Concluded(v) => sock'.up = sock.up
      /\ \A pc : PollAgain(pc) => sock'.up = sock.up
  BY <1>1 DEF Concluded, PollAgain
<1>3. sock'.up = sock.up /\ ctl' = ctl
  BY <1>1, <1>2 DEF ServeNext, ReadGreeting, ReadIdentity, TakeCommand, ReadPlain, ReadPopup,
       ReadUnlock, ConfirmRelease, ReleaseExpires, ReadPause, ReadPaused, FallBack, ReadPlay,
       ReadRunning, ReadPlaying, Keepalive, ReadStatus, Typed, TypeOK
<1>4. CASE ReadIdentity
  BY <1>3, <1>4 DEF ReadIdentity, Typed, TypeOK, Statuses
<1>5. CASE ReadPaused \/ ReadPlay \/ ReadRunning \/ ReadPlaying
  BY <1>1, <1>3, <1>5 DEF ReadPaused, ReadPlay, ReadRunning, ReadPlaying, FallBack
<1>6. CASE status' = status
  BY <1>3, <1>6
<1> QED
  BY <1>3, <1>4, <1>5, <1>6 DEF ServeNext, ReadGreeting, TakeCommand, ReadPlain, ReadPopup,
       ReadUnlock, ConfirmRelease, ReleaseExpires, ReadPause, Keepalive

\* Remote Control comes with a complete poll of the connection, and goes with it.
LEMMA PolledKept ==
  ASSUME Typed, Connected, PolledNow, Next
  PROVE  PolledNow'
<1>1. CASE Connect
  <2>1. ~ status.remote /\ status' = status
    BY <1>1 DEF Connect, Connected, Serving, Conversations
  <2> QED
    BY <2>1 DEF PolledNow
<1>2. CASE RoundTripFails \/ CloseConnection
  <2>1. sock' = NoSocket
    BY <1>2 DEF RoundTripFails, CloseConnection
  <2> QED
    BY <2>1 DEF NoSocket, PolledNow
<1>3. CASE ServeNext /\ ~ RoundTripFails
  <2>1. CASE ReadStatus
    <3>1. \/ status' = status
          \/ status' = [status EXCEPT !.remote = IF link.step = 1 THEN ReplyOk ELSE link.remote,
                                      !.polled = Connection]
      BY <2>1 DEF ReadStatus
    <3>2. status' = status \/ status'.polled = Connection
      BY <3>1 DEF Typed, TypeOK, Statuses
    <3> QED
      BY <1>3, <3>2, SocketStays DEF PolledNow, Connection
  <2>2. CASE ~ ReadStatus
    BY <1>3, <2>2, SocketStays DEF PolledNow, Connection
  <2> QED
    BY <2>1, <2>2
<1>4. CASE ~ DashboardTaskNext /\ ~ CloseConnection
  <2>1. DashboardServerNext => status' = status /\ ctl' = ctl /\ sock' = sock
    BY DEF DashboardServerNext, ServerOnly, ReadKeys, ConsumeTrigger, WriteExecuting, SendCommand,
         ReplyArrives, CommandExpires, WriteResult, WriteState
  <2>2. /\ status'.remote = status.remote /\ status'.polled = status.polled
        /\ sock'.up = sock.up /\ ctl'.losses = ctl.losses
    BY <1>4, <2>1 DEF Next, Prepare, Trigger, TryStop, ClientOnly, GoalEnds, AnswerLine,
         ProtectiveStop, ReleaseStop, ReleaseFails, RealtimeFrame, ControllerOnly,
         Typed, TypeOK, Statuses, Controllers
  <2> QED
    BY <2>2 DEF PolledNow, Connection
<1> QED
  BY <1>1, <1>2, <1>3, <1>4 DEF DashboardTaskNext

\* Half duplex, always.
LEMMA HalfDuplexAlways == Spec => [](Typed /\ HalfDuplex)
<1>1. Init => HalfDuplex
  BY DEF Init, HalfDuplex, NoSocket
<1>2. Typed /\ HalfDuplex /\ [Next]_vars => HalfDuplex'
  <2>1. HalfDuplex /\ UNCHANGED vars => HalfDuplex'
    BY DEF vars, HalfDuplex, Line
  <2> QED
    BY <2>1, HalfDuplexKept
<1>3. Spec => []HalfDuplex
  BY <1>1, <1>2, TypedAlways, PTL DEF Spec
<1> QED
  BY <1>3, TypedAlways, PTL

\* Replies carry no name, and yet the reply read next answers the line sent last
\* (ReplyIsItsOwn).
THEOREM RepliesAreMatched == Spec => []ReplyIsItsOwn
<1>1. HalfDuplex => ReplyIsItsOwn
  BY DEF HalfDuplex, ReplyIsItsOwn
<1> QED
  BY <1>1, HalfDuplexAlways, PTL

\* The connection, its identity and Remote Control are those of the connection that is
\* open, and beside Remote Control so is the rest of what was polled
\* (StatusOfThisConnection).
THEOREM StatusIsTakenBack == Spec => []StatusOfThisConnection
<1>1. Init => Connected /\ PolledNow
  BY DEF Init, Connected, PolledNow, Down, Serving, Conversations
<1>2. Typed /\ HalfDuplex /\ Connected /\ PolledNow /\ [Next]_vars => Connected' /\ PolledNow'
  <2>1. Connected /\ PolledNow /\ UNCHANGED vars => Connected' /\ PolledNow'
    BY DEF vars, Connected, PolledNow, Connection
  <2> QED
    BY <2>1, ConnectedKept, PolledKept
<1>3. Spec => [](Connected /\ PolledNow)
  BY <1>1, <1>2, HalfDuplexAlways, PTL DEF Spec
<1>4. Connected /\ PolledNow => StatusOfThisConnection
  BY DEF Connected, PolledNow, StatusOfThisConnection
<1> QED
  BY <1>3, <1>4, PTL

\* A pause that was acknowledged latches the hold, and a resume that has sent "play" takes
\* it off, whatever comes of either (HoldIsSettled).
THEOREM HoldsAreSettled == Spec => HoldIsSettled
<1> DEFINE Settled == link'.pc = "serve" =>
                        /\ link.pc = "paused" => status'.paused
                        /\ link.pc \in {"play", "running", "playing"} => ~ status'.paused
<1>1. Typed /\ HalfDuplex /\ [Next]_vars => Settled \/ UNCHANGED vars
  <2> SUFFICES ASSUME Typed, HalfDuplex, Next, link'.pc = "serve",
                      link.pc \in {"paused", "play", "running", "playing"}
               PROVE  Settled
    OBVIOUS
  <2>1. DashboardTaskNext
    BY OthersLeaveLink
  <2>2. ~ Connect /\ ~ TakeCommand /\ ~ Acknowledged
    BY DEF Connect, TakeCommand, Acknowledged
  <2>3. ~ RoundTripFails /\ ~ GoesOn
    BY DEF RoundTripFails, Down, GoesOn, Follows
  <2> QED
    BY <2>1, <2>2, <2>3, TaskMoves DEF GoesBack
<1>2. Typed /\ HalfDuplex /\ [Next]_vars => [Settled]_vars
  BY <1>1
<1>3. [][Settled]_vars => HoldIsSettled
  BY PTL DEF HoldIsSettled
<1>4. Spec => [][Settled]_vars
  BY <1>2, HalfDuplexAlways, PTL DEF Spec
<1> QED
  BY <1>3, <1>4

------------------------------------------------------------------------------
(***************************************************************************)
(* The command in service, and who waits for it.                           *)
(***************************************************************************)
\* A conversation is one its command calls for.
LEMMA KindKept ==
  ASSUME Typed, HalfDuplex, KindInService, Next
  PROVE  KindInService'
<1> USE DEF KindInService, KindOf, Serving, Conversations
<1>1. CASE DashboardTaskNext
  <2>1. CASE Connect
    <3>1. link'.pc = "greeting"
      BY <2>1, AtFields DEF Connect, Typed
    <3> QED
      BY <3>1
  <2>2. CASE TakeCommand
    <3> DEFINE c == Head(chan)
    <3>1. c \in Callers /\ c \in OptCaller
      BY <2>2, TakesCommand DEF OptCaller
    <3>2. /\ FirstLine(c).pc \in {"popup", "pause", "play", "plain"} /\ FirstLine(c).cur = c
          /\ FirstLine(c).pc = "popup" <=> KindOf(c) = "unlock"
          /\ FirstLine(c).pc = "pause" <=> KindOf(c) = "pause"
          /\ FirstLine(c).pc = "play" <=> KindOf(c) = "resume"
      BY <3>1, FirstLineTyped DEF Typed
    <3>3. link' = link \/ link' = FirstLine(c)
      BY <2>2, TakesCommand
    <3> QED
      BY <3>1, <3>2, <3>3
  <2>3. CASE RoundTripFails \/ GoesBack
    BY <2>3 DEF RoundTripFails, GoesBack, Down
  <2>4. CASE GoesOn
    BY <2>4 DEF GoesOn, Follows
  <2>5. CASE Acknowledged
    BY <2>5 DEF Acknowledged
  <2> QED
    BY <1>1, <2>1, <2>2, <2>3, <2>4, <2>5, TaskMoves
<1>2. CASE link' = link
  BY <1>2
<1> QED
  BY <1>1, <1>2, OthersLeaveLink

\* Whoever is in service has an answer once it is not.
LEMMA AnsweredWaitsNoMore ==
  ASSUME Typed, NEW c \in OptCaller, NEW v \in {"ok", "failed"}
  PROVE  /\ c \in Callers => Answered(c, v)[c] # "waiting"
         /\ \A d \in Callers : d # c => Answered(c, v)[d] = outcome[d]
         /\ \A d \in Callers : Answered(c, v)[d] = outcome[d]
                               \/ (d = c /\ outcome[d] = "waiting" /\ Answered(c, v)[d] = v)
<1>1. outcome \in [Callers -> Outcomes] /\ NoCaller \notin Callers
  BY DashboardAssumption DEF Typed, TypeOK, Callers
<1>2. CASE c # NoCaller /\ outcome[c] = "waiting"
  <2>1. c \in Callers /\ Answered(c, v) = [outcome EXCEPT ![c] = v]
    BY <1>2 DEF Answered, OptCaller
  <2> QED
    BY <1>1, <1>2, <2>1
<1>3. CASE ~ (c # NoCaller /\ outcome[c] = "waiting")
  <2>1. Answered(c, v) = outcome
    BY <1>3 DEF Answered
  <2> QED
    BY <1>1, <1>3, <2>1
<1> QED
  BY <1>2, <1>3

\* A caller's command is put in the channel, or is not, or is no longer waited for.
Sends(c) ==
  /\ (c \in Stops /\ outcome[c] = "idle") \/ (c = server.cur /\ server.pc = "send")
  /\ chan' = Append(chan, c) /\ outcome' = [outcome EXCEPT ![c] = "waiting"]
Refuses(c) ==
  /\ c \in Stops /\ outcome[c] = "idle"
  /\ chan' = chan /\ outcome' = [outcome EXCEPT ![c] = "refused"]
Expires(c) ==
  /\ outcome[c] = "waiting"
  /\ chan' = chan /\ outcome' = [outcome EXCEPT ![c] = "expired"]

\* When it is not the task's step, at most one caller is sent, refused or expires.
LEMMA SentOrExpired ==
  ASSUME Typed, Next, ~ DashboardTaskNext
  PROVE  \/ UNCHANGED <<chan, outcome>>
         \/ \E c \in Callers : Sends(c) \/ Refuses(c) \/ Expires(c)
<1>1. CASE DashboardServerNext
  <2>1. CASE SendCommand
    BY <2>1 DEF SendCommand, Typed, SendsRequests, Callers, Sends
  <2>2. CASE CommandExpires
    BY <2>2 DEF CommandExpires, Typed, SendsRequests, Callers, Expires
  <2>3. CASE ~ SendCommand /\ ~ CommandExpires
    BY <1>1, <2>3 DEF DashboardServerNext, ReadKeys, ConsumeTrigger, WriteExecuting, ReplyArrives,
         WriteResult, WriteState
  <2> QED
    BY <2>1, <2>2, <2>3
<1>2. ASSUME NEW s \in Stops, TryStop(s) PROVE s \in Callers /\ (Sends(s) \/ Refuses(s))
  <2>1. s \in Callers /\ outcome[s] = "idle"
    BY <1>2 DEF TryStop, Callers
  <2>2. CASE Len(chan) < Capacity
    BY <1>2, <2>1, <2>2 DEF TryStop, Sends
  <2>3. CASE ~ (Len(chan) < Capacity)
    BY <1>2, <2>1, <2>3 DEF TryStop, Refuses
  <2> QED
    BY <2>1, <2>2, <2>3
<1>3. CASE ~ DashboardServerNext /\ ~ \E s \in Stops : TryStop(s)
  BY <1>3 DEF Next, Prepare, Trigger, ClientOnly, GoalEnds, AnswerLine, CloseConnection,
       ProtectiveStop, ReleaseStop, ReleaseFails, RealtimeFrame, ControllerOnly
<1> QED
  BY <1>1, <1>2, <1>3

\* Who is in a channel after its head is taken.
LEMMA TakenFrom ==
  ASSUME NEW S, NEW s \in Seq(S), s # <<>>, NEW c
  PROVE  /\ (\E i \in DOMAIN s : s[i] = c) =>
              c = Head(s) \/ \E i \in DOMAIN Tail(s) : Tail(s)[i] = c
         /\ (\E i \in DOMAIN Tail(s) : Tail(s)[i] = c) => \E i \in DOMAIN s : s[i] = c
         /\ \E i \in DOMAIN s : s[i] = Head(s)
<1>1. Len(Tail(s)) = Len(s) - 1 /\ Len(s) \in Nat \ {0} /\ DOMAIN s = 1 .. Len(s)
      /\ DOMAIN Tail(s) = 1 .. Len(Tail(s)) /\ Head(s) = s[1]
      /\ \A i \in 1 .. Len(Tail(s)) : Tail(s)[i] = s[i + 1]
  BY HeadTailProperties, EmptySeq, LenProperties
<1>2. ASSUME NEW i \in DOMAIN s, s[i] = c, c # Head(s)
      PROVE  \E j \in DOMAIN Tail(s) : Tail(s)[j] = c
  <2>1. i - 1 \in DOMAIN Tail(s) /\ Tail(s)[i - 1] = s[i]
    BY <1>1, <1>2
  <2> QED
    BY <1>2, <2>1
<1>3. ASSUME NEW i \in DOMAIN Tail(s), Tail(s)[i] = c PROVE \E j \in DOMAIN s : s[j] = c
  <2>1. i + 1 \in DOMAIN s /\ s[i + 1] = Tail(s)[i]
    BY <1>1
  <2> QED
    BY <1>3, <2>1
<1> QED
  BY <1>1, <1>2, <1>3

\* A caller that waits stays in the channel or in service until it is answered.
LEMMA StrandedKept ==
  ASSUME Typed, HalfDuplex, KindInService, NoCallerStranded, Next
  PROVE  NoCallerStranded'
<1> SUFFICES ASSUME NEW c \in Callers, outcome'[c] = "waiting"
             PROVE  InChannel(c)' \/ (link'.cur = c /\ link'.pc \in Serving \ {"serve", "poll"})
  BY DEF NoCallerStranded, InChannel
<1>a. outcome[c] = "waiting" =>
        InChannel(c) \/ (link.cur = c /\ link.pc \in Serving \ {"serve", "poll"})
  BY DEF NoCallerStranded, InChannel
<1>b. chan \in Seq(Callers) /\ outcome \in [Callers -> Outcomes] /\ link.cur \in OptCaller
      /\ c # NoCaller
  BY DashboardAssumption DEF Typed, TypeOK, Links, Callers
<1> USE DEF Serving, Conversations
<1>1. CASE DashboardTaskNext
  <2>1. CASE Connect
    BY <1>a, <2>1 DEF Connect, InChannel
  <2>2. CASE TakeCommand
    <3> DEFINE h == Head(chan)
    <3>1. h \in Callers /\ chan' = Tail(chan) /\ link.pc = "serve" /\ chan # <<>>
          /\ h \in OptCaller
      BY <2>2, TakesCommand DEF OptCaller
    <3>2. InChannel(c) /\ c # h => InChannel(c)'
      BY <3>1, <1>b, TakenFrom DEF InChannel
    <3>3. CASE outcome' = Answered(h, "failed")
      BY <3>1, <3>2, <3>3, <1>a, AnsweredWaitsNoMore
    <3>4. CASE link' = FirstLine(h) /\ outcome' = outcome
      <4>1. link'.cur = h /\ link'.pc \in {"popup", "pause", "play", "plain"}
        BY <3>1, <3>4, FirstLineTyped DEF Typed
      <4> QED
        BY <3>1, <3>2, <3>4, <4>1, <1>a
    <3> QED
      BY <2>2, <3>3, <3>4, TakesCommand
  <2>3. CASE RoundTripFails
    <3>1. outcome' = Answered(link.cur, "failed") /\ chan' = chan
      BY <2>3 DEF RoundTripFails
    <3> QED
      BY <3>1, <1>a, <1>b, AnsweredWaitsNoMore DEF InChannel
  <2>4. CASE GoesOn
    BY <2>4, <1>a DEF GoesOn, Follows, InChannel
  <2>5. CASE Acknowledged
    BY <2>5, <1>a DEF Acknowledged, InChannel
  <2>6. CASE GoesBack
    BY <2>6, <1>a, <1>b, AnsweredWaitsNoMore DEF GoesBack, InChannel
  <2> QED
    BY <1>1, <2>1, <2>2, <2>3, <2>4, <2>5, <2>6, TaskMoves
<1>2. CASE ~ DashboardTaskNext
  <2>1. link' = link
    BY <1>2, OthersLeaveLink
  <2>2. CASE UNCHANGED <<chan, outcome>>
    BY <2>1, <2>2, <1>a DEF InChannel
  <2>3. ASSUME NEW d \in Callers, Sends(d)
        PROVE  InChannel(c)' \/ (link'.cur = c /\ link'.pc \in Serving \ {"serve", "poll"})
    <3>1. InChannel(c) \/ c = d => InChannel(c)'
      BY <2>3, <1>b DEF InChannel, Sends
    <3> QED
      BY <2>1, <2>3, <3>1, <1>a, <1>b DEF Sends
  <2>4. ASSUME NEW d \in Callers, Refuses(d) \/ Expires(d)
        PROVE  InChannel(c)' \/ (link'.cur = c /\ link'.pc \in Serving \ {"serve", "poll"})
    BY <2>1, <2>4, <1>a, <1>b DEF InChannel, Refuses, Expires
  <2> QED
    BY <1>2, <2>2, <2>3, <2>4, SentOrExpired
<1> QED
  BY <1>1, <1>2

------------------------------------------------------------------------------
(***************************************************************************)
(* The keys, and the places a request goes through.                        *)
(***************************************************************************)
\* Only the client and dashboard_server write the keys.
LEMMA OthersLeaveKeys ==
  ASSUME Next
  PROVE  \/ \E r \in Requests : Prepare(r)
         \/ Trigger
         \/ DashboardServerNext
         \/ UNCHANGED <<keys, server, asked>>
<1>1. DashboardTaskNext => UNCHANGED <<keys, server, asked>>
  BY DEF DashboardTaskNext, ServeNext, TaskOnly, Connect, ReadGreeting, ReadIdentity, TakeCommand,
     ReadPlain,
       ReadPopup, ReadUnlock, ConfirmRelease, ReleaseExpires, ReadPause, ReadPaused, ReadPlay,
       ReadRunning, ReadPlaying, Keepalive, ReadStatus, RoundTripFails
<1> QED
  BY <1>1 DEF Next, TryStop, ClientOnly, GoalEnds, AnswerLine, CloseConnection, ProtectiveStop,
       ReleaseStop, ReleaseFails, RealtimeFrame, ControllerOnly

\* The keys pass from the client to the server with the trigger, and back with the state.
LEMMA TurnKept ==
  ASSUME Typed, OneTurn, Next
  PROVE  OneTurn'
<1>a. keys \in Keys /\ server \in Servers /\ NoCaller \notin asked
  BY DashboardAssumption DEF Typed, TypeOK
<1> USE DEF OneTurn, ClientsTurn, ResultBesideAnswer, Keys, Servers, Terminal
<1>1. ASSUME NEW r \in Requests, Prepare(r) PROVE OneTurn'
  <2>1. server' = server /\ asked' = asked /\ r \notin asked
        /\ keys' = [keys EXCEPT !.command = r, !.state = "initial"]
    BY <1>1 DEF Prepare, ClientOnly
  <2>2. server.pc = "idle" /\ ~ keys.trigger
    BY <1>1, <1>a DEF Prepare
  <2> QED
    BY <2>1, <2>2, <1>a
<1>2. CASE Trigger
  BY <1>2, <1>a DEF Trigger, ClientOnly
<1>3. CASE DashboardServerNext
  <2>1. asked' = asked
    BY <1>3 DEF DashboardServerNext, ServerOnly, ReadKeys, ConsumeTrigger, WriteExecuting,
         SendCommand, ReplyArrives, CommandExpires, WriteResult, WriteState
  <2>2. CASE ReadKeys
    BY <2>1, <2>2, <1>a DEF ReadKeys, IdleServer
  <2>3. CASE ConsumeTrigger
    BY <2>1, <2>3, <1>a DEF ConsumeTrigger, Consumed, AfterConsume
  <2>4. CASE WriteExecuting
    BY <2>1, <2>4, <1>a DEF WriteExecuting
  <2>5. CASE SendCommand
    BY <2>1, <2>5, <1>a DEF SendCommand
  <2>6. CASE ReplyArrives
    BY <2>1, <2>6, <1>a DEF ReplyArrives
  <2>7. CASE CommandExpires
    BY <2>1, <2>7, <1>a DEF CommandExpires
  <2>8. CASE WriteResult
    BY <2>1, <2>8, <1>a DEF WriteResult
  <2>9. CASE WriteState
    BY <2>1, <2>9, <1>a DEF WriteState, IdleServer
  <2> QED
    BY <1>3, <2>2, <2>3, <2>4, <2>5, <2>6, <2>7, <2>8, <2>9 DEF DashboardServerNext
<1>4. CASE UNCHANGED <<keys, server, asked>>
  BY <1>4
<1> QED
  BY <1>1, <1>2, <1>3, <1>4, OthersLeaveKeys

\* One turn after another, always.
LEMMA OneTurnAlways == Spec => []OneTurn
<1>1. Init => OneTurn
  BY DEF Init, OneTurn, ClientsTurn, IdleServer, ResultBesideAnswer, Terminal
<1>2. Typed /\ OneTurn /\ [Next]_vars => OneTurn'
  <2>1. OneTurn /\ UNCHANGED vars => OneTurn'
    BY DEF vars, OneTurn, ClientsTurn, ResultBesideAnswer
  <2> QED
    BY <2>1, TurnKept
<1> QED
  BY <1>1, <1>2, TypedAlways, PTL DEF Spec

\* The client that sees the answer finds its own result beside it (ResultBesideAnswer).
THEOREM ResultsAreTheirOwn == Spec => []ResultBesideAnswer
<1>1. OneTurn => ResultBesideAnswer
  BY DEF OneTurn
<1> QED
  BY <1>1, OneTurnAlways, PTL

------------------------------------------------------------------------------
(***************************************************************************)
(* One place at a time.                                                    *)
(***************************************************************************)
\* Appending somebody who is not in a channel keeps its members apart.
LEMMA AppendedTo ==
  ASSUME NEW S, NEW s \in Seq(S), NEW c \in S
  PROVE  /\ \A d : (\E i \in DOMAIN Append(s, c) : Append(s, c)[i] = d) <=>
                     (d = c \/ \E i \in DOMAIN s : s[i] = d)
         /\ (\A i, j \in DOMAIN s : s[i] = s[j] => i = j) /\ (\A i \in DOMAIN s : s[i] # c) =>
              \A i, j \in DOMAIN Append(s, c) : Append(s, c)[i] = Append(s, c)[j] => i = j
<1> DEFINE t == Append(s, c)
<1>1. /\ Len(s) \in Nat /\ DOMAIN s = 1 .. Len(s) /\ DOMAIN t = 1 .. Len(s) + 1
      /\ \A i \in 1 .. Len(s) : t[i] = s[i]
      /\ t[Len(s) + 1] = c
  BY AppendProperties, LenProperties
<1>2. \A i \in DOMAIN t : i \in DOMAIN s \/ i = Len(s) + 1
  BY <1>1
<1> HIDE DEF t
<1>3. \A d : (\E i \in DOMAIN t : t[i] = d) <=> (d = c \/ \E i \in DOMAIN s : s[i] = d)
  BY <1>1, <1>2
<1>4. (\A i, j \in DOMAIN s : s[i] = s[j] => i = j) /\ (\A i \in DOMAIN s : s[i] # c) =>
        \A i, j \in DOMAIN t : t[i] = t[j] => i = j
  BY <1>1, <1>2
<1> QED
  BY <1>3, <1>4 DEF t

\* Taking the head leaves a channel whose members were apart without it.
LEMMA TakenOnce ==
  ASSUME NEW S, NEW s \in Seq(S), s # <<>>, \A i, j \in DOMAIN s : s[i] = s[j] => i = j
  PROVE  /\ \A i, j \in DOMAIN Tail(s) : Tail(s)[i] = Tail(s)[j] => i = j
         /\ \A i \in DOMAIN Tail(s) : Tail(s)[i] # Head(s)
<1>1. Len(Tail(s)) = Len(s) - 1 /\ Len(s) \in Nat \ {0} /\ DOMAIN s = 1 .. Len(s)
      /\ DOMAIN Tail(s) = 1 .. Len(Tail(s)) /\ Head(s) = s[1]
      /\ \A i \in 1 .. Len(Tail(s)) : Tail(s)[i] = s[i + 1]
  BY HeadTailProperties, EmptySeq, LenProperties
<1>2. \A i \in DOMAIN Tail(s) : i \in Nat \ {0} /\ i + 1 \in DOMAIN s /\ Tail(s)[i] = s[i + 1]
  BY <1>1
<1>3. 1 \in DOMAIN s
  BY <1>1
<1> QED
  BY <1>1, <1>2, <1>3

\* A step of the task answers somebody or nobody: who was idle still is, and only they.
LEMMA TaskKeepsIdle ==
  ASSUME Typed, HalfDuplex, DashboardTaskNext
  PROVE  /\ \A c \in Callers : outcome'[c] = "idle" <=> outcome[c] = "idle"
         /\ chan' = chan \/ TakeCommand
<1>a. link.cur \in OptCaller
  BY DEF Typed, TypeOK, Links
<1>1. outcome' = outcome \/ \E c \in OptCaller, v \in {"ok", "failed"} : outcome' = Answered(c, v)
  BY <1>a, TaskMoves, TakesCommand DEF Connect, RoundTripFails, GoesOn, Acknowledged, GoesBack,
     OptCaller
<1>2. ASSUME NEW c \in OptCaller, NEW v \in {"ok", "failed"}, outcome' = Answered(c, v),
             NEW d \in Callers
      PROVE  outcome'[d] = "idle" <=> outcome[d] = "idle"
  BY <1>2, AnsweredWaitsNoMore
<1>3. chan' = chan \/ TakeCommand
  BY TaskMoves DEF Connect, RoundTripFails, GoesOn, Acknowledged, GoesBack
<1> QED
  BY <1>1, <1>2, <1>3

\* Who is sent for the first time was idle before.
LEMMA SendsIdle ==
  ASSUME Typed, OneTurn, OnePlace, NEW c \in Callers, Sends(c)
  PROVE  outcome[c] = "idle" /\ ~ InChannel(c) /\ c # link.cur
<1>1. server.pc = "send" => outcome[server.cur] = "idle"
  <2> SUFFICES ASSUME server.pc = "send" PROVE outcome[server.cur] = "idle"
    OBVIOUS
  <2>1. server.cur = keys.command /\ keys.state \notin Terminal /\ server.cur \in Requests
    BY DEF OneTurn, ClientsTurn, Typed, SendsRequests
  <2> QED
    BY <2>1, DashboardAssumption DEF OnePlace, NotYetSent
<1>2. outcome[c] = "idle" /\ c # NoCaller
  BY <1>1, DashboardAssumption DEF Sends, Callers
<1> QED
  BY <1>2 DEF OnePlace, ChannelOnce, ServiceApart

\* Nobody who was sent is idle again.
LEMMA NeverIdleAgain ==
  ASSUME Typed, HalfDuplex, Next
  PROVE  \A c \in Callers : outcome[c] # "idle" => outcome'[c] # "idle"
<1>1. outcome \in [Callers -> Outcomes]
  BY DEF Typed, TypeOK
<1>2. CASE DashboardTaskNext
  BY <1>2, TaskKeepsIdle
<1>3. CASE ~ DashboardTaskNext
  BY <1>1, <1>3, SentOrExpired DEF Sends, Refuses, Expires
<1> QED
  BY <1>2, <1>3

\* The channel never holds a caller twice.
LEMMA ChannelOnceKept ==
  ASSUME Typed, HalfDuplex, OneTurn, OnePlace, Next
  PROVE  ChannelOnce'
<1>a. chan \in Seq(Callers) /\ ChannelOnce /\ outcome \in [Callers -> Outcomes]
  BY DEF Typed, TypeOK, OnePlace
<1>1. CASE chan' = chan
  BY <1>1, <1>a, NeverIdleAgain DEF ChannelOnce, InChannel
<1>2. CASE TakeCommand
  <2>1. chan' = Tail(chan) /\ chan # <<>>
    BY <1>2 DEF TakeCommand
  <2>2. \A i, j \in DOMAIN chan' : chan'[i] = chan'[j] => i = j
    BY <2>1, <1>a, TakenOnce DEF ChannelOnce
  <2>3. \A c \in Callers : InChannel(c)' => InChannel(c)
    BY <2>1, <1>a, TakenFrom DEF InChannel
  <2> QED
    BY <2>2, <2>3, <1>a, NeverIdleAgain DEF ChannelOnce
<1>3. ASSUME NEW c \in Callers, Sends(c) PROVE ChannelOnce'
  <2>1. chan' = Append(chan, c) /\ outcome'[c] = "waiting" /\ ~ InChannel(c)
    BY <1>3, <1>a, SendsIdle DEF Sends
  <2>2. \A i, j \in DOMAIN chan' : chan'[i] = chan'[j] => i = j
    BY <2>1, <1>a, AppendedTo DEF ChannelOnce, InChannel
  <2>3. \A d \in Callers : InChannel(d)' => d = c \/ InChannel(d)
    BY <2>1, <1>a, AppendedTo DEF InChannel
  <2> QED
    BY <2>1, <2>2, <2>3, <1>a, NeverIdleAgain DEF ChannelOnce
<1> QED
  BY <1>1, <1>2, <1>3, TaskKeepsIdle, SentOrExpired DEF Refuses, Expires

\* The command in service is in no channel.
LEMMA ServiceApartKept ==
  ASSUME Typed, HalfDuplex, OneTurn, OnePlace, Next
  PROVE  ServiceApart'
<1>a. /\ chan \in Seq(Callers) /\ link.cur \in OptCaller /\ NoCaller \notin Callers
      /\ ChannelOnce /\ ServiceApart
  BY DashboardAssumption DEF Typed, TypeOK, Links, OnePlace, Callers
<1>b. ~ InChannel(NoCaller)
  BY <1>a DEF InChannel
<1>c. \A d : d = link'.cur /\ ~ InChannel(d)' /\ (d # NoCaller => outcome'[d] # "idle") =>
        ServiceApart'
  BY DEF ServiceApart, InChannel
<1>1. CASE chan' = chan /\ link'.cur \in {link.cur, NoCaller}
  BY <1>1, <1>a, <1>b, NeverIdleAgain DEF ServiceApart, InChannel, OptCaller
<1>2. CASE TakeCommand
  <2>1. chan' = Tail(chan) /\ chan # <<>> /\ Head(chan) \in OptCaller
        /\ Head(chan) \in Callers /\ InChannel(Head(chan))
    BY <1>2, <1>a, TakesCommand, TakenFrom DEF InChannel, OptCaller
  <2>2. PICK d \in OptCaller : d = link'.cur /\ (d = Head(chan) \/ d = link.cur)
    BY <1>2, <1>a, <2>1, TakesCommand, FirstLineTyped DEF Typed
  <2>3. ~ InChannel(d)'
    <3>1. d = Head(chan) => \A i \in DOMAIN Tail(chan) : Tail(chan)[i] # d
      BY <2>1, <1>a, TakenOnce DEF ChannelOnce
    <3>2. d = link.cur => \A i \in DOMAIN Tail(chan) : Tail(chan)[i] # d
      BY <2>1, <1>a, TakenFrom DEF ServiceApart, InChannel
    <3> QED
      BY <2>1, <2>2, <3>1, <3>2 DEF InChannel
  <2>4. d # NoCaller => outcome[d] # "idle"
    BY <2>1, <2>2, <1>a DEF ChannelOnce, ServiceApart
  <2> QED
    BY <2>2, <2>3, <2>4, <1>c, NeverIdleAgain DEF OptCaller
<1>3. ASSUME NEW c \in Callers, Sends(c), link' = link PROVE ServiceApart'
  <2>1. PICK d \in OptCaller : d = link'.cur /\ d = link.cur
    BY <1>3, <1>a
  <2>2. chan' = Append(chan, c) /\ c # d
    BY <1>3, <2>1, SendsIdle DEF Sends
  <2>3. ~ InChannel(d)'
    BY <2>1, <2>2, <1>a, AppendedTo DEF ServiceApart, InChannel
  <2> QED
    BY <2>1, <2>3, <1>a, <1>c, NeverIdleAgain DEF ServiceApart, OptCaller
<1>4. CASE DashboardTaskNext
  <2>1. Connect => chan' = chan /\ link'.cur = NoCaller
    BY AtFields DEF Connect, Typed
  <2>2. RoundTripFails \/ GoesOn \/ Acknowledged \/ GoesBack =>
          chan' = chan /\ link'.cur \in {link.cur, NoCaller}
    BY DEF RoundTripFails, GoesOn, Acknowledged, GoesBack, Down
  <2> QED
    BY <1>1, <1>2, <1>4, <2>1, <2>2, TaskMoves
<1>5. CASE ~ DashboardTaskNext
  BY <1>1, <1>3, <1>5, OthersLeaveLink, SentOrExpired DEF Refuses, Expires
<1> QED
  BY <1>4, <1>5

\* A request is sent after it was asked for.
LEMMA AskedFirstKept ==
  ASSUME Typed, HalfDuplex, OneTurn, OnePlace, Next
  PROVE  AskedFirst'
<1>a. AskedFirst /\ outcome \in [Callers -> Outcomes]
  BY DEF OnePlace, Typed, TypeOK
<1>b. asked \subseteq asked'
  BY OthersLeaveKeys DEF Prepare, Trigger, DashboardServerNext, ServerOnly, ReadKeys,
     ConsumeTrigger, WriteExecuting, SendCommand, ReplyArrives, CommandExpires, WriteResult,
     WriteState
<1> SUFFICES ASSUME NEW r \in Requests, outcome[r] = "idle", outcome'[r] # "idle"
             PROVE  r \in asked
  BY <1>a, <1>b DEF AskedFirst
<1>1. r \in Callers /\ r \notin Stops
  BY DashboardAssumption DEF Callers
<1>2. ~ DashboardTaskNext
  BY <1>1, TaskKeepsIdle
<1>3. PICK c \in Callers : Sends(c) \/ Refuses(c) \/ Expires(c)
  BY <1>2, SentOrExpired
<1>4. c = r
  BY <1>3, <1>a, <1>1 DEF Sends, Refuses, Expires
<1>5. r = server.cur /\ server.pc = "send"
  BY <1>1, <1>3, <1>4 DEF Sends, Refuses, Expires
<1> QED
  BY <1>5 DEF OneTurn, ClientsTurn

\* The request of the turn is sent in its turn, and not before.
LEMMA NotYetSentKept ==
  ASSUME Typed, HalfDuplex, OneTurn, OnePlace, Next
  PROVE  NotYetSent'
<1>a. /\ outcome \in [Callers -> Outcomes] /\ keys \in Keys /\ server \in Servers
      /\ keys.command \in Requests \union {NoCaller} /\ Requests \subseteq Callers
      /\ NotYetSent /\ AskedFirst
  BY DEF OnePlace, Typed, TypeOK, SendsRequests, Callers
<1> USE DEF NotYetSent
<1>1. CASE DashboardTaskNext
  <2>1. keys' = keys /\ server' = server
    BY <1>1 DEF DashboardTaskNext, ServeNext, TaskOnly, Connect, ReadGreeting, ReadIdentity,
       TakeCommand,
       ReadPlain, ReadPopup, ReadUnlock, ConfirmRelease, ReleaseExpires, ReadPause, ReadPaused,
       ReadPlay, ReadRunning, ReadPlaying, Keepalive, ReadStatus, RoundTripFails
  <2> QED
    BY <1>1, <2>1, <1>a, TaskKeepsIdle
<1>2. ASSUME NEW r \in Requests, Prepare(r) PROVE NotYetSent'
  <2>1. r \notin asked /\ outcome' = outcome /\ keys'.command = r
    BY <1>2, <1>a DEF Prepare, Keys
  <2> QED
    BY <2>1, <1>a DEF AskedFirst
<1>3. CASE Trigger
  BY <1>3, <1>a DEF Trigger, ClientOnly, Keys
<1>4. CASE DashboardServerNext
  <2>1. CASE ReadKeys
    BY <2>1, <1>a DEF ReadKeys
  <2>2. CASE ConsumeTrigger
    BY <2>2, <1>a DEF ConsumeTrigger, Consumed, AfterConsume, Keys
  <2>3. CASE WriteExecuting
    BY <2>3, <1>a DEF WriteExecuting, Keys, Terminal, OneTurn, ClientsTurn
  <2>4. CASE SendCommand \/ ReplyArrives \/ CommandExpires \/ WriteResult
    BY <2>4, <1>a DEF SendCommand, ReplyArrives, CommandExpires, WriteResult, Servers
  <2>5. CASE WriteState
    BY <2>5, <1>a DEF WriteState, Keys, Terminal
  <2> QED
    BY <1>4, <2>1, <2>2, <2>3, <2>4, <2>5 DEF DashboardServerNext
<1>5. ASSUME NEW s \in Stops, TryStop(s) PROVE NotYetSent'
  <2>1. server' = server /\ keys' = keys /\ keys.command # s
    BY <1>5, <1>a, DashboardAssumption DEF TryStop, ClientOnly
  <2>2. keys.command # NoCaller => outcome'[keys.command] = outcome[keys.command]
    BY <1>5, <1>a, <2>1 DEF TryStop
  <2> QED
    BY <2>1, <2>2, <1>a DEF Terminal
<1>6. CASE UNCHANGED <<keys, server, outcome>>
  BY <1>6, <1>a DEF Terminal
<1> QED
  BY <1>1, <1>2, <1>3, <1>4, <1>5, <1>6
  DEF Next, GoalEnds, AnswerLine, CloseConnection, ProtectiveStop, ReleaseStop, ReleaseFails,
      RealtimeFrame, ControllerOnly

\* A command has one place at a time, always.
LEMMA PlacesAlways == Spec => []Places
<1>1. Init => KindInService /\ OnePlace
  BY DashboardAssumption
  DEF Init, KindInService, OnePlace, ChannelOnce, ServiceApart, AskedFirst, NotYetSent, InChannel,
      Down, Serving, Conversations, Callers
<1>2. Places /\ [Next]_vars => (KindInService /\ OnePlace)'
  <2>1. Places /\ UNCHANGED vars => (KindInService /\ OnePlace)'
    BY DEF vars, Places, KindInService, OnePlace, ChannelOnce, ServiceApart, AskedFirst, NotYetSent,
         InChannel
  <2>2. Places /\ Next => (KindInService /\ OnePlace)'
    BY KindKept, ChannelOnceKept, ServiceApartKept, AskedFirstKept, NotYetSentKept
    DEF Places, OnePlace
  <2> QED
    BY <2>1, <2>2
<1>3. Spec => [](KindInService /\ OnePlace)
  <2>1. (KindInService /\ OnePlace) /\ (Typed /\ HalfDuplex) /\ OneTurn <=> Places
    BY DEF Places
  <2> QED
    BY <1>1, <1>2, <2>1, HalfDuplexAlways, OneTurnAlways, PTL DEF Spec
<1> QED
  BY <1>3, HalfDuplexAlways, OneTurnAlways, PTL DEF Places

\* No caller is lost between the channel and its answer, however often the connection is
\* (NoCallerStranded).
THEOREM NobodyIsStranded == Spec => []NoCallerStranded
<1>1. Init => NoCallerStranded
  BY DEF Init, NoCallerStranded
<1>2. Places /\ NoCallerStranded /\ [Next]_vars => NoCallerStranded'
  <2>1. NoCallerStranded /\ UNCHANGED vars => NoCallerStranded'
    BY DEF vars, NoCallerStranded
  <2> QED
    BY <2>1, StrandedKept DEF Places
<1> QED
  BY <1>1, <1>2, PlacesAlways, PTL DEF Spec

------------------------------------------------------------------------------
(***************************************************************************)
(* What the controller did, and what is said of it.                        *)
(***************************************************************************)
\* The line under way is executed.
ExecutesLine ==
  /\ Executes(link.pc) /\ sock.wire # <<>> /\ sock'.wire = <<>>
  /\ done' = [done EXCEPT ![link.cur] = @ + 1]
  /\ UNCHANGED <<link, chan, outcome>>

\* The controller executes the line under way, or nothing.
LEMMA ExecutesOrNot ==
  ASSUME Typed, HalfDuplex, Next
  PROVE  ExecutesLine \/ done' = done
<1>1. CASE DashboardTaskNext
  BY <1>1 DEF DashboardTaskNext, ServeNext, TaskOnly, Connect, ReadGreeting, ReadIdentity,
     TakeCommand,
     ReadPlain, ReadPopup, ReadUnlock, ConfirmRelease, ReleaseExpires, ReadPause, ReadPaused,
     ReadPlay, ReadRunning, ReadPlaying, Keepalive, ReadStatus, RoundTripFails
<1>2. CASE DashboardServerNext
  BY <1>2 DEF DashboardServerNext, ServerOnly, ReadKeys, ConsumeTrigger, WriteExecuting,
     SendCommand, ReplyArrives, CommandExpires, WriteResult, WriteState
<1>3. \A ok : done' = Executed(Line(link), ok) =>
        done' = done \/ (Executes(link.pc) /\ done' = [done EXCEPT ![link.cur] = @ + 1])
  BY DEF Executed, Line, Executes
<1>4. CASE AnswerLine
  BY <1>3, <1>4, AnswersTheLine DEF ExecutesLine
<1>5. CASE CloseConnection
  <2>1. sock.wire # <<>> => Head(sock.wire) = Line(link)
    BY DEF HalfDuplex
  <2> QED
    BY <1>3, <1>5, <2>1 DEF CloseConnection, NoSocket, ExecutesLine, ControllerOnly
<1> QED
  BY <1>1, <1>2, <1>4, <1>5 DEF Next, Prepare, Trigger, TryStop, ClientOnly, GoalEnds,
     ProtectiveStop, ReleaseStop, ReleaseFails, RealtimeFrame

\* Who is idle or in the channel after a step was so before it.
LEMMA StillToCome ==
  ASSUME Typed, HalfDuplex, OneTurn, OnePlace, Next
  PROVE  \A c \in Callers : (outcome'[c] = "idle" \/ InChannel(c)') =>
           outcome[c] = "idle" \/ InChannel(c)
<1> SUFFICES ASSUME NEW c \in Callers, InChannel(c)' PROVE outcome[c] = "idle" \/ InChannel(c)
  BY NeverIdleAgain
<1>a. chan \in Seq(Callers)
  BY DEF Typed, TypeOK
<1>1. CASE chan' = chan
  BY <1>1 DEF InChannel
<1>2. CASE TakeCommand
  <2>1. chan' = Tail(chan) /\ chan # <<>>
    BY <1>2 DEF TakeCommand
  <2> QED
    BY <2>1, <1>a, TakenFrom DEF InChannel
<1>3. ASSUME NEW d \in Callers, Sends(d) PROVE outcome[c] = "idle" \/ InChannel(c)
  <2>1. chan' = Append(chan, d) /\ outcome[d] = "idle"
    BY <1>3, SendsIdle DEF Sends
  <2> QED
    BY <2>1, <1>a, AppendedTo DEF InChannel
<1> QED
  BY <1>1, <1>2, <1>3, TaskKeepsIdle, SentOrExpired DEF Refuses, Expires

\* Every command is executed at most once.
LEMMA DoneOnceKept ==
  ASSUME Places, DoneOnce, Next
  PROVE  DoneOnce'
<1> USE DEF Places
<1>a. done \in [Callers -> Nat] /\ NoCaller \notin Callers
  BY DashboardAssumption DEF Typed, TypeOK, Callers
<1>1. CASE ExecutesLine
  <2>1. link.cur \in Callers
    BY <1>1 DEF ExecutesLine, Executes, KindInService, Serving, Conversations
  <2>2. done[link.cur] = 0 /\ ~ InChannel(link.cur) /\ outcome[link.cur] # "idle"
    BY <1>1, <2>1, <1>a DEF ExecutesLine, DoneOnce, OnePlace, ServiceApart
  <2>3. done'[link.cur] = 1 /\ \A c \in Callers : c # link.cur => done'[c] = done[c]
    BY <1>1, <1>a, <2>1, <2>2 DEF ExecutesLine
  <2>4. link' = link /\ sock'.wire = <<>> /\ outcome' = outcome
        /\ \A c : InChannel(c)' => InChannel(c)
    BY <1>1 DEF ExecutesLine, InChannel
  <2>5. link.pc # "paused"
    BY <1>1 DEF ExecutesLine, Executes
  <2> QED
    BY <2>1, <2>2, <2>3, <2>4, <2>5, <1>a DEF DoneOnce
<1>2. CASE done' = done /\ DashboardTaskNext
  <2>a. \A c \in Callers : done'[c] <= 1 /\ (outcome'[c] = "idle" \/ InChannel(c)' => done'[c] = 0)
    BY <1>2, StillToCome DEF DoneOnce
  <2>1. CASE Connect \/ RoundTripFails \/ Acknowledged \/ GoesBack
    <3>1. ~ Executes(link'.pc) /\ link'.pc # "paused"
      BY <2>1, AtFields DEF Connect, RoundTripFails, Acknowledged, GoesBack, Down, Executes, Typed
    <3> QED
      BY <2>a, <3>1 DEF DoneOnce
  <2>2. CASE TakeCommand /\ link' = link /\ sock' = sock
    BY <2>a, <2>2, <1>2 DEF DoneOnce
  <2>3. CASE TakeCommand /\ link' = FirstLine(Head(chan)) /\ OneLineOut'
    <3>1. Head(chan) \in Callers /\ InChannel(Head(chan)) /\ Head(chan) \in OptCaller
      BY <2>3, TakesCommand, TakenFrom DEF InChannel, Typed, TypeOK, OptCaller
    <3>2. link'.cur = Head(chan) /\ link'.pc # "paused"
      BY <2>3, <3>1, FirstLineTyped DEF Typed
    <3>3. done'[link'.cur] = 0
      BY <1>2, <3>1, <3>2 DEF DoneOnce
    <3> QED
      BY <2>a, <2>3, <3>2, <3>3 DEF DoneOnce, OneLineOut
  <2>4. CASE GoesOn
    <3>1. ~ Executes(link'.pc)
      BY <2>4 DEF GoesOn, Follows, Executes
    <3>2. link'.pc = "paused" => done[link.cur] = 1 /\ link'.cur = link.cur
      BY <2>4 DEF GoesOn, Follows, DoneOnce, Executes, ReplyOk
    <3> QED
      BY <2>a, <1>2, <3>1, <3>2 DEF DoneOnce
  <2> QED
    BY <1>2, <2>1, <2>2, <2>3, <2>4, TaskMoves, TakesCommand
<1>3. CASE done' = done /\ ~ DashboardTaskNext
  <2>a. \A c \in Callers : done'[c] <= 1 /\ (outcome'[c] = "idle" \/ InChannel(c)' => done'[c] = 0)
    BY <1>3, StillToCome DEF DoneOnce
  <2>b. link' = link
    BY <1>3, OthersLeaveLink
  <2>1. CASE sock' = sock
    BY <2>1, <2>a, <2>b, <1>3 DEF DoneOnce
  <2>2. CASE CloseConnection
    <3>1. sock'.wire = <<>> /\ sock'.replies = <<>>
      BY <2>2 DEF CloseConnection, NoSocket
    <3> QED
      BY <2>a, <2>b, <3>1, <1>3 DEF DoneOnce
  <2>3. CASE AnswerLine
    <3>1. PICK ok \in BOOLEAN :
            /\ sock'.wire = <<>> /\ sock'.replies = <<[to |-> Line(link), ok |-> ok]>>
            /\ done' = Executed(Line(link), ok)
      BY <2>3, AnswersTheLine
    <3>2. Head(sock'.replies).ok = ok
      BY <3>1
    <3>3. Executes(link.pc) => ~ ok
      <4> SUFFICES ASSUME Executes(link.pc), ok PROVE FALSE
        OBVIOUS
      <4>1. done' = [done EXCEPT ![link.cur] = @ + 1]
        BY <3>1 DEF Executed, Executes, Line
      <4>2. link.cur \in Callers
        BY DEF Executes, KindInService, Serving, Conversations
      <4> QED
        BY <4>1, <4>2, <1>3, <1>a
    <3> QED
      BY <2>a, <2>b, <3>1, <3>2, <3>3, <1>3 DEF DoneOnce
  <2> QED
    BY <1>3, <2>1, <2>2, <2>3, OthersLeaveLink
<1> QED
  BY <1>1, <1>2, <1>3, ExecutesOrNot

\* An answer is given once, and "ok" only by a conversation that has come to its end.
LEMMA OkIsDeserved ==
  ASSUME Places, Next, NEW c \in Callers
  PROVE  /\ outcome[c] = "ok" => outcome'[c] = "ok"
         /\ outcome[c] # "ok" /\ outcome'[c] = "ok" =>
              link.cur = c /\ link.pc \in Serving /\ Deserved("ok") /\ DashboardTaskNext
<1> USE DEF Places
<1>a. outcome \in [Callers -> Outcomes] /\ link.cur \in OptCaller
  BY DEF Typed, TypeOK, Links
<1>1. CASE DashboardTaskNext
  <2>1. CASE outcome' = outcome
    BY <2>1
  <2>2. CASE TakeCommand \/ RoundTripFails
    <3>1. PICK d \in OptCaller : outcome' = outcome \/ outcome' = Answered(d, "failed")
      BY <2>2, <1>a, TakesCommand DEF RoundTripFails, OptCaller
    <3>2. outcome'[c] = outcome[c] \/ (outcome[c] = "waiting" /\ outcome'[c] = "failed")
      BY <3>1, AnsweredWaitsNoMore
    <3> QED
      BY <3>2
  <2>3. CASE GoesBack /\ outcome' # outcome
    <3>1. PICK v \in {"ok", "failed"} :
            Deserved(v) /\ outcome' = Answered(link.cur, v) /\ link.pc \in Serving
      BY <2>3 DEF GoesBack
    <3>2. outcome'[c] = outcome[c]
            \/ (c = link.cur /\ outcome[c] = "waiting" /\ outcome'[c] = v)
      BY <3>1, <1>a, AnsweredWaitsNoMore
    <3> QED
      BY <1>1, <3>1, <3>2
  <2> QED
    BY <1>1, <2>1, <2>2, <2>3, TaskMoves DEF Connect, GoesOn, Acknowledged
<1>2. CASE ~ DashboardTaskNext
  <2>1. CASE outcome' = outcome
    BY <2>1
  <2>2. ASSUME NEW d \in Callers, Sends(d) \/ Refuses(d) \/ Expires(d)
        PROVE  outcome'[c] = "ok" <=> outcome[c] = "ok"
    <3>1. outcome[d] # "ok"
      BY <2>2, SendsIdle DEF Refuses, Expires
    <3> QED
      BY <2>2, <3>1, <1>a DEF Sends, Refuses, Expires
  <2> QED
    BY <1>2, <2>1, <2>2, SentOrExpired
<1> QED
  BY <1>1, <1>2

\* A success is earned when it is given, and is passed on as it is.
LEMMA EarnedOkKept ==
  ASSUME Places, DoneOnce, EarnedOk, Next
  PROVE  EarnedOk'
<1>a. /\ done \in [Callers -> Nat] /\ keys \in Keys /\ server \in Servers
      /\ {keys.command, server.cur} \subseteq Requests \union {NoCaller}
      /\ Requests \subseteq Callers /\ NoCaller \notin Callers /\ NoCaller \notin asked
      /\ asked \subseteq Requests
  BY DashboardAssumption DEF Places, Typed, TypeOK, SendsRequests, Callers
<1>1. ASSUME NEW c \in Callers, outcome'[c] = "ok", KindOf(c) \in {"plain", "pause"}
      PROVE  done'[c] = 1
  <2>1. outcome[c] = "ok" => done[c] = 1
    BY <1>1 DEF EarnedOk
  <2>2. outcome[c] # "ok" => done[c] = 1
    <3> SUFFICES ASSUME outcome[c] # "ok" PROVE done[c] = 1
      OBVIOUS
    <3>1. link.cur = c /\ Deserved("ok")
      BY <1>1, OkIsDeserved
    <3>2. link.pc \notin {"release", "play", "running", "playing"}
      BY <1>1, <3>1 DEF Places, KindInService
    <3> QED
      BY <3>1, <3>2 DEF Deserved, DoneOnce, Executes, ReplyOk
  <2>3. done'[c] # done[c] => done[c] = 0
    <3> SUFFICES ASSUME done'[c] # done[c] PROVE done[c] = 0
      OBVIOUS
    <3>1. ExecutesLine
      BY ExecutesOrNot DEF Places
    <3>2. link.cur = c
      BY <3>1, <1>a DEF ExecutesLine
    <3> QED
      BY <3>1, <3>2 DEF ExecutesLine, DoneOnce
  <2> QED
    BY <2>1, <2>2, <2>3
<1>b. \A c \in Callers : outcome[c] = "ok" => outcome'[c] = "ok"
  BY OkIsDeserved
<1>2. (server.ok => server.pc \in {"result", "state"} /\ outcome[server.cur] = "ok")'
      /\ (keys.state = "succeeded" => outcome[keys.command] = "ok")'
  <2>a. /\ server.ok => /\ server.pc \in {"result", "state"} /\ outcome[server.cur] = "ok"
                        /\ server.cur = keys.command /\ server.cur \in Callers
        /\ keys.state = "succeeded" => outcome[keys.command] = "ok" /\ keys.command \in Callers
    BY <1>a DEF EarnedOk, Places, OneTurn, ClientsTurn
  <2>1. ASSUME NEW r \in Requests, Prepare(r)
        PROVE  server' = server /\ keys'.state = "initial"
    BY <2>1, <1>a DEF Prepare, ClientOnly, Keys
  <2>2. CASE Trigger
    BY <2>2, <1>a, <1>b, <2>a DEF Trigger, ClientOnly, Keys
  <2>3. CASE DashboardServerNext
    <3>1. CASE ReadKeys
      BY <3>1, <1>a, <1>b, <2>a DEF ReadKeys, IdleServer
    <3>2. CASE ConsumeTrigger
      BY <3>2, <1>a, <1>b, <2>a
      DEF ConsumeTrigger, Consumed, AfterConsume, IdleServer, Keys, Servers
    <3>3. CASE WriteExecuting
      BY <3>3, <1>a, <1>b, <2>a DEF WriteExecuting, Keys, Servers
    <3>4. CASE SendCommand \/ CommandExpires
      BY <3>4, <1>a, <1>b, <2>a DEF SendCommand, CommandExpires, Keys, Servers
    <3>5. CASE ReplyArrives
      BY <3>5, <1>a, <1>b, <2>a DEF ReplyArrives, Keys, Servers
    <3>6. CASE WriteResult
      BY <3>6, <1>a, <1>b, <2>a DEF WriteResult, Keys, Servers
    <3>7. CASE WriteState
      BY <3>7, <1>a, <1>b, <2>a DEF WriteState, IdleServer, Keys, Servers
    <3> QED
      BY <2>3, <3>1, <3>2, <3>3, <3>4, <3>5, <3>6, <3>7 DEF DashboardServerNext
  <2>4. CASE UNCHANGED <<keys, server, asked>>
    BY <2>4, <1>b, <2>a
  <2>5. \A r \in Requests : Prepare(r) => server.pc = "idle" /\ ~ server.ok
    <3> SUFFICES ASSUME NEW r \in Requests, Prepare(r) PROVE server.pc = "idle"
      BY <2>a
    <3> QED
      BY <1>a DEF Prepare, Places, OneTurn, ClientsTurn
  <2> QED
    BY <2>1, <2>2, <2>3, <2>4, <2>5, OthersLeaveKeys
<1> QED
  BY <1>1, <1>2 DEF EarnedOk, KindOf

\* Executed at most once, and succeeded only if executed, always.
LEMMA EarnedAlways == Spec => [](Places /\ DoneOnce /\ EarnedOk)
<1>1. Init => DoneOnce /\ EarnedOk
  BY DEF Init, DoneOnce, EarnedOk, Executes, Down, IdleServer
<1>2. Places /\ DoneOnce /\ EarnedOk /\ [Next]_vars => (DoneOnce /\ EarnedOk)'
  <2>1. DoneOnce /\ EarnedOk /\ UNCHANGED vars => (DoneOnce /\ EarnedOk)'
    BY DEF vars, DoneOnce, EarnedOk, InChannel, KindOf
  <2> QED
    BY <2>1, DoneOnceKept, EarnedOkKept
<1>3. Spec => [](DoneOnce /\ EarnedOk)
  BY <1>1, <1>2, PlacesAlways, PTL DEF Spec
<1> QED
  BY <1>3, PlacesAlways, PTL

\* The controller runs a request's command at most once, and only after its trigger
\* (RunsOnceWhenAsked).
THEOREM RequestsRunOnce == Spec => []RunsOnceWhenAsked
<1>1. Places /\ DoneOnce => RunsOnceWhenAsked
  <2> SUFFICES ASSUME Places, DoneOnce, NEW r \in Requests
               PROVE  done[r] <= 1 /\ (done[r] = 1 => r \in asked)
    BY DEF RunsOnceWhenAsked
  <2>1. r \in Callers
    BY DEF Callers
  <2> QED
    BY <2>1 DEF Places, OnePlace, AskedFirst, DoneOnce
<1> QED
  BY <1>1, EarnedAlways, PTL

\* "succeeded" in Redis was the controller's word (SucceededWasDone).
THEOREM SuccessWasDone == Spec => []SucceededWasDone
<1>1. Places /\ EarnedOk => SucceededWasDone
  <2> SUFFICES ASSUME Places, EarnedOk, keys.state = "succeeded"
               PROVE  /\ outcome[keys.command] = "ok"
                      /\ Kind[keys.command] \in {"plain", "pause"} => done[keys.command] = 1
    BY DEF SucceededWasDone
  <2>1. keys.command \in asked /\ keys.command \in Requests /\ keys.command \in Callers
    BY DEF Places, OneTurn, Typed, TypeOK, Callers
  <2> QED
    BY <2>1 DEF EarnedOk, KindOf
<1> QED
  BY <1>1, EarnedAlways, PTL

------------------------------------------------------------------------------
(***************************************************************************)
(* Protective stops.                                                       *)
(***************************************************************************)
\* What the task knows of the protective stops is what the realtime stream has said.
LEMMA StopsLagKept ==
  ASSUME Typed, HalfDuplex, StopsLag, Next
  PROVE  StopsLag'
<1>a. /\ link.stop \in Nat /\ status.stop \in Nat /\ ctl.stops \in Nat /\ ctl.releases \in Nat
      /\ ctl \in Controllers /\ status \in Statuses
  BY DashboardAssumption DEF Typed, TypeOK, Links, Statuses, Controllers
<1>1. CASE DashboardTaskNext
  <2>1. /\ ctl'.mode = ctl.mode /\ ctl'.stops = ctl.stops /\ ctl'.releases = ctl.releases
        /\ status'.safety = status.safety /\ status'.stop = status.stop
    <3>1. CASE RoundTripFails
      BY <3>1, <1>a DEF RoundTripFails, CountLoss, TornDown, Controllers, Statuses
    <3>2. CASE ~ RoundTripFails
      BY <1>1, <3>2, TaskMoves, TakesCommand DEF Connect, GoesOn, Acknowledged, GoesBack
    <3> QED
      BY <3>1, <3>2
  <2>2. link'.stop \in {0, link.stop, status.stop}
    <3>1. CASE TakeCommand
      <4>1. Head(chan) \in OptCaller
        BY <3>1, TakesCommand DEF OptCaller
      <4> QED
        BY <3>1, <4>1, TakesCommand, FirstLineTyped DEF Typed
    <3>2. CASE Connect
      BY <3>2, AtFields DEF Connect, Typed
    <3>3. CASE RoundTripFails \/ GoesBack
      BY <3>3 DEF RoundTripFails, GoesBack, Down
    <3>4. CASE GoesOn \/ Acknowledged
      BY <3>4 DEF GoesOn, Acknowledged
    <3> QED
      BY <1>1, <3>1, <3>2, <3>3, <3>4, TaskMoves
  <2> QED
    BY <1>a, <2>1, <2>2 DEF StopsLag
<1>2. CASE ~ DashboardTaskNext
  <2>1. link' = link
    BY <1>2, OthersLeaveLink
  <2>2. CASE ProtectiveStop
    BY <1>a, <2>1, <2>2 DEF ProtectiveStop, StopsLag, Controllers
  <2>3. CASE ReleaseStop
    BY <1>a, <2>1, <2>3 DEF ReleaseStop, StopsLag, Controllers
  <2>4. CASE RealtimeFrame
    BY <1>a, <2>1, <2>4 DEF RealtimeFrame, StopsLag, Statuses
  <2>5. CASE ~ ProtectiveStop /\ ~ ReleaseStop /\ ~ RealtimeFrame
    <3>1. DashboardServerNext => ctl' = ctl /\ status' = status
      BY DEF DashboardServerNext, ServerOnly, ReadKeys, ConsumeTrigger, WriteExecuting, SendCommand,
         ReplyArrives, CommandExpires, WriteResult, WriteState
    <3>2. /\ ctl'.mode = ctl.mode /\ ctl'.stops = ctl.stops /\ ctl'.releases = ctl.releases
          /\ status'.safety = status.safety /\ status'.stop = status.stop
      BY <1>2, <1>a, <2>5, <3>1 DEF Next, Prepare, Trigger, TryStop, ClientOnly, GoalEnds,
         AnswerLine, CloseConnection, ReleaseFails, ControllerOnly, Controllers, Statuses
    <3> QED
      BY <1>a, <2>1, <3>2 DEF StopsLag
  <2> QED
    BY <2>2, <2>3, <2>4, <2>5
<1> QED
  BY <1>1, <1>2

\* An unlock is reported done only once the protective stop that it was asked for is
\* released (ReleaseWasConfirmed).
THEOREM ReleasesAreConfirmed == Spec => ReleaseWasConfirmed
<1> DEFINE Confirmed == \A r \in Requests :
                          Kind[r] = "unlock" /\ outcome[r] # "ok" /\ outcome'[r] = "ok"
                            => ctl.releases >= link.stop
<1>1. Places /\ StopsLag /\ [Next]_vars => [Confirmed]_vars
  <2> SUFFICES ASSUME Places, StopsLag, Next, NEW r \in Requests, Kind[r] = "unlock",
                      outcome[r] # "ok", outcome'[r] = "ok"
               PROVE  ctl.releases >= link.stop
    OBVIOUS
  <2>1. r \in Callers /\ KindOf(r) = "unlock"
    BY DEF Callers, KindOf
  <2>2. link.cur = r /\ Deserved("ok")
    BY <2>1, OkIsDeserved
  <2>3. Released
    BY <2>1, <2>2 DEF Deserved, Places, KindInService
  <2>4. status.safety = 1 /\ link.stop \in Nat /\ status.stop \in Nat /\ ctl.releases \in Nat
    BY <2>3, DashboardAssumption
    DEF Released, Places, Typed, TypeOK, Statuses, Links, Controllers
  <2> QED
    BY <2>4 DEF StopsLag
<1>2. Init => StopsLag
  BY DEF Init, StopsLag, Down
<1>3. Places /\ StopsLag /\ [Next]_vars => StopsLag'
  <2>1. StopsLag /\ UNCHANGED vars => StopsLag'
    BY DEF vars, StopsLag
  <2> QED
    BY <2>1, StopsLagKept DEF Places
<1>4. [][Confirmed]_vars => ReleaseWasConfirmed
  BY PTL DEF ReleaseWasConfirmed
<1>5. Spec => [][Confirmed]_vars
  BY <1>1, <1>2, <1>3, PlacesAlways, PTL DEF Spec
<1> QED
  BY <1>4, <1>5

==============================================================================
