---------------------------- MODULE DashboardTask ----------------------------
(***************************************************************************)
(* driver/dashboard.rs: the task that owns the dashboard socket.  It       *)
(* serves one command at a time, polls the status in between, and          *)
(* reconnects when a round trip fails.  What a stop, a pause and a resume  *)
(* do to a goal is in Dashboard.                                           *)
(***************************************************************************)
EXTENDS DashboardChannel

TaskOnly == UNCHANGED <<keys, server, asked, done>>

At(pc, cur, step) == [link EXCEPT !.pc = pc, !.cur = cur, !.step = step]
Line(l) == <<l.pc, l.cur, l.step>>

\* Enters the next round trip: its line goes out.
Ask(next) ==
  /\ link' = next
  /\ sock' = [sock EXCEPT !.wire = Append(@, Line(next)),
                          !.replies = IF @ = <<>> THEN @ ELSE Tail(@)]
GoServe ==
  /\ link' = [Down EXCEPT !.pc = "serve"]
  /\ sock' = [sock EXCEPT !.replies = IF @ = <<>> THEN @ ELSE Tail(@)]

\* reply.send: lost on a caller that no longer waits.
Answered(c, verdict) ==
  IF c # NoCaller /\ outcome[c] = "waiting" THEN [outcome EXCEPT ![c] = verdict] ELSE outcome

HasReply(pc) == link.pc = pc /\ sock.replies # <<>>
ReplyOk == Head(sock.replies).ok

\* connect_loop; the controller owes a greeting.
Connect ==
  /\ link.pc = "down"
  /\ link' = At("greeting", NoCaller, 0)
  /\ sock' = [up |-> TRUE, wire |-> <<Line(At("greeting", NoCaller, 0))>>, replies |-> <<>>]
  /\ UNCHANGED <<chan, outcome, status, ctl>> /\ TaskOnly

\* Any other greeting than the dashboard server's is a failed round trip.
ReadGreeting ==
  /\ HasReply("greeting")
  /\ Ask(At("identity", NoCaller, 1))
  /\ UNCHANGED <<chan, outcome, status, ctl>> /\ TaskOnly

\* Model, serial number and PolyScope version; then the connection is announced.
ReadIdentity ==
  /\ HasReply("identity")
  /\ \/ /\ link.step < Facts
        /\ Ask(At("identity", NoCaller, link.step + 1))
        /\ UNCHANGED status
     \/ /\ link.step = Facts
        /\ GoServe
        /\ status' = [status EXCEPT !.identity = TRUE, !.connected = TRUE]
  /\ UNCHANGED <<chan, outcome, ctl>> /\ TaskOnly

\* A goal's stop is one line; so is a client's command that is no composite.
KindOf(c) == IF c \in Requests THEN Kind[c] ELSE "plain"

\* The first line of a command, and what is known when it is sent.
FirstLine(c) ==
  CASE KindOf(c) = "unlock" -> [At("popup", c, 0) EXCEPT !.stop = status.stop]
    [] KindOf(c) = "pause" -> At("pause", c, 0)
    [] KindOf(c) = "resume" -> At("play", c, 0)
    [] OTHER -> At("plain", c, 0)

\* There is nothing to unlock, nothing to resume.
Pointless(c) ==
  \/ KindOf(c) = "unlock" /\ status.safety # 3
  \/ KindOf(c) = "resume" /\ ~ status.paused

\* recv(): a composite looks at what DriverState says before its first line.
TakeCommand ==
  /\ link.pc = "serve" /\ chan # <<>>
  /\ chan' = Tail(chan)
  /\ \/ /\ Pointless(Head(chan))
        /\ outcome' = Answered(Head(chan), "failed")
        /\ UNCHANGED <<link, sock>>
     \/ /\ ~ Pointless(Head(chan))
        /\ Ask(FirstLine(Head(chan)))
        /\ UNCHANGED outcome
  /\ UNCHANGED <<status, ctl>> /\ TaskOnly

Verdict_AnyReply(ok) == "ok"         \* mutant: the reply is not matched
Verdict(ok) == IF ok THEN "ok" ELSE "failed"

ReadPlain ==
  /\ HasReply("plain")
  /\ outcome' = Answered(link.cur, Verdict(ReplyOk))
  /\ GoServe
  /\ UNCHANGED <<chan, status, ctl>> /\ TaskOnly

\* No popup to close is no failure; the settle time is waited out here.
ReadPopup ==
  /\ HasReply("popup")
  /\ Ask(At("unlock", link.cur, 0))
  /\ UNCHANGED <<chan, outcome, status, ctl>> /\ TaskOnly

ReadUnlock ==
  /\ HasReply("unlock")
  /\ \/ /\ ReplyOk
        /\ link' = At("release", link.cur, 0)
        /\ sock' = [sock EXCEPT !.replies = Tail(@)]
        /\ UNCHANGED outcome
     \/ /\ ~ ReplyOk
        /\ outcome' = Answered(link.cur, "failed")
        /\ GoServe
  /\ UNCHANGED <<chan, status, ctl>> /\ TaskOnly

\* The release is believed once the realtime stream reports it.
Released_OnAck == TRUE               \* mutant: the acknowledgement is enough
Released == status.safety \in {1, 2}

ConfirmRelease ==
  /\ link.pc = "release" /\ Released
  /\ outcome' = Answered(link.cur, "ok")
  /\ GoServe
  /\ UNCHANGED <<chan, status, ctl>> /\ TaskOnly

ReleaseExpires ==
  /\ link.pc = "release" /\ ~ Released
  /\ outcome' = Answered(link.cur, "failed")
  /\ GoServe
  /\ UNCHANGED <<chan, status, ctl>> /\ TaskOnly

------------------------------------------------------------------------------
(***************************************************************************)
(* pause_motion and resume_motion.                                         *)
(***************************************************************************)
Latched(on) == [status EXCEPT !.paused = on]

\* A composite comes to its end.
Concluded(verdict) ==
  /\ outcome' = Answered(link.cur, verdict)
  /\ GoServe

\* A poll before the deadline may be followed by another.
PollAgain(pc) == link.step < MaxPolls /\ Ask(At(pc, link.cur, link.step + 1))

ReadPause ==
  /\ HasReply("pause")
  /\ \/ ReplyOk /\ Ask(At("paused", link.cur, 0)) /\ UNCHANGED outcome
     \/ ~ ReplyOk /\ Concluded("failed")
  /\ UNCHANGED <<chan, status, ctl>> /\ TaskOnly

\* PAUSED, or the deadline: the hold is latched either way, and either way reported.
ReadPaused ==
  /\ HasReply("paused")
  /\ \/ Concluded("ok") /\ status' = Latched(TRUE)
     \/ ~ ReplyOk /\ PollAgain("paused") /\ UNCHANGED <<outcome, status>>
  /\ UNCHANGED <<chan, ctl>> /\ TaskOnly

\* Nothing runs again: the latch is cleared all the same, and a goal, if one is live, is
\* told to re-issue itself.
FallBack_KeepsLatch ==               \* mutant: only a resume that worked clears it
  /\ \E verdict \in {"ok", "failed"} : Concluded(verdict)
  /\ UNCHANGED status
FallBack ==
  /\ \E verdict \in {"ok", "failed"} : Concluded(verdict)
  /\ status' = Latched(FALSE)

ReadPlay ==
  /\ HasReply("play")
  /\ \/ ReplyOk /\ Ask(At("running", link.cur, 0)) /\ UNCHANGED <<outcome, status>>
     \/ ~ ReplyOk /\ FallBack
  /\ UNCHANGED <<chan, ctl>> /\ TaskOnly

\* A program that runs is asked for its state; one that does not is asked again.
ReadRunning ==
  /\ HasReply("running")
  /\ \/ ReplyOk /\ Ask(At("playing", link.cur, link.step)) /\ UNCHANGED <<outcome, status>>
     \/ ~ ReplyOk /\ PollAgain("running") /\ UNCHANGED <<outcome, status>>
     \/ ~ ReplyOk /\ FallBack
  /\ UNCHANGED <<chan, ctl>> /\ TaskOnly

ReadPlaying ==
  /\ HasReply("playing")
  /\ \/ ReplyOk /\ Concluded("ok") /\ status' = Latched(FALSE)
     \/ ~ ReplyOk /\ PollAgain("running") /\ UNCHANGED <<outcome, status>>
     \/ ~ ReplyOk /\ FallBack
  /\ UNCHANGED <<chan, ctl>> /\ TaskOnly

------------------------------------------------------------------------------
\* The keepalive tick: Remote Control first, then the program state, whether it runs and
\* the operational mode; only after the last reply are the four written.
Keepalive ==
  /\ link.pc = "serve"
  /\ Ask(At("poll", NoCaller, 1))
  /\ UNCHANGED <<chan, outcome, status, ctl>> /\ TaskOnly

Connection == ctl.losses + 1
ReadStatus ==
  /\ HasReply("poll")
  /\ \/ /\ link.step < Queries
        /\ Ask([At("poll", NoCaller, link.step + 1)
                EXCEPT !.remote = IF link.step = 1 THEN ReplyOk ELSE @])
        /\ UNCHANGED status
     \/ /\ link.step = Queries
        /\ GoServe
        /\ status' = [status EXCEPT !.remote = IF link.step = 1 THEN ReplyOk ELSE link.remote,
                                    !.polled = Connection]
  /\ UNCHANGED <<chan, outcome, ctl>> /\ TaskOnly

\* A round trip fails: its caller is answered, the connection given up and, if it
\* was being served, what it reported is taken back, but for program_state,
\* program_running and operational_mode.
SocketFailed == ~ sock.up \/ (sock.replies = <<>> /\ ctl.losses < MaxLosses)

TornDown_KeepsRemote ==              \* mutant: the last poll outlives the connection
  [status EXCEPT !.connected = FALSE, !.identity = FALSE]
TornDown == [status EXCEPT !.connected = FALSE, !.remote = FALSE, !.identity = FALSE]

CountLoss == IF sock.up THEN [ctl EXCEPT !.losses = @ + 1] ELSE ctl

RoundTripFails_Silent ==             \* mutant: reconnects before answering
  /\ link.pc \in Awaiting /\ SocketFailed
  /\ status' = IF link.pc \in Serving THEN TornDown ELSE status
  /\ link' = Down /\ sock' = NoSocket
  /\ ctl' = CountLoss
  /\ UNCHANGED <<chan, outcome>> /\ TaskOnly

RoundTripFails_KeepsSocket ==        \* mutant: a timeout does not drop the socket
  /\ link.pc \in Awaiting /\ SocketFailed
  /\ outcome' = Answered(link.cur, "failed")
  /\ link' = [Down EXCEPT !.pc = "serve"]
  /\ ctl' = CountLoss
  /\ UNCHANGED <<chan, sock, status>> /\ TaskOnly

RoundTripFails ==
  /\ link.pc \in Awaiting /\ SocketFailed
  /\ outcome' = Answered(link.cur, "failed")
  /\ status' = IF link.pc \in Serving THEN TornDown ELSE status
  /\ link' = Down /\ sock' = NoSocket
  /\ ctl' = CountLoss
  /\ UNCHANGED chan /\ TaskOnly

\* All of it but connect_loop, which waits for a controller that may not be there.
ServeNext ==
  \/ ReadGreeting
  \/ ReadIdentity
  \/ TakeCommand
  \/ ReadPlain
  \/ ReadPopup
  \/ ReadUnlock
  \/ ConfirmRelease
  \/ ReleaseExpires
  \/ ReadPause \/ ReadPaused
  \/ ReadPlay \/ ReadRunning \/ ReadPlaying
  \/ Keepalive
  \/ ReadStatus
  \/ RoundTripFails

DashboardTaskNext == Connect \/ ServeNext
==============================================================================
