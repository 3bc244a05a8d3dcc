--------------------------- MODULE DashboardServer ---------------------------
(***************************************************************************)
(* interfaces/dashboard_server.rs: serves one dashboard request at a time  *)
(* from the keys in Redis.                                                 *)
(***************************************************************************)
EXTENDS DashboardChannel

ServerOnly == UNCHANGED <<link, sock, status, ctl, asked, done>>

\* A tick that sees the trigger reads the four request keys; what it decides later
\* rests on these values.
ReadKeys ==
  /\ server.pc = "idle" /\ keys.trigger
  /\ server' = [IdleServer EXCEPT !.pc = "consume", !.cur = keys.command, !.state = keys.state]
  /\ UNCHANGED <<keys, chan, outcome>> /\ ServerOnly

AfterConsume_NoVerdict ==            \* mutant: a parse error logged and forgotten
  IF server.state # "initial" \/ server.cur = NoCaller \/ Kind[server.cur] = "bad"
  THEN IdleServer ELSE [server EXCEPT !.pc = "execute"]

\* Not `initial`: ignored.  Not a command: failed.
AfterConsume ==
  IF server.state # "initial" THEN IdleServer
  ELSE [server EXCEPT !.pc = IF server.cur = NoCaller \/ Kind[server.cur] = "bad"
                             THEN "result" ELSE "execute"]

Consumed_Kept == keys                \* mutant: the edge is not consumed
Consumed == [keys EXCEPT !.trigger = FALSE]

ConsumeTrigger ==
  /\ server.pc = "consume"
  /\ keys' = Consumed
  /\ server' = AfterConsume
  /\ UNCHANGED <<chan, outcome>> /\ ServerOnly

WriteExecuting ==
  /\ server.pc = "execute"
  /\ keys' = [keys EXCEPT !.state = "executing"]
  /\ server' = [server EXCEPT !.pc = "send"]
  /\ UNCHANGED <<chan, outcome>> /\ ServerOnly

SendCommand_Unbounded ==             \* mutant: an unbounded channel
  /\ server.pc = "send"
  /\ chan' = Append(chan, server.cur)
  /\ outcome' = [outcome EXCEPT ![server.cur] = "waiting"]
  /\ server' = [server EXCEPT !.pc = "await"]
  /\ UNCHANGED keys /\ ServerOnly

\* send().await: waits for a free slot, however long that takes.
SendCommand ==
  /\ server.pc = "send" /\ Len(chan) < Capacity
  /\ chan' = Append(chan, server.cur)
  /\ outcome' = [outcome EXCEPT ![server.cur] = "waiting"]
  /\ server' = [server EXCEPT !.pc = "await"]
  /\ UNCHANGED keys /\ ServerOnly

ReplyArrives ==
  /\ server.pc = "await" /\ outcome[server.cur] \in {"ok", "failed"}
  /\ server' = [server EXCEPT !.pc = "result", !.ok = outcome[server.cur] = "ok"]
  /\ UNCHANGED <<keys, chan, outcome>> /\ ServerOnly

\* reply_timeout() plus the slack are over; the command stays where it is.
CommandExpires ==
  /\ server.pc = "await" /\ outcome[server.cur] = "waiting"
  /\ outcome' = [outcome EXCEPT ![server.cur] = "expired"]
  /\ server' = [server EXCEPT !.pc = "result"]
  /\ UNCHANGED <<keys, chan>> /\ ServerOnly

WriteResult_StateToo ==              \* mutant: the state is written first
  /\ server.pc = "result"
  /\ keys' = [keys EXCEPT !.state = IF server.ok THEN "succeeded" ELSE "failed"]
  /\ server' = [server EXCEPT !.pc = "state"]
  /\ UNCHANGED <<chan, outcome>> /\ ServerOnly

\* finish(): the result first, then the state the client waits for.
WriteResult ==
  /\ server.pc = "result"
  /\ keys' = [keys EXCEPT !.result = server.cur]
  /\ server' = [server EXCEPT !.pc = "state"]
  /\ UNCHANGED <<chan, outcome>> /\ ServerOnly

WriteState ==
  /\ server.pc = "state"
  /\ keys' = [keys EXCEPT !.state = IF server.ok THEN "succeeded" ELSE "failed"]
  /\ server' = IdleServer
  /\ UNCHANGED <<chan, outcome>> /\ ServerOnly

DashboardServerNext ==
  \/ ReadKeys
  \/ ConsumeTrigger
  \/ WriteExecuting
  \/ SendCommand
  \/ ReplyArrives
  \/ CommandExpires
  \/ WriteResult
  \/ WriteState
==============================================================================
