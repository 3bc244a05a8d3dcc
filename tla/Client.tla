------------------------------- MODULE Client --------------------------------
(***************************************************************************)
(* Whoever drives the driver through Redis.  It is not part of the driver: *)
(* what it may do is taken from how command_server reads the request keys. *)
(* Patience says when it submits the next request:                         *)
(*   "none"      at any time the trigger is not already set                *)
(*   "terminal"  once request_state is succeeded or failed                 *)
(*   "settled"   once the driver has also finished with the last request:  *)
(*               its task is gone and its script's socket has been closed  *)
(***************************************************************************)
EXTENDS DriverState

Answered == req.goal = NoGoal \/ req.state \in Terminal

Settled ==
  /\ \A g \in Goals : ~ Live(g)
  /\ \A s \in Scripts : script[s].pc # "absent" => Ended(s)
  /\ ss.pc = "accept" /\ backlog = <<>>
  /\ dash.pc = "serving" /\ dash.stops = <<>>

MaySubmit ==
  /\ ~ req.trigger
  /\ Patience # "none" => Answered
  /\ Patience = "settled" => Settled

\* The parameters and request_state first, the trigger last.
ClientSubmit(g) ==
  /\ MaySubmit
  /\ g \notin client.submitted
  /\ req' = [req EXCEPT !.trigger = TRUE, !.state = "initial", !.goal = g]
  /\ client' = [client EXCEPT !.submitted = @ \union {g}]
  /\ UNCHANGED <<ds, cs, task, ss, dash, script, backlog, robot>>

\* Asks for the request it submitted last to be aborted.
ClientCancel ==
  /\ client.cancels < MaxCancels /\ MayIntervene
  /\ req.goal # NoGoal /\ ~ req.cancel
  /\ req' = [req EXCEPT !.cancel = TRUE]
  /\ client' = [client EXCEPT !.cancels = @ + 1, !.cancelled = @ \union {req.goal}]
  /\ UNCHANGED <<ds, cs, task, ss, dash, script, backlog, robot>>
==============================================================================
