--------------------------- MODULE DashboardChannel ---------------------------
(***************************************************************************)
(* What the dashboard tasks share: the dashboard_* keys in Redis, the      *)
(* command channel with its one-shot replies, the socket to port 29999,    *)
(* and the controller at its other end.                                    *)
(*                                                                         *)
(* DashboardServer (Redis side) and DashboardTask (socket side) EXTEND     *)
(* this module; DashboardSystem composes them.                             *)
(***************************************************************************)
EXTENDS Integers, Sequences

CONSTANTS
  Requests,     \* the dashboard requests the client may make
  Sessions,     \* the orders in which it makes them
  Stops,        \* the stops goals may ask for (handle_request's stop_script)
  NoCaller,     \* no request, no caller
  Kind,         \* [Requests -> RequestKinds]
  Capacity,     \* slots of the command channel (10 in main.rs)
  Facts,        \* queries that make up the identity (3 in dashboard.rs)
  Queries,      \* queries that make up the status (4 in dashboard.rs)
  MaxPolls,     \* bound: polls of one confirmation before its deadline
  MaxLosses,    \* bound: dashboard connections that fail
  MaxStops      \* bound: protective stops

RequestKinds ==
  { "plain",    \* one line, one reply
    "unlock",   \* unlock_protective_stop, pause and resume: composites
    "pause",
    "resume",
    "bad"       \* an unknown command, or a bad argument
  }

ASSUME DashboardAssumption ==
  /\ NoCaller \notin Requests \union Stops
  /\ Sessions \subseteq Seq(Requests)
  /\ Requests \intersect Stops = {}
  /\ Kind \in [Requests -> RequestKinds]
  /\ Capacity \in Nat \ {0}
  /\ Facts \in Nat \ {0} /\ Queries \in Nat \ {0}
  /\ \A s \in Sessions : \A m, n \in DOMAIN s : s[m] = s[n] => m = n
  /\ MaxPolls \in Nat
  /\ MaxLosses \in Nat
  /\ MaxStops \in Nat

VARIABLES
  keys,      \* Redis: dashboard_command, _request_trigger, _state, _result
  server,    \* dashboard_server: where it is, and the request it read
  chan,      \* the command channel, oldest first
  outcome,   \* the one-shot reply of each caller
  link,      \* dashboard: where it is in serve()
  sock,      \* the lines and replies under way on the socket
  status,    \* DriverState: what the dashboard and the realtime stream report
  ctl,       \* the controller
  asked,     \* the requests whose trigger the client has set
  done       \* how often the controller executed each caller's command

vars == <<keys, server, chan, outcome, link, sock, status, ctl, asked, done>>

Callers == Requests \union Stops
OptCaller == Callers \union {NoCaller}
Terminal == {"succeeded", "failed"}

\* A caller holds a oneshot receiver while it is "waiting"; "expired" and "refused"
\* callers got no reply: their own timeout, a full channel.
Outcomes == {"idle", "waiting", "ok", "failed", "expired", "refused"}

Keys ==
  [command : OptCaller, trigger : BOOLEAN, state : {"initial", "executing"} \union Terminal,
   result : OptCaller]
Servers ==
  [pc : {"idle", "consume", "execute", "send", "await", "result", "state"},
   cur : OptCaller, state : {"initial", "executing"} \union Terminal, ok : BOOLEAN]

\* The round trips serve() is in the middle of, and the states between them.
Conversations ==
  {"plain", "popup", "unlock", "pause", "paused", "play", "running", "playing", "poll"}
Serving == Conversations \union {"serve", "release"}
Awaiting == Conversations \union {"greeting", "identity"}
Steps == 0 .. Facts + Queries + MaxPolls
Links ==
  [pc : {"down"} \union Serving \union Awaiting, cur : OptCaller, step : Steps,
   remote : BOOLEAN, stop : 0 .. MaxStops]

\* A line is named by the conversation it is part of.
Lines == Awaiting \X OptCaller \X Steps
Replies == [to : Lines, ok : BOOLEAN]

\* "polled" stands for program_state, program_running and operational_mode: the number of
\* the connection whose poll wrote them last, 0 before the first.
Statuses ==
  [connected : BOOLEAN, identity : BOOLEAN, remote : BOOLEAN, polled : 0 .. MaxLosses + 1,
   paused : BOOLEAN, safety : {1, 3}, stop : 0 .. MaxStops]
Controllers ==
  [mode : {1, 3}, releasing : BOOLEAN, stops : 0 .. MaxStops, releases : 0 .. MaxStops,
   losses : 0 .. MaxLosses]

IdleServer == [pc |-> "idle", cur |-> NoCaller, state |-> "initial", ok |-> FALSE]
Down == [pc |-> "down", cur |-> NoCaller, step |-> 0, remote |-> FALSE, stop |-> 0]
NoSocket == [up |-> FALSE, wire |-> <<>>, replies |-> <<>>]

Init ==
  /\ keys = [command |-> NoCaller, trigger |-> FALSE, state |-> "initial", result |-> NoCaller]
  /\ server = IdleServer
  /\ chan = <<>>
  /\ outcome = [c \in Callers |-> "idle"]
  /\ link = Down
  /\ sock = NoSocket
  /\ status = [connected |-> FALSE, identity |-> FALSE, remote |-> FALSE, polled |-> 0,
               paused |-> FALSE, safety |-> 1, stop |-> 0]
  /\ ctl = [mode |-> 1, releasing |-> FALSE, stops |-> 0, releases |-> 0,
            losses |-> 0]
  /\ asked = {}
  /\ done = [c \in Callers |-> 0]
==============================================================================
