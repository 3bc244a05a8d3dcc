# ur_redis_driver in TLA+

`ur_redis_driver` connects a Universal Robots controller to Redis. A client
writes a motion request into Redis keys; the driver renders a URScript, sends it
to the controller's port 30003, is dialed back by the running script, and writes
the request's state and result into Redis. It also polls the realtime stream,
talks to the controller's Dashboard Server, publishes what the robot measures,
and plans blended trajectories, which a program of its own can store.

This directory holds TLA+ models of those parts, TLC configurations that check
them on small instances, and theorems checked by TLAPS for every value of the
constants. `PROJECT.json` maps every definition to the lines it was translated
from (the repository's root is `src/` there, so the driver's own sources are
`src/src/...`).

## 1. Inventory

All tasks of the driver run on one thread under `tokio::try_join!` (main.rs),
except the goals' tasks, which run on a `LocalPool`. They share one
`DriverState` behind a mutex, the Redis keys, an mpsc channel of ten dashboard
commands, and the channels of the live goal, which `DriverState` holds.

| Component | State | Operations | What is hard | What makes it correct |
|---|---|---|---|---|
| `command_server` | the request keys as it read them, what it has made of them | deliver a cancel; consume a trigger; decode; look up frames; plan; admit or reject; spawn a goal | acts on a snapshot while client, goals and TF go on; admission looks at a field that is set later; any step may refuse | one goal at a time; each request is answered once, beside its result; the robot gets the whole path or nothing |
| `fail_request` | none | count, write result, then state | the counters are read and written back by whoever fails | no failure is lost while the client waits for its answers |
| `handle_request` | receivers of one goal, attempt, what is left of a trajectory | connect, install, upload, handshake, wait, cancel, re-issue, publish, tear down | teardown after the answer; dropped senders resolve receivers; late lines of a dead script | whatever blocks admission has a live owner; success is earned; no waypoint skipped |
| `socket_server` | the one connection it serves | accept, greet, read echo, lines, close | serial; a line belongs to whichever goal is installed when it is read | a goal's verdict is its own |
| `realtime_reader` | position in the byte stream | connect, read a frame, skip, give up | reads that time out part way | always at a message boundary |
| `dashboard` | the connection, the command in service | connect, serve, composites (pause, resume, unlock), poll | replies matched by position; many round trips per composite; reconnects | a reply is its own; nobody is stranded; a release is confirmed; a hold is settled by the command it was asked with |
| `dashboard_server` | the request it carries | consume a trigger, send, wait, write result and state | sends into a bounded channel; gives up on a late reply | runs once, when asked; answered with its own result |
| `state_publisher` | what it last published | compare, write state, joints, frames | drift below the tolerance; writes one after the other | Redis is never further off than the tolerance |
| `trajectory/*` | the plan under construction | check, resolve, follow a line, time, blend | two blends share a chord; one speed drives all joints; a straight line must stay on one arm branch | no overlap; limits kept; ends at rest |
| `online`, `store`, `plan_trajectory` | the stored trajectory, a file two processes share | plan, save, replay | planned at one moment, run at another; a writer that dies half way | admitted only where it starts; what is replayed was stored whole |
| `DriverState`, `main` | shared fields | restart of everything when one task fails | a task that ends takes all others with it | as above |
| tables, `emit`, `frames`, templates, URDF | none | conversions | arithmetic and text | tests of the repository |

The hazards of the code, each at its line, with the properties that would catch
it, are listed in `PROJECT.json`.

## 2. Modules

```
DriverState ─┬─ Client, CommandServer, HandleRequest, SocketServer,
             │  RealtimeReader, Dashboard, Controller
             └─ UrDriver (composes them) ── MotionRequest (abstract)
                  ├─ MCUrDriver
                  └─ UrDriver_proofs ── UrDriver_guard_proofs
                       ── UrDriver_contract_proofs ── UrDriver_settled_proofs
RequestIntake ─┬─ MCRequestIntake
               └─ RequestIntake_proofs
DashboardChannel ── DashboardServer, DashboardTask ── DashboardSystem ─┬─ MCDashboard
                                                                       └─ DashboardSystem_proofs
RealtimeFrames, StatePublisher ── Telemetry ─┬─ MCTelemetry
                                             └─ Telemetry_proofs
Plan ── OnlinePlan ─┬─ MCOnlinePlan
                    └─ OnlinePlan_proofs
```

One action is one stretch of code between two awaits: what is done under one
lock, together with the Redis or socket operation it awaits.

**UrDriver** — the life of a motion request. `req` is the Redis keys, `ds` the
fields of `DriverState` that steer a goal, `cs`, `ss`, `dash` the local state of
a task, `task[g]` the task of goal `g`, `script[<<g, a>>]` the script of its
attempt `a` together with its socket, `robot` the program the controller runs.
A sender in `DriverState` is modelled as the goal whose receiver it reaches.
Dropping a sender resolves its receiver, so `CancelReady`, `ResumeReady`,
`VerdictDropped` and `HandshakeDropped` compare the field with the goal: this is
how one goal's teardown is seen by another. `feedback_sender` is set and
cleared with `goal_id` and has no variable of its own. The client and the
controller are external: what they may do is taken from how the driver's code
uses them. `Patience` says how eager the client is, `Faults` what may go wrong.
Decoding is one choice here between accepting and refusing (`ConsumeTrigger`).

**MotionRequest** — what the driver promises: one request at a time walks from
initial to executing to a terminal state and is answered once. `UrDriver`
implements it (`ImplementsContract`), the answer being the history field
`task[g].answer`.

**RequestIntake** — that choice in full. The poll reads the keys once; then the
checks, the look-ups in TF, one await each, the waypoint list, planning and
admission, any of which refuses through `fail_request`, four awaits that the
goals' tasks go through as well (`failing[c]`). A goal's task is here only its
writes to Redis. `tf` moves under the look-ups; `server.seen` is the history of
where each frame has been since the request was read. A request is a member of
`Commands`: what its keys hold, as far as a check tells it apart; a stored
trajectory brings targets of its own, whatever list the request still holds.
`history.patience` is the client: one that waits for the goal's task to end, for
its answer, or for nothing. The last may have several requests on the way, whose
failures are counted side by side.

**DashboardSystem** — client, `dashboard_server`, the bounded channel, the
dashboard task and the controller behind a socket that answers line by line.
`link` is the task's place in `serve`, in a composite or in connecting;
`sock.wire` and `sock.replies` are the two directions. `status.polled` stands for
`program_state`, `program_running` and `operational_mode`: what the last poll found,
and on which connection. Pause and resume are
composites of several lines: the query whether a program runs, the line itself,
and the polls that confirm it. Goals appear as callers that `try_send` a stop,
and as `GoalEnds`, which clears a latched hold.

**Telemetry** — the realtime stream in pieces (`RealtimeFrames`: lengths,
bodies, messages of another size, implausible lengths), `DriverState`'s copy,
and the publisher's tick as four awaits (`StatePublisher`).

**OnlinePlan** — `Plan` runs the three loops of `plan()` one iteration per
action, following a straight line sample by sample; `OnlinePlan` puts it where it
is used: planned from the joints of the moment, or replayed from a file, then
admitted, while `plan_trajectory`, another process, truncates and writes that
file, or dies between the two. Geometry is a table of constants: distances of
tool positions, the kind of each corner, the inverse kinematics branches of a
pose and of each sample of a line, the joint rates along it. Speeds are
fractions and radii tenths of a millimetre, so no rounding is assumed.

## 3. Runs

| Run | Instance | Shows | Distinct states |
|---|---|---|---|
| turns | two trajectories of two waypoints in turn, two interventions among a cancel and pauses, three attempts, kills from outside | `CancelWasAsked`, `ProgressIsReal`, `CancelStopsScript`, `ReissueIsGuarded`, `NoWaypointSkipped`, `OwnVerdict` | 2 164 000 |
| contract | a relative move and a trajectory from a client that submits on seeing an answer, five faults | `ImplementsContract`, `RelativeMovesOnce` | 372 000 |
| faults | one goal, all faults but a lost dashboard | `TypeOK`, `GuardIsOwned`, `SuccessIsEarned`, `RequestTerminates` | 199 000 |
| intake | two requests out of seven, well and badly formed, from three clients; TF moves once, one trigger out of turn | `TypeOK`, `WholePathOrNothing`, `ResultBesideState`, `CountedBeforeAnswer`, `StreakIsConsecutive`, `EveryRequestAnswered` | 895 000 |
| dashboard | a bad command and an unlock, an action, or a pause and a resume; a goal's stop; one slot, one loss, one protective stop | ten properties of the dashboard interface | 702 000 |
| published | three force levels, two changes, two lost or bad reads | five properties of the telemetry | 176 000 |
| planned | lists of up to two waypoints of eight kinds and of three of three kinds on a two-joint arm, planned, stored, replayed; two writers that may die | seven properties of plans | 1 541 000 |
| v_overlap, v_cancel, v_hold, v_count, v_late | minimal instances | what a document says and the code does otherwise (section 6) | |

Bounds and why they are enough.

* `MaxAttempts`, `MaxCancels`, `MaxPauses` and `MaxInterventions` (cancels and
  pauses together) bound the environment of `UrDriver`. Two attempts show
  everything that passes between a script and its successor; the third, in
  `turns`, starts from a list already shortened, which is where a waypoint would
  be skipped. Two goals suffice for what one leaves behind for the next, since
  the driver keeps one set of fields, and the theorems of section 4 are for any
  number. A list of two waypoints has a first, a last and a between.
* `MaxRequests = 2` in `intake`: the counters and the answers of a request depend
  on at most the one before it, and two are enough to count side by side. The
  seven requests are a move to a frame with a relative point beside it, a path
  over two frames, one to plan, to a frame and to joints, a stored trajectory with
  a list left over, a list that is no list, one with an entry that does not
  decode, and one nobody has a template for. `MaxStored = 2`: a stored trajectory
  is as long as the list or longer. `MaxMoves = 1`: a frame moves, vanishes or
  appears between any two look-ups; `MaxStray`: one trigger raised on a terminal
  state, none for the client that does not wait, which raises them out of turn as
  it is.
* The command channel has ten slots in the code and one in `dashboard`: a full
  channel then needs one waiting command, and nothing depends on the number.
  `Facts`, `Queries` and `MaxPolls` shorten greetings, the status poll and the
  confirmations; one of each has a before and an after. `Sessions` are the three
  orders in which a client asks.
* Telemetry needs three levels so that two steps below the tolerance add up to
  one above it; a body arrives in two chunks, so that it can arrive in part.
* For plans, three waypoints give two corners on one chord, and a fourth shows
  that a list too long is refused. A line is followed over four samples: the
  first, two between which a branch can vanish or jump, and the last. A plan
  depends on its inputs alone, so the table of a two-joint arm is chosen to hold
  every kind of corner, a branch outside the limits, a pose without branches and
  lines that cannot be followed. `MaxRuns = 2`: a writer that died and one that
  writes again.

All runs but `published` stop when the client has made its requests and the bounds
are spent, so deadlock is not checked there; the liveness properties say that what
should go on does.

Fairness. Weak fairness of each task: tokio polls every task that is ready and
no task blocks its thread. In `intake` that is one for `command_server`, one for
each caller of `fail_request` and one for each goal's task. The dashboard's
`select!` chooses at random between the keepalive and a command, so a command
that is ready again and again is taken in the end: strong fairness of
`TakeCommand`. The controller runs the program it was given, answers the lines
it reads and keeps sending frames, and the operator releases the hold he asked
for (weak fairness of `Resume`); without that a held goal waits, as it should.
Nothing is assumed about faults, about TF, about the client, or about whether a
lost dashboard can ever be reached again: `Connect` has no fairness. `v_late`
alone adds it (`ReachableSpec`), so that what it refutes is not refuted by a
dashboard that never comes back.

## 4. Proofs

TLAPS checks these for every value of the constants, under the named `ASSUME`s
(each is evaluated by the runs) and the conditions given here. Each rests on an
inductive invariant that TLC agreed with before it was proved. Every invariant
and action property of the runs that pass is a theorem, and so is the refinement;
the four liveness properties are not.

### UrDriver, for any number of goals, any lists, bounds and faults

* `TypeCorrect` (`UrDriver_proofs`). `TypeOK` alone is not inductive:
  `TypeInv` adds that a request being decided on names a goal, that a served
  connection belongs to a script and its handshake to a goal, and that a goal
  re-issuing itself has an attempt left. One lemma per component.
* `GuardAlwaysOwned` (`UrDriver_guard_proofs`): whatever makes admission refuse
  work belongs to a task that is alive, for any client. The argument: every
  field of `DriverState` is set only by, or for, a task that then exists; a task
  ends only through its teardown, which clears all of them. It fails if a task
  could be spawned twice, so the invariant needs `OneTrigger`: a request is
  submitted once, its trigger consumed once, and nobody else decides on it.
* `OffsetsAreDrivenOnce` (`UrDriver_guard_proofs`), for any client and any faults:
  `RelativeMovesOnce`. `SentInv` is what is known of scripts: one that its task
  has not come to yet was never sent (`Unsent`), the controller runs the one that
  is loaded and has not ended (`OneProgram`), and only scripts that were sent
  connect. A relative move never gets to a second attempt (`OneScript`).
* `CancelledScriptsAreStopped` (`UrDriver_guard_proofs`), for any client, while the
  dashboard neither refuses a stop nor is lost: `CancelStopsScript`. A stop kills
  whatever runs by then, and by `OneProgram` that is the goal's script or the
  goal's script has ended (`StopKills`).
* `DriverKeepsContract`, `PatientRunsOneGoal` (`UrDriver_contract_proofs`), for a
  client that waits for a terminal `request_state`: the refinement of
  `MotionRequest`, unless the driver starts again (`greet_reset`), and
  `OneGoalAtATime`, restarts included; `v_overlap` shows that without waiting the
  latter is false. `InTurn` is the invariant: the request in hand is waiting for
  its trigger, being decided on, or run, never two of these, and `request_state`
  says which. Most steps are `Aside`: they leave the walk where it is. The six
  that do not have a lemma each.

The rest are in `UrDriver_settled_proofs`, for a client that submits when the
driver has finished with the last request (`Patience = "settled"`):

* `OnlyTheAskedAreCancelled`, `GapsAreGuarded`: `CancelWasAsked` and
  `ReissueIsGuarded`. One task is alive at a time (`AliveInTurn`), so only it can
  clear the claim and the cancel sender it left. `FlagIsNamed` is the hard part: a
  cancel flag left up for a goal that is over stays up over the next submission,
  and is harmless because it is read before the new trigger is. `v_cancel` shows
  that a client that only waits for its answer does not get this.
* `EverySuccessIsEarned`: `SuccessIsEarned`, whatever fails. `socket_server` gives a
  line to whichever goal is installed when it reads it. `EarnedInv` says that
  everything connected, waiting or running is of the request in hand
  (`OfTheRequest`), that an "ok" or an "error" still unread is by a script that
  ended so (`LinesTell`), and that every word on the way from the line to the
  published answer - verdict, result, answer - was earned (`WordIsEarned`).
* `CountsAreReal`, `NoWaypointIsSkipped`, `VerdictsAreTheirOwn`: `ProgressIsReal`,
  `NoWaypointSkipped` and `OwnVerdict`, when the re-issues are orderly: the goal has
  had one script killed and runs another, and what the first still says must reach
  neither the count nor the verdict of the second. `waypoints_completed` is one
  count for all scripts, so no line of a script may come after the next goes up.
  `Orderly` is what that takes: no full channel, no refused or lost stop, no verdict
  that takes longer than the drain, and no safety mode that resolves the goal while
  its script still runs. TLC finds a counterexample to the first two whenever one of
  these is allowed and everything else is not, so none of them can be dropped. Kills
  from outside, lost connections and restarts may happen. `ProgressInv` adds that no
  script but the last is at work or waits (`LastAtWork`), whom the server greets
  (`Greeting`), that the earlier scripts have ended and were read to the end
  (`OldReadOut`), what a verdict in hand says of the last one (`Judged`), and what
  the count and the shortened list are bounded by (`Counted`). One lemma per action
  that moves any of it. For the verdicts `Closing` is added: a connection that is
  read on after its goal has its verdict belongs to a script that reported by a line
  of its own, so that all it has left to say is that it closes (`LateClose`, section
  6).

### DashboardSystem, for any callers, sessions, slots and losses

All in `DashboardSystem_proofs`, from one invariant:

* `TypeCorrect`, with `SendsRequests` and the bound of the channel.
* `StatusIsTakenBack`: `StatusOfThisConnection`. The connection, its identity and
  Remote Control are taken back on every way out of it. The rest of a poll is not,
  so that it is of the open connection is known only beside Remote Control, which
  the same poll sets under the same lock (`PolledNow`).
* `RepliesAreMatched`, `HoldsAreSettled`: `ReplyIsItsOwn`, `HoldIsSettled`. The
  socket is half duplex: one line is out or one reply is in, and only while `serve`
  waits for it (`HalfDuplex`); a connection that is drained or lost takes both with
  it.
* `NobodyIsStranded`, `ResultsAreTheirOwn`, `RequestsRunOnce`, `SuccessWasDone`,
  `ReleasesAreConfirmed`: a command has one place at a time - with the client,
  with `dashboard_server`, in the channel, or in service (`OnePlace`, `OneTurn`) -
  and what is answered ok was carried out (`DoneOnce`, `EarnedOk`). A reply that
  comes after `dashboard_server` gave up is where this could go wrong.

### RequestIntake, for any requests and any TF

* `TypeCorrect` (`RequestIntake_proofs`): `TypeOK`, for any client.
* `FailuresAreCounted`, `AnswersAreWhole`: `CountedBeforeAnswer` and
  `ResultBesideState`, for a client that waits for its answer. The counters are
  read and written back two awaits apart by whichever task fails. A request has
  one owner (`OneOwner`), from the poll that reads its trigger to the write of its
  terminal state, and that write comes after those of the counters: `Counted`
  follows the total through the four writes of `fail_request`. So it is the order
  of the writes that makes waiting enough, and a client that waits for nothing
  does lose an increment (`v_count`).
* `StreaksAreConsecutive`: `StreakIsConsecutive`, which is about a client that
  lets each goal's task end. `Alone` says that while a task is between its answer
  and its end nothing else is under way, and `Streak` follows the counter of
  consecutive failures through the same writes.
* `PathsAreWhole`: `WholePathOrNothing`, for any client. A path that is not planned
  has been resolved, entry by entry, as it was asked for, each where its frame was
  after the request was read (`Resolved`, `LookedUp`, `SeenNow`). A planned one has
  joint targets, one per waypoint when it is planned now; of a stored one nothing
  is said about the request's list, which the driver ignores. Every frame is where
  it was at *some* moment since the request was read, and so is the TCP beside it:
  that they are of one moment is not so (section 6).

### Telemetry, for any samples, chunks and losses

* `TypeCorrect`, `ReaderIsInSync` (`Telemetry_proofs`): `InSync`. `Whole` says
  what is still to come: after the body being read, whole messages, a length and
  then its body.
* `DriftStaysBounded`, `FramesAreOfTheJoints`, while Redis takes every write:
  `DriftIsBounded` and `FramesFollowJoints`. What the publisher remembers is what
  it has written or is about to write (`PublisherInv`).

### OnlinePlan, for any number of joints and waypoints and any geometry

* `TypeCorrect` (`OnlinePlan_proofs`): every speed is a fraction with a positive
  denominator, every radius natural, every segment between two waypoints.
* `BlendsNeverOverlap`, `EveryPlanEndsAtRest`. No overlap is not inductive: when
  the radius of a corner is set, the neighbour's is known only by how it was made.
  `BlendInv` keeps what was made true of each: a radius is at most its share of
  *both* adjacent chords, in the plan under way and in the stored ones; shares of
  two fifths then leave a fifth free (`SharesDoNotOverlap`).
* `NoJointPassesItsLimit`, `StraightLinesKeepTheirBranch`: `WithinLimits` and
  `StraightHoldsItsBranch`. `PlanInv` says of each segment made so far that it is
  `Paced` by the configurations it was followed through and that those are
  `OnBranch`. That the slowest of the joints' speeds exists is an induction over
  a finite set, done without an operator as parameter: a set without a slowest
  element has a smallest subset without one, and that cannot be. For the first
  sample of a line the code relies on inverse kinematics recovering the
  configuration it starts from; `PlanAssumption` says so, as
  tests/trajectory_kinematics.rs:251 does, unless the pose is singular.
* `PatientStartsWhereItIs`: with a client that waits, what is admitted starts
  where the arm is (`StartInv`: while a plan is being made nothing moves).
* `ReplaysWhatWasStored`: what is run by name was stored whole, however the
  writes of `plan_trajectory` fall among the driver's reads and wherever it dies
  (`StoredInv`: a file that is whole holds something that was saved).

### Only model-checked

`RequestTerminates`, the two `EveryRequestAnswered` and `RedisCatchesUp`: liveness
and fairness are beyond the prover, and so is `ENABLED`. `OneGoalAtATime`,
`EveryFailureCounted` and `HoldHasGoal` are refuted in general (section 6); the
first two are proved for a client that waits. That the closed forms of the geometry
are right is not in the models at all (section 5). No module declares a `RECURSIVE`
operator, so none is barred from being proved about.

## 5. What the models leave out

* The texts: dashboard replies, URScript, results. `dashboard_types.rs` is
  tables apart from the safety modes.
* Request scalars, which all have defaults and change no control, and the values
  of a request's own arrays (section 6 says what becomes of an element that is no
  float).
* Accelerations and the duration estimate of a plan; the geometry behind the
  constant tables; the closed-form kinematics.
* The store's names, schema version and file errors are one case, "no such
  trajectory". A read of the file is one step: one that overlaps a write is
  either torn or whole.
* `emit.rs` but for its replacing the waypoints with joint targets; `frames.rs`;
  `list`, `show` and `render` of `plan_trajectory`, which only read and print.
* Joint states that have not arrived yet (`check_start_matches` refuses them).
* The visual frames' forward kinematics; that they are computed from the joints
  just published is modelled.
* A confirmation poll that outlasts its caller's timeout is modelled by both
  orders of the two events, never by durations.
* Not modelled at all: the vendored robot descriptions and the motion templates,
  which are data, and the tests.

## 6. What the models show about the code

Listed as findings, each with a run that ends in the counterexample:

* *Overlap* (`v_overlap`). Admission looks at `goal_id`, which the task sets
  after `TcpStream::connect` has returned. README.md:110 promises one goal.
* *Cancel* (`v_cancel`). The teardown follows the published answer and clears
  `cancel_sender` whoever owns it; the next goal sees its channel closed and
  takes that for a cancel.
* *Hold* (`v_hold`). A pause is latched when its confirmation is over; if the
  goal ended meanwhile the latch stays until somebody sends `resume`.
* *Count* (`v_count`). `fail_request` reads the counters and writes them back two
  awaits later. A second request submitted while one is active (README.md:110) is
  refused by `command_server` while the goal's task may be failing the first: both
  write the same total, and README.md:85 calls it cumulative.
* *Late command* (`v_late`). Commands sent while the dashboard reconnects wait
  and may be carried out afterwards; the comment says they are failed.

Other behaviours of the code. Seen by changing a constant of a run, or, once, its property:

* `Patience = "terminal"` in `turns`: the socket of the last goal's script may
  close after the next goal is installed, and fails that one (`OwnVerdict`); a
  late waypoint line of the last goal counts for the next (`NoWaypointSkipped`);
  and its teardown clears the next one's claim (`ReissueIsGuarded`).
* `drain_expires` added to `turns`: lines of the paused script read after the
  drain count for its successor, and a second resume skips a waypoint.
* `stop_refused` added to `turns`: a stop the controller refuses is still
  published as a cancelled, so succeeded, goal while its script runs
  (`CancelStopsScript`).
* `greet_reset`: the one write in `socket_server` that returns its error restarts
  the driver, and a request being executed is never answered; this is why
  `RequestTerminates` allows for a task that is gone.
* `RedisFails = TRUE` in `published`: a snapshot is remembered as published
  though its write failed, and is not written again until it changes.
* `Patient = FALSE` in `planned`: joints are read before admission, so a
  trajectory planned while another goal is ending may start elsewhere. In the
  code both happen in one pass of `command_server`, milliseconds apart.

* `EveryRequestAnswered` of `DashboardSystem` without its exception: with the channel
  full and the dashboard out of reach the send of dashboard_server.rs:136 waits for
  ever. The comment before it (dashboard_server.rs:133-135) says that the timeout
  below bounds the wait; the send is not inside that timeout.

Seen while modelling:

* A script that reports by a line of its own while it is being stopped for a
  re-issue is drained by that line, not by its close. The close may be read when
  the next attempt is waited for, and fails the goal (`LateClose` in `OwnVerdict`);
  the comment at handle_request.rs:230-232 has the close observed before that.
* `program_state`, `program_running` and `operational_mode` outlive their connection:
  the teardown (dashboard.rs:112-117) does not reset them, and Redis shows the last
  poll until one of the next connection is complete.
* An element of a request's own array that is no float, an integer included, is
  replaced by that of the default - the home position for joints - silently
  (command_server.rs:292), where README.md:316 promises that the request fails. An
  array longer than its default with such an element further on indexes past the
  default and panics.
* A client that submits while `command_server` is between consuming a trigger and
  writing "executing" has its "initial" overwritten; its own trigger is then
  consumed without an answer, though README.md:60-61 promises one.

* A safety stop and a resume that are ready together: the select may choose the
  resume, and the goal is re-issued into the stop.
* A trigger raised while `request_state` is not `initial` is consumed silently.
* A restart seeds `total_fail_counter` with zero, though README.md:85 says it is
  never reset. `succeeded` is published before the streak is reset, so a client
  that submits at once can have a failure in between wiped from
  `subsequent_fail_counter`; `StreakIsConsecutive` is for one that does not.
* The TCP is looked up again for each frame waypoint, so it may change within a
  path, although command_server.rs:458 says "we dont want to change tcps in a
  blended move". The targets of a planned or stored trajectory all get the TCP
  looked up last, or the default one when none was. A relative waypoint keeps the
  default target and reaches the template like a pose at the base frame. A
  waypoint's own `baseframe_id` and `tcp_id` are not used.
* `connected` is set when the realtime socket opens, before any frame, so after
  a reconnect admission judges by the last frame of the lost connection.
* A pause that was acknowledged and whose confirmation poll meets a lost
  connection is not latched.
* The branch a straight line ends on is not compared with the configuration the
  next segment starts from (path.rs:210-268, plan.rs:253). A straight move that
  only rotates has no joint rates to limit and takes the ceiling as its speed.
* A stored trajectory's `robot_model` is not compared with the driver's. A
  `plan_trajectory` that dies while it writes loses the old file of that name.

## 7. Plan

Done: the life of a motion request with its contract, the intake of requests,
the dashboard with its composites, the telemetry, the planner, the stored
trajectories, their runs, and a theorem for every safety property the runs check.

What would come next, in this order:

1. Proofs: an abstract specification of the dashboard's interface - a command is
   sent, carried out at most once, answered - and that `DashboardSystem`
   implements it, from `OnePlace` and `DoneOnce`.
2. `frames.rs` and `emit.rs`: the target of a planned waypoint in the frame of the
   robot's base, with poses as elements of a small group.
3. The end of a straight line against the next segment's start, as a property
   once the code decides which of the two is meant.
