---------------------------- MODULE StatePublisher ----------------------------
(***************************************************************************)
(* interfaces/state_publisher.rs: every tick samples DriverState under one *)
(* lock and writes to Redis what is news: the measured state when it       *)
(* differs from the last one written, joints and transforms when the       *)
(* joints do.                                                              *)
(***************************************************************************)
EXTENDS RealtimeFrames

CONSTANTS
  Epsilon,      \* FORCE_EPSILON: a change of this size is still noise
  RedisFails    \* whether a write to Redis may be lost

ASSUME PublisherAssumption == Epsilon \in Nat /\ RedisFails \in BOOLEAN

VARIABLES
  publisher,    \* where it is in its tick, and what it remembers
  pub           \* Redis: the measured keys, joint_states, the kinematic frames

Unpublished == [mode |-> -1, force |-> 0, connected |-> FALSE]
Measured == [mode |-> ds.last.mode, force |-> ds.last.force, connected |-> ds.connected]

PublisherInit ==
  /\ publisher = [pc |-> "tick", sample |-> Unpublished, joints |-> -1,
                  lastMeasured |-> Unpublished, lastJoints |-> -1]
  /\ pub = [measured |-> Unpublished, joints |-> -1, frames |-> -1]

PublisherOnly == UNCHANGED readerVars

Abs(x) == IF x < 0 THEN -x ELSE x

\* Discrete fields compare exactly, the measurement with a tolerance.
DiffersFrom_Noise(a, b) ==           \* mutant: the modes are forgotten
  a.connected # b.connected \/ Abs(a.force - b.force) > Epsilon
DiffersFrom(a, b) ==
  a.mode # b.mode \/ a.connected # b.connected \/ Abs(a.force - b.force) > Epsilon

\* The sample, and what the guards decide about it.
Remembered_EveryTick(sample) == sample   \* mutant: compared with the last sample
Remembered(sample) ==
  IF DiffersFrom(sample, publisher.lastMeasured) THEN sample ELSE publisher.lastMeasured

AfterMeasured(joints) == IF joints = publisher.lastJoints THEN "tick" ELSE "joints"

Tick ==
  /\ publisher.pc = "tick"
  /\ publisher' =
       [publisher EXCEPT
          !.sample = Measured, !.joints = ds.last.joints,
          !.lastMeasured = Remembered(Measured),
          !.pc = IF DiffersFrom(Measured, publisher.lastMeasured) THEN "measured"
                 ELSE AfterMeasured(ds.last.joints)]
  /\ pub' = pub /\ PublisherOnly

\* A write reaches Redis, or is logged and forgotten.
Written(field, value) == [pub EXCEPT ![field] = value]
Writes(field, value) ==
  pub' \in {Written(field, value)} \union (IF RedisFails THEN {pub} ELSE {})

\* publish_measured_state: one MSET.
PublishMeasured ==
  /\ publisher.pc = "measured"
  /\ Writes("measured", publisher.sample)
  /\ publisher' = [publisher EXCEPT !.pc = AfterMeasured(publisher.joints)]
  /\ PublisherOnly

PublishJoints ==
  /\ publisher.pc = "joints"
  /\ Writes("joints", publisher.joints)
  /\ publisher' = [publisher EXCEPT !.pc = "frames"]
  /\ PublisherOnly

\* No frames before the first realtime frame: the joint vector is empty until then.
FramesOf_Read(joints) ==             \* mutant: computed from the joints of the moment
  IF ds.last.joints = 0 THEN pub.frames ELSE ds.last.joints
FramesOf(joints) == IF joints = 0 THEN pub.frames ELSE joints

PublishFrames ==
  /\ publisher.pc = "frames"
  /\ Writes("frames", FramesOf(publisher.joints))
  /\ publisher' = [publisher EXCEPT !.pc = "tick", !.lastJoints = publisher.joints]
  /\ PublisherOnly

StatePublisherNext ==
  \/ Tick
  \/ PublishMeasured
  \/ PublishJoints
  \/ PublishFrames
==============================================================================
