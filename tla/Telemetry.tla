------------------------------ MODULE Telemetry ------------------------------
(***************************************************************************)
(* From the controller's realtime stream to the keys in Redis:             *)
(* realtime_reader and state_publisher over one DriverState.               *)
(***************************************************************************)
EXTENDS StatePublisher

vars == <<robot, stream, reader, ds, publisher, pub>>

Init == ReaderInit /\ PublisherInit

Next ==
  \/ Change /\ UNCHANGED <<publisher, pub>>
  \/ StartMessage /\ UNCHANGED <<publisher, pub>>
  \/ SendChunk /\ UNCHANGED <<publisher, pub>>
  \/ RealtimeFramesNext /\ UNCHANGED <<publisher, pub>>
  \/ StatePublisherNext

Spec == Init /\ [][Next]_vars

------------------------------------------------------------------------------
(***************************************************************************)
(* Properties.                                                             *)
(***************************************************************************)
\* Every variable of the telemetry path stays in its type.
TypeOK ==
  /\ robot.now \in Measurements /\ robot.sending \in Seq(Chunks)
  /\ robot.changes \in 0 .. MaxChanges /\ robot.losses \in 0 .. MaxLosses
  /\ stream \in Seq(Chunks) /\ Len(stream) <= Buffer
  /\ reader \in [pc : {"connect", "length", "body"}, want : FrameKinds]
  /\ ds \in [last : Measurements, connected : BOOLEAN]
  /\ publisher.pc \in {"tick", "measured", "joints", "frames"}

\* What is next read as a length is one: neither a skipped frame nor a failed read
\* leaves the reader in the middle of a message (realtime_reader.rs:63-65).
InSync == reader.pc = "length" /\ stream # <<>> => Head(stream).len

\* Between two ticks Redis is never further from the last sample than the noise it
\* tolerates, however slowly the measurement drifts, and a mode or a connection flag is
\* never off at all (state_publisher.rs:458-464).
DriftIsBounded ==
  publisher.pc = "tick" /\ publisher.lastMeasured # Unpublished =>
    /\ pub.measured.mode = publisher.sample.mode
    /\ pub.measured.connected = publisher.sample.connected
    /\ Abs(pub.measured.force - publisher.sample.force) <= Epsilon

\* Between two ticks the kinematic frames in Redis are those of the joint_states beside
\* them (state_publisher.rs:88-104).
FramesFollowJoints ==
  publisher.pc = "tick" /\ pub.joints > 0 => pub.frames = pub.joints

\* The controller keeps sending, tokio polls both tasks.
Fairness ==
  /\ WF_vars((StartMessage \/ SendChunk) /\ UNCHANGED <<publisher, pub>>)
  /\ WF_vars(RealtimeFramesNext /\ UNCHANGED <<publisher, pub>>)
  /\ WF_vars(StatePublisherNext)

FairSpec == Spec /\ Fairness

\* Once the robot stays as it is, Redis comes to say so: the safety mode and the joints
\* exactly, the force within the tolerance, and that the robot is connected, however often
\* the stream was lost before (state_publisher.rs:458-464).
RedisCatchesUp ==
  \A v \in Measurements :
    <>[](robot.now = v) =>
      <>[](/\ pub.measured.connected /\ pub.measured.mode = v.mode
           /\ Abs(pub.measured.force - v.force) <= Epsilon
           /\ pub.joints = v.joints /\ pub.frames = v.joints)
==============================================================================
