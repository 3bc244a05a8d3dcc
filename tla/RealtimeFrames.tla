---------------------------- MODULE RealtimeFrames ----------------------------
(***************************************************************************)
(* driver/realtime_reader.rs, read_frame and the loop around it: how the   *)
(* byte stream of port 30003 is cut into frames, and when the socket is    *)
(* given up instead.  What a frame does to a goal is in RealtimeReader.    *)
(*                                                                         *)
(* The stream is a sequence of chunks: a length field, then the chunks of  *)
(* the body it announces.                                                  *)
(***************************************************************************)
EXTENDS Integers, Sequences

CONSTANTS
  Forces,       \* the values of a continuous measurement
  Buffer,       \* bound: chunks under way on the socket
  MaxChanges,   \* bound: times the measured values change
  MaxLosses     \* bound: timeouts and closed connections

FrameKinds ==
  { "frame",         \* 1220 bytes, the layout this parser knows
    "other",         \* a plausible length, another layout
    "implausible"    \* at most 4 bytes, or more than RT_MAX_FRAME_SIZE
  }

ASSUME RealtimeAssumption ==
  /\ Forces \subseteq Int /\ 0 \in Forces
  /\ Buffer \in Nat \ {0}
  /\ MaxChanges \in Nat
  /\ MaxLosses \in Nat

VARIABLES
  robot,    \* what the controller measures, and what is left of the message it sends
  stream,   \* the chunks under way on the socket
  reader,   \* realtime_reader: where it is in the stream
  ds        \* DriverState: the last frame, and whether there is a connection

readerVars == <<robot, stream, reader, ds>>

\* A frame carries one of each kind of value: a mode, which compares exactly, a
\* measurement with noise, and the joints.
Unmeasured == [mode |-> 0, force |-> 0, joints |-> 0]
Measurements == [mode : {0, 1, 3}, force : Forces, joints : 0 .. 2]

Chunks == [len : {TRUE}, kind : FrameKinds] \union [len : {FALSE}, value : Measurements]

\* Two chunks to a body, so that it can arrive in part.
BodyChunks(kind) == IF kind = "implausible" THEN 0 ELSE 2

ReaderInit ==
  /\ robot = [now |-> [mode |-> 1, force |-> 0, joints |-> 1], sending |-> <<>>,
              changes |-> 0, losses |-> 0]
  /\ stream = <<>>
  /\ reader = [pc |-> "connect", want |-> "frame"]
  /\ ds = [last |-> Unmeasured, connected |-> FALSE]

------------------------------------------------------------------------------
(***************************************************************************)
(* The controller.                                                         *)
(***************************************************************************)
Message(kind) ==
  <<[len |-> TRUE, kind |-> kind]>> \o
    [i \in 1 .. BodyChunks(kind) |-> [len |-> FALSE, value |-> robot.now]]

\* Noise is small; a mode or the joints change at once.
Neighbours(v) ==
  {[v EXCEPT !.force = f] : f \in {f \in Forces : f - v.force \in {-1, 1}}}
    \union {[v EXCEPT !.mode = 4 - @], [v EXCEPT !.joints = 3 - @]}

Change ==
  /\ robot.changes < MaxChanges
  /\ \E v \in Neighbours(robot.now) :
       robot' = [robot EXCEPT !.now = v, !.changes = @ + 1]
  /\ UNCHANGED <<stream, reader, ds>>

\* Frames come at 125 Hz; other messages count against the bound.
StartMessage ==
  /\ reader.pc # "connect" /\ robot.sending = <<>>
  /\ \/ robot' = [robot EXCEPT !.sending = Message("frame")]
     \/ /\ robot.losses < MaxLosses
        /\ \E kind \in {"other", "implausible"} :
             robot' = [robot EXCEPT !.sending = Message(kind), !.losses = @ + 1]
  /\ UNCHANGED <<stream, reader, ds>>

SendChunk ==
  /\ reader.pc # "connect" /\ robot.sending # <<>> /\ Len(stream) < Buffer
  /\ stream' = Append(stream, Head(robot.sending))
  /\ robot' = [robot EXCEPT !.sending = Tail(@)]
  /\ UNCHANGED <<reader, ds>>

------------------------------------------------------------------------------
(***************************************************************************)
(* The reader.                                                             *)
(***************************************************************************)
\* connect_loop: a new socket starts at a message boundary.
ConnectReader ==
  /\ reader.pc = "connect"
  /\ reader' = [reader EXCEPT !.pc = "length"]
  /\ stream' = <<>>
  /\ robot' = [robot EXCEPT !.sending = <<>>]
  /\ ds' = [ds EXCEPT !.connected = TRUE]

\* What the four bytes read as; a body chunk would pass for a plausible length.
Announced(chunk) == IF chunk.len THEN chunk.kind ELSE "other"

ReadLength ==
  /\ reader.pc = "length" /\ stream # <<>>
  /\ Announced(Head(stream)) # "implausible"
  /\ reader' = [pc |-> "body", want |-> Announced(Head(stream))]
  /\ stream' = Tail(stream)
  /\ UNCHANGED <<robot, ds>>

\* A body this parser has no layout for is read all the same, and dropped.
Skipped_Unread(body) == stream       \* mutant: skipped without being read
Skipped(body) == SubSeq(stream, body + 1, Len(stream))

ReadBody ==
  LET body == BodyChunks(reader.want)
  IN /\ reader.pc = "body" /\ Len(stream) >= body
     /\ \/ /\ reader.want = "frame"
           /\ stream' = SubSeq(stream, body + 1, Len(stream))
           /\ ds' = [ds EXCEPT !.last = stream[body].value]
        \/ /\ reader.want # "frame"
           /\ stream' = Skipped(body)
           /\ ds' = ds
     /\ reader' = [reader EXCEPT !.pc = "length"]
     /\ UNCHANGED robot

\* A second without the bytes asked for, or a closed socket.  What read_exact has
\* taken from the stream by then is gone.
ReadExpires ==
  /\ robot.losses < MaxLosses
  /\ \/ reader.pc = "length" /\ stream = <<>>
     \/ reader.pc = "body" /\ Len(stream) < BodyChunks(reader.want)

Implausible ==
  reader.pc = "length" /\ stream # <<>> /\ Announced(Head(stream)) = "implausible"

GivenUp_Forgets ==                   \* mutant: the last frame goes with the socket
  /\ stream' = <<>>
  /\ reader' = [reader EXCEPT !.pc = "connect"]
  /\ ds' = [last |-> [Unmeasured EXCEPT !.mode = -1], connected |-> FALSE]
GivenUp ==
  /\ stream' = <<>>
  /\ reader' = [reader EXCEPT !.pc = "connect"]
  /\ ds' = [ds EXCEPT !.connected = FALSE]

LoseStream ==
  /\ ReadExpires \/ Implausible
  /\ robot' = IF ReadExpires THEN [robot EXCEPT !.losses = @ + 1] ELSE robot
  /\ GivenUp

RealtimeFramesNext ==
  \/ ConnectReader
  \/ ReadLength
  \/ ReadBody
  \/ LoseStream
==============================================================================
