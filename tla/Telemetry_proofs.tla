--------------------------- MODULE Telemetry_proofs ---------------------------
(***************************************************************************)
(* For any set of force levels, any tolerance and any number of messages   *)
(* and losses: the reader is never in the middle of a message, and between *)
(* two ticks Redis is as near to the last sample as the publisher means it *)
(* to be, if no write is lost.                                             *)
(***************************************************************************)
EXTENDS Telemetry, SequenceTheorems, TLAPS

\* What a live robot measures; the fields of a frame also take the values before the first.
Live == [mode : {1, 3}, force : Forces, joints : {1, 2}]

Typed ==
  /\ robot.now \in Live /\ robot.sending \in Seq(Chunks)
  /\ robot = [now |-> robot.now, sending |-> robot.sending, changes |-> robot.changes,
              losses |-> robot.losses]
  /\ stream \in Seq(Chunks)
  /\ reader \in [pc : {"connect", "length", "body"}, want : FrameKinds]
  /\ ds \in [last : Measurements, connected : BOOLEAN]

------------------------------------------------------------------------------
(***************************************************************************)
(* Sequences of chunks.                                                    *)
(***************************************************************************)
\* A message starts at k, or would if all ends there.
Boundary(all, k) == k <= Len(all) + 1 /\ (k <= Len(all) => all[k].len)

\* From k on there are n chunks of a body, and then a message.
After(all, k, n) == Boundary(all, k + n) /\ \A i \in k .. k + n - 1 : ~ all[i].len

\* After n chunks of a body, all is one message after the other.
Whole(all, n) ==
  /\ After(all, 1, n)
  /\ \A j \in 1 .. Len(all) : all[j].len => After(all, j + 1, BodyChunks(all[j].kind))

Rest(all, n) == SubSeq(all, n + 1, Len(all))

\* A body has a number of chunks.
LEMMA BodyIsNat == \A kind : BodyChunks(kind) \in {0, 2}
BY DEF BodyChunks

\* What is left when n chunks are gone.
LEMMA RestFacts ==
  ASSUME NEW all \in Seq(Chunks), NEW n \in Nat, n <= Len(all)
  PROVE  /\ Rest(all, n) \in Seq(Chunks) /\ Len(Rest(all, n)) = Len(all) - n
         /\ \A j \in 1 .. Len(all) - n : Rest(all, n)[j] = all[n + j]
<1>1. Len(all) \in Nat
  BY LenProperties
<1>2. \A j \in n + 1 .. Len(all) : all[j] \in Chunks
  <2>1. \A j \in n + 1 .. Len(all) : j \in 1 .. Len(all)
    BY <1>1
  <2> QED
    BY <2>1, ElementOfSeq
<1>3. /\ Rest(all, n) \in Seq(Chunks)
      /\ Len(Rest(all, n)) = IF n + 1 <= Len(all) THEN Len(all) - (n + 1) + 1 ELSE 0
      /\ \A j \in 1 .. Len(all) - (n + 1) + 1 : Rest(all, n)[j] = all[n + 1 + j - 1]
  BY <1>1, <1>2, SubSeqProperties DEF Rest
<1> QED
  BY <1>1, <1>3

\* It is still one message after the other.
LEMMA RestIsWhole ==
  ASSUME NEW all \in Seq(Chunks), NEW n \in Nat, n <= Len(all), NEW b \in {0, 2},
         \A j \in 1 .. Len(all) : all[j].len => After(all, j + 1, BodyChunks(all[j].kind)),
         After(all, n + 1, b)
  PROVE  Whole(Rest(all, n), b)
<1>1. Len(all) \in Nat /\ Len(Rest(all, n)) = Len(all) - n
      /\ \A j \in 1 .. Len(all) - n : Rest(all, n)[j] = all[n + j]
  BY RestFacts, LenProperties
<1>2. ASSUME NEW j \in Nat \ {0}, NEW c \in {0, 2}, After(all, n + j, c)
      PROVE  After(Rest(all, n), j, c)
  <2>1. /\ n + j + c <= Len(all) + 1 /\ (n + j + c <= Len(all) => all[n + j + c].len)
        /\ \A i \in n + j .. n + j + c - 1 : ~ all[i].len
    BY <1>2 DEF After, Boundary
  <2>2. Boundary(Rest(all, n), j + c)
    <3>1. j + c \in Nat \ {0} /\ j + c <= Len(all) - n + 1
      BY <1>1, <2>1
    <3>2. ASSUME j + c <= Len(all) - n PROVE Rest(all, n)[j + c].len
      <4>1. j + c \in 1 .. Len(all) - n /\ n + (j + c) = n + j + c /\ n + j + c <= Len(all)
        BY <1>1, <3>1, <3>2
      <4> QED
        BY <1>1, <2>1, <4>1
    <3> QED
      BY <1>1, <3>1, <3>2 DEF Boundary
  <2>3. ASSUME NEW i \in j .. j + c - 1 PROVE ~ Rest(all, n)[i].len
    <3>1. n + i \in n + j .. n + j + c - 1 /\ i \in 1 .. Len(all) - n
      BY <1>1, <2>1
    <3> QED
      BY <1>1, <2>1, <3>1
  <2> QED
    BY <2>2, <2>3 DEF After
<1>3. ASSUME NEW j \in 1 .. Len(Rest(all, n)), Rest(all, n)[j].len
      PROVE  After(Rest(all, n), j + 1, BodyChunks(Rest(all, n)[j].kind))
  <2> DEFINE c == BodyChunks(all[n + j].kind)
  <2>1. c \in {0, 2}
    BY BodyIsNat
  <2>2. n + j \in 1 .. Len(all) /\ Rest(all, n)[j] = all[n + j]
    BY <1>1
  <2>3. After(all, n + j + 1, c)
    BY <1>3, <2>2
  <2> HIDE DEF c
  <2>4. n + j + 1 = n + (j + 1) /\ j + 1 \in Nat \ {0}
    BY <1>1
  <2>5. After(Rest(all, n), j + 1, c)
    BY <1>2, <2>1, <2>3, <2>4
  <2> QED
    BY <2>2, <2>5 DEF c
<1> QED
  BY <1>2, <1>3 DEF Whole

\* So it is with a message more.
LEMMA MessageIsWhole ==
  ASSUME NEW all \in Seq(Chunks), NEW k \in {0, 2}, Whole(all, k),
         NEW m \in Seq(Chunks), NEW kind, Len(m) = 1 + BodyChunks(kind),
         m[1].len, m[1].kind = kind, \A j \in 2 .. Len(m) : ~ m[j].len
  PROVE  Whole(all \o m, k)
<1> DEFINE n == Len(all)
           b == BodyChunks(kind)
           more == all \o m
<1>1. n \in Nat /\ b \in {0, 2} /\ Len(more) = n + 1 + b
  <2>1. n \in Nat /\ Len(m) \in Nat
    BY LenProperties
  <2>2. Len(more) = n + Len(m)
    BY ConcatProperties, Zenon
  <2>3. b \in {0, 2}
    BY BodyIsNat
  <2> QED
    BY <2>1, <2>2, <2>3
<1>2. \A j \in 1 .. n + 1 + b : more[j] = IF j <= n THEN all[j] ELSE m[j - n]
  <2>1. \A j \in 1 .. Len(all) + Len(m) :
          (all \o m)[j] = IF j <= Len(all) THEN all[j] ELSE m[j - Len(all)]
    BY ConcatProperties, Zenon
  <2>2. Len(all) + Len(m) = n + 1 + b
    BY <1>1
  <2> QED
    BY <2>1, <2>2
<1>3. /\ \A j \in 1 .. n : more[j] = all[j]
      /\ more[n + 1] = m[1]
      /\ \A j \in n + 2 .. n + 1 + b : ~ more[j].len
  <2>1. \A j \in n + 2 .. n + 1 + b : j \in 1 .. n + 1 + b /\ ~ j <= n /\ j - n \in 2 .. Len(m)
    BY <1>1
  <2>2. n + 1 \in 1 .. n + 1 + b /\ ~ n + 1 <= n /\ n + 1 - n = 1
    BY <1>1
  <2>3. \A j \in 1 .. n : j \in 1 .. n + 1 + b /\ j <= n
    BY <1>1
  <2> HIDE DEF n, b, more
  <2>4. more[n + 1] = m[1]
    BY <1>1, <1>2, <2>2, SMTT(20)
  <2>5. \A j \in n + 2 .. n + 1 + b : more[j] = m[j - n]
    BY <1>2, <2>1, SMTT(20)
  <2>6. \A j \in 1 .. n : more[j] = all[j]
    BY <1>2, <2>3
  <2> QED
    BY <2>1, <2>4, <2>5, <2>6
<1>4. ASSUME NEW j \in Nat \ {0}, NEW c \in {0, 2}, After(all, j, c) PROVE After(more, j, c)
  <2>1. /\ j + c <= n + 1 /\ (j + c <= n => all[j + c].len)
        /\ \A i \in j .. j + c - 1 : ~ all[i].len
    BY <1>4 DEF After, Boundary
  <2> HIDE DEF n, b, more
  <2>2. j + c <= n \/ j + c = n + 1
    BY <1>1, <2>1
  <2>3. Boundary(more, j + c)
    BY <1>1, <1>3, <2>1, <2>2 DEF Boundary
  <2>4. ASSUME NEW i \in j .. j + c - 1 PROVE ~ more[i].len
    <3>1. i \in 1 .. n
      BY <1>1, <2>1
    <3> QED
      BY <1>3, <2>1, <3>1
  <2> QED
    BY <2>3, <2>4 DEF After
<1>5. After(more, n + 1 + 1, b)
  <2> HIDE DEF n, b, more
  <2>1. Boundary(more, n + 1 + 1 + b)
    BY <1>1 DEF Boundary
  <2> QED
    BY <1>1, <1>3, <2>1 DEF After
<1>6. ASSUME NEW j \in 1 .. Len(more), more[j].len
      PROVE  After(more, j + 1, BodyChunks(more[j].kind))
  <2>1. CASE j <= n
    <3>1. j \in 1 .. n /\ more[j] = all[j]
      BY <1>1, <1>3, <2>1
    <3>2. After(all, j + 1, BodyChunks(all[j].kind))
      BY <1>6, <3>1 DEF Whole
    <3>3. j + 1 \in Nat \ {0} /\ BodyChunks(all[j].kind) \in {0, 2}
      BY <1>1, <3>1, BodyIsNat
    <3> QED
      BY <1>4, <3>1, <3>2, <3>3
  <2>2. CASE j > n
    <3>1. j = n + 1
      <4> HIDE DEF n, b, more
      <4> QED
        BY <1>1, <1>3, <1>6, <2>2
    <3>2. BodyChunks(more[j].kind) = b
      BY <1>3, <3>1
    <3> QED
      BY <1>5, <3>1, <3>2
  <2> QED
    BY <1>1, <2>1, <2>2
<1> QED
  BY <1>4, <1>6 DEF Whole

------------------------------------------------------------------------------
(***************************************************************************)
(* What is under way, and what of a message is still to be sent, is one    *)
(* message after the other once the body being read is past.               *)
(***************************************************************************)
Coming == stream \o robot.sending
Expected == IF reader.pc = "body" THEN BodyChunks(reader.want) ELSE 0
StreamInv == Typed /\ (reader.pc # "connect" => Whole(Coming, Expected))

\* The stream is empty and the controller sends nothing at first.
LEMMA StreamInit == Init => StreamInv
<1> SUFFICES ASSUME Init PROVE StreamInv
  OBVIOUS
<1>1. Typed
  BY RealtimeAssumption
     DEF Init, ReaderInit, Typed, Live, Measurements, Unmeasured, FrameKinds
<1> QED
  BY <1>1 DEF Init, ReaderInit, StreamInv

\* A message is its length and the chunks of its body.
LEMMA MessageFacts ==
  ASSUME robot.now \in Live, NEW kind \in FrameKinds
  PROVE  /\ Message(kind) \in Seq(Chunks)
         /\ Len(Message(kind)) = 1 + BodyChunks(kind)
         /\ Message(kind)[1].len /\ Message(kind)[1].kind = kind
         /\ \A k \in 2 .. Len(Message(kind)) : ~ Message(kind)[k].len
<1> DEFINE head == <<[len |-> TRUE, kind |-> kind]>>
           body == [i \in 1 .. BodyChunks(kind) |-> [len |-> FALSE, value |-> robot.now]]
<1>1. head \in Seq(Chunks) /\ Len(head) = 1 /\ head[1] = [len |-> TRUE, kind |-> kind]
  BY DEF Chunks
<1>2. body \in Seq(Chunks) /\ Len(body) = BodyChunks(kind)
      /\ \A k \in 1 .. BodyChunks(kind) : ~ body[k].len
  <2> DEFINE value == [len |-> FALSE, value |-> robot.now]
             n == BodyChunks(kind)
  <2>1. value \in Chunks /\ ~ value.len
    BY DEF Chunks, Measurements, Live
  <2>2. n \in Nat
    BY BodyIsNat
  <2>3. body = [i \in 1 .. n |-> value]
    OBVIOUS
  <2> HIDE DEF value, n, body
  <2>4. body \in [1 .. n -> Chunks]
    BY <2>1, <2>3
  <2>5. body \in Seq(Chunks)
    BY <2>2, <2>4, SeqDef
  <2>6. Len(body) = n
    BY <2>2, <2>4, <2>5, LenProperties
  <2>7. \A k \in 1 .. n : ~ body[k].len
    BY <2>1, <2>3
  <2> QED
    BY <2>5, <2>6, <2>7 DEF n
<1>3. Message(kind) = head \o body
  BY DEF Message
<1> HIDE DEF head, body
<1>4. /\ head \o body \in Seq(Chunks) /\ Len(head \o body) = 1 + BodyChunks(kind)
      /\ \A k \in 1 .. 1 + BodyChunks(kind) :
           (head \o body)[k] = IF k <= 1 THEN head[k] ELSE body[k - 1]
  <2>1. \A k \in 1 .. Len(head) + Len(body) :
          (head \o body)[k] = IF k <= Len(head) THEN head[k] ELSE body[k - Len(head)]
    BY <1>1, <1>2, ConcatProperties, Zenon
  <2>2. head \o body \in Seq(Chunks) /\ Len(head \o body) = Len(head) + Len(body)
    BY <1>1, <1>2, ConcatProperties, Zenon
  <2> QED
    BY <1>1, <1>2, <2>1, <2>2
<1>5. 1 \in 1 .. 1 + BodyChunks(kind)
      /\ \A k \in 2 .. 1 + BodyChunks(kind) :
           k \in 1 .. 1 + BodyChunks(kind) /\ ~ k <= 1 /\ k - 1 \in 1 .. BodyChunks(kind)
  BY BodyIsNat
<1> QED
  BY <1>1, <1>2, <1>3, <1>4, <1>5

\* The controller starts a message where the last one ends.
LEMMA StartKeeps ==
  ASSUME StreamInv, StartMessage
  PROVE  StreamInv'
<1>1. PICK kind \in FrameKinds : robot'.sending = Message(kind) /\ robot'.now = robot.now
        /\ robot' = [now |-> robot'.now, sending |-> robot'.sending,
                     changes |-> robot'.changes, losses |-> robot'.losses]
  BY DEF StartMessage, StreamInv, Typed, FrameKinds
<1>2. /\ Typed /\ robot.sending = <<>> /\ UNCHANGED <<stream, reader, ds>>
      /\ Expected \in {0, 2} /\ Whole(Coming, Expected)
  BY BodyIsNat DEF StartMessage, StreamInv, Expected
<1>3. Typed'
  BY <1>1, <1>2, MessageFacts DEF Typed
<1>4. Coming = stream /\ Coming' = stream \o Message(kind) /\ Expected' = Expected
  BY <1>1, <1>2, ConcatEmptySeq DEF Coming, Expected, Typed
<1>5. Whole(stream \o Message(kind), Expected)
  <2> DEFINE m == Message(kind)
  <2>1. /\ m \in Seq(Chunks) /\ Len(m) = 1 + BodyChunks(kind)
        /\ m[1].len /\ m[1].kind = kind /\ \A k \in 2 .. Len(m) : ~ m[k].len
    BY <1>2, MessageFacts DEF Typed
  <2>2. stream \in Seq(Chunks)
    BY <1>2 DEF Typed
  <2> HIDE DEF m
  <2>3. Whole(stream \o m, Expected)
    BY <1>2, <1>4, <2>1, <2>2, MessageIsWhole
  <2> QED
    BY <2>3 DEF m
<1> QED
  BY <1>3, <1>4, <1>5 DEF StreamInv

\* A chunk goes from the one to the other.
LEMMA SendKeeps ==
  ASSUME StreamInv, SendChunk
  PROVE  StreamInv'
<1> DEFINE head == Head(robot.sending)
           tail == Tail(robot.sending)
<1>1. /\ Typed /\ robot.sending # <<>> /\ stream' = Append(stream, head)
      /\ robot' = [robot EXCEPT !.sending = tail] /\ UNCHANGED <<reader, ds>>
      /\ Whole(Coming, Expected)
  BY DEF SendChunk, StreamInv
<1>2. robot'.sending = tail /\ robot'.now = robot.now
      /\ robot' = [now |-> robot'.now, sending |-> robot'.sending,
                   changes |-> robot'.changes, losses |-> robot'.losses]
  BY <1>1 DEF Typed
<1>3. /\ head \in Chunks /\ tail \in Seq(Chunks) /\ robot.sending = <<head>> \o tail
      /\ stream \in Seq(Chunks) /\ <<head>> \in Seq(Chunks)
  <2>1. /\ head \in Chunks /\ tail \in Seq(Chunks) /\ Len(tail) = Len(robot.sending) - 1
        /\ \A i \in 1 .. Len(tail) : tail[i] = robot.sending[i + 1]
    BY <1>1, HeadTailProperties DEF Typed
  <2>2. <<head>> \in Seq(Chunks) /\ stream \in Seq(Chunks)
    BY <1>1, <2>1 DEF Typed
  <2>3. robot.sending = <<head>> \o tail
    BY <1>1 DEF Typed
  <2> QED
    BY <2>1, <2>2, <2>3
<1>4. Append(stream, head) = stream \o <<head>> /\ Append(stream, head) \in Seq(Chunks)
  BY <1>3
<1>5. Coming' = Coming
  <2>1. stream \o (<<head>> \o tail) = (stream \o <<head>>) \o tail
    <3> DEFINE one == <<head>>
    <3>1. one \in Seq(Chunks) /\ tail \in Seq(Chunks) /\ stream \in Seq(Chunks)
      BY <1>3
    <3> HIDE DEF one, tail
    <3>2. stream \o (one \o tail) = (stream \o one) \o tail
      BY <3>1, ConcatAssociative
    <3> QED
      BY <3>2 DEF one
  <2> QED
    BY <1>1, <1>2, <1>3, <1>4, <2>1 DEF Coming
<1>6. Typed'
  BY <1>1, <1>2, <1>3, <1>4 DEF Typed
<1> QED
  BY <1>1, <1>5, <1>6 DEF StreamInv, Expected

\* A new socket brings nothing of the old one.
LEMMA ConnectKeeps ==
  ASSUME StreamInv, ConnectReader
  PROVE  StreamInv'
<1>1. robot'.sending = <<>> /\ stream' = <<>> /\ reader'.pc = "length" /\ Typed'
  <2>1. <<>> \in Seq(Chunks)
    BY EmptySeq
  <2>2. /\ stream' = <<>> /\ robot'.sending = <<>> /\ robot'.now \in Live
        /\ robot' = [now |-> robot'.now, sending |-> robot'.sending,
                     changes |-> robot'.changes, losses |-> robot'.losses]
    BY DEF StreamInv, Typed, ConnectReader
  <2>3. /\ reader' \in [pc : {"connect", "length", "body"}, want : FrameKinds]
        /\ reader'.pc = "length"
    BY DEF StreamInv, Typed, ConnectReader
  <2>4. ds' \in [last : Measurements, connected : BOOLEAN]
    BY DEF StreamInv, Typed, ConnectReader
  <2> QED
    BY <2>1, <2>2, <2>3, <2>4 DEF Typed
<1>2. Coming' = <<>> \o <<>> /\ Expected' = 0
  BY <1>1 DEF Coming, Expected
<1>3. <<>> \o <<>> = <<>>
  BY EmptySeq, ConcatEmptySeq
<1>4. Whole(<<>>, 0)
  BY DEF Whole, After, Boundary
<1> QED
  BY <1>1, <1>2, <1>3, <1>4 DEF StreamInv

\* What is taken from the front of the stream is taken from what is coming.
LEMMA TakenFromFront ==
  ASSUME NEW s \in Seq(Chunks), NEW t \in Seq(Chunks), NEW n \in Nat, n <= Len(s)
  PROVE  Rest(s, n) \o t = Rest(s \o t, n)
<1>1. /\ Len(s) \in Nat /\ Len(t) \in Nat /\ s \o t \in Seq(Chunks)
      /\ Len(s \o t) = Len(s) + Len(t)
      /\ \A i \in 1 .. Len(s) + Len(t) : (s \o t)[i] = IF i <= Len(s) THEN s[i] ELSE t[i - Len(s)]
  BY LenProperties, ConcatProperties
<1>2. /\ Rest(s, n) \in Seq(Chunks) /\ Len(Rest(s, n)) = Len(s) - n
      /\ \A j \in 1 .. Len(s) - n : Rest(s, n)[j] = s[n + j]
  BY RestFacts
<1>3. /\ Rest(s \o t, n) \in Seq(Chunks) /\ Len(Rest(s \o t, n)) = Len(s) + Len(t) - n
      /\ \A j \in 1 .. Len(s) + Len(t) - n : Rest(s \o t, n)[j] = (s \o t)[n + j]
  <2> DEFINE all == s \o t
  <2>1. all \in Seq(Chunks) /\ n <= Len(all) /\ Len(all) = Len(s) + Len(t)
    BY <1>1
  <2> HIDE DEF all
  <2>2. /\ Rest(all, n) \in Seq(Chunks) /\ Len(Rest(all, n)) = Len(all) - n
        /\ \A j \in 1 .. Len(all) - n : Rest(all, n)[j] = all[n + j]
    BY <2>1, RestFacts
  <2> QED
    BY <2>1, <2>2 DEF all
<1>4. /\ Rest(s, n) \o t \in Seq(Chunks) /\ Len(Rest(s, n) \o t) = Len(s) - n + Len(t)
      /\ \A i \in 1 .. Len(s) - n + Len(t) : (Rest(s, n) \o t)[i] =
           IF i <= Len(s) - n THEN Rest(s, n)[i] ELSE t[i - (Len(s) - n)]
  <2> DEFINE rest == Rest(s, n)
  <2>1. rest \in Seq(Chunks) /\ Len(rest) = Len(s) - n
    BY <1>2
  <2> HIDE DEF rest
  <2>2. /\ rest \o t \in Seq(Chunks) /\ Len(rest \o t) = Len(rest) + Len(t)
        /\ \A i \in 1 .. Len(rest) + Len(t) :
             (rest \o t)[i] = IF i <= Len(rest) THEN rest[i] ELSE t[i - Len(rest)]
    BY <2>1, ConcatProperties, Zenon
  <2> QED
    BY <2>1, <2>2 DEF rest
<1>5. ASSUME NEW i \in 1 .. Len(s) - n + Len(t)
      PROVE  (Rest(s, n) \o t)[i] = Rest(s \o t, n)[i]
  <2>1. n + i \in 1 .. Len(s) + Len(t) /\ i \in 1 .. Len(s) + Len(t) - n
    BY <1>1
  <2>2. Rest(s \o t, n)[i] = IF n + i <= Len(s) THEN s[n + i] ELSE t[n + i - Len(s)]
    BY <1>1, <1>3, <2>1
  <2>3. CASE i <= Len(s) - n
    BY <1>1, <1>2, <1>4, <2>2, <2>3
  <2>4. CASE ~ i <= Len(s) - n
    <3>1. i - (Len(s) - n) = n + i - Len(s) /\ ~ n + i <= Len(s)
      BY <1>1, <2>4
    <3> QED
      BY <1>4, <2>2, <2>4, <3>1
  <2> QED
    BY <2>3, <2>4
<1>6. Len(Rest(s, n) \o t) = Len(Rest(s \o t, n))
  BY <1>1, <1>3, <1>4
<1> QED
  BY <1>3, <1>4, <1>5, <1>6, SeqEqual
\* The length of a message is where a message starts.
LEMMA LengthKeeps ==
  ASSUME StreamInv, ReadLength
  PROVE  StreamInv'
<1> DEFINE head == Head(stream)
           b == BodyChunks(Announced(head))
<1>1. /\ Typed /\ stream \in Seq(Chunks) /\ robot.sending \in Seq(Chunks) /\ stream # <<>>
      /\ stream' = Tail(stream) /\ reader' = [pc |-> "body", want |-> Announced(head)]
      /\ UNCHANGED <<robot, ds>> /\ Whole(Coming, 0)
  BY DEF ReadLength, StreamInv, Typed, Expected
<1>2. /\ Coming \in Seq(Chunks) /\ Len(Coming) \in Nat /\ 1 <= Len(stream)
      /\ Len(Coming) = Len(stream) + Len(robot.sending) /\ Coming[1] = head
      /\ head \in Chunks
  BY <1>1 DEF Coming
<1>3. head.len /\ Announced(head) = head.kind /\ head.kind \in FrameKinds
  <2>1. Coming[1].len
    BY <1>1, <1>2, LenProperties DEF Whole, After, Boundary
  <2> QED
    BY <1>2, <2>1 DEF Announced, Chunks
<1>4. After(Coming, 1 + 1, b) /\ b \in {0, 2}
  <2>1. 1 \in 1 .. Len(Coming)
    BY <1>1, <1>2, LenProperties
  <2>2. After(Coming, 1 + 1, BodyChunks(Coming[1].kind))
    BY <1>1, <1>2, <1>3, <2>1 DEF Whole
  <2>3. b \in {0, 2}
    BY BodyIsNat
  <2> HIDE DEF b
  <2>4. BodyChunks(Coming[1].kind) = b
    BY <1>2, <1>3 DEF b
  <2> QED
    BY <2>2, <2>3, <2>4
<1>5. Whole(Rest(Coming, 1), b)
  <2> HIDE DEF b
  <2>1. 1 \in Nat /\ 1 <= Len(Coming)
    BY <1>1, <1>2, <1>4, LenProperties
  <2> QED
    BY <1>1, <1>2, <1>4, <2>1, RestIsWhole, SMTT(20) DEF Whole
<1>6. stream' = Rest(stream, 1) /\ stream' \in Seq(Chunks)
  BY <1>1, HeadTailProperties, TailIsSubSeq DEF Rest
<1>7. Coming' = Rest(Coming, 1)
  <2>1. Rest(stream, 1) \o robot.sending = Rest(stream \o robot.sending, 1)
    <3>1. 1 \in Nat /\ 1 <= Len(stream)
      BY <1>2
    <3> QED
      BY ONLY <1>1, <3>1, TakenFromFront
  <2> QED
    BY <1>1, <1>6, <2>1 DEF Coming
<1>8. Expected' = b
  BY <1>1 DEF Expected
<1>9. Typed'
  BY <1>1, <1>3, <1>6 DEF Typed
<1> QED
  BY <1>5, <1>7, <1>8, <1>9 DEF StreamInv

\* A body is read, or skipped, to its end.
LEMMA BodyKeeps ==
  ASSUME StreamInv, ReadBody
  PROVE  StreamInv'
<1> DEFINE b == BodyChunks(reader.want)
<1>1. /\ Typed /\ stream \in Seq(Chunks) /\ robot.sending \in Seq(Chunks)
      /\ b <= Len(stream) /\ b \in {0, 2}
      /\ stream' = Rest(stream, b) /\ reader' = [reader EXCEPT !.pc = "length"]
      /\ UNCHANGED robot /\ Whole(Coming, b)
  BY BodyIsNat DEF ReadBody, Skipped, StreamInv, Typed, Expected, Rest
<1> HIDE DEF b
<1>2. /\ Coming \in Seq(Chunks) /\ b <= Len(Coming) /\ b \in Nat
  <2>1. Len(stream) \in Nat /\ Len(robot.sending) \in Nat
    BY <1>1, LenProperties
  <2>2. Coming \in Seq(Chunks) /\ Len(Coming) = Len(stream) + Len(robot.sending)
    BY <1>1 DEF Coming
  <2> QED
    BY <1>1, <2>1, <2>2
<1>3. Whole(Rest(Coming, b), 0)
  <2>1. Boundary(Coming, 1 + b) /\ 1 + b = b + 1 /\ b + 1 + 0 = b + 1
    BY <1>1, <1>2 DEF Whole, After
  <2>2. After(Coming, b + 1, 0)
    BY <1>2, <2>1 DEF After
  <2> QED
    BY <1>1, <1>2, <2>2, RestIsWhole DEF Whole
<1>4. Coming' = Rest(Coming, b)
  BY <1>1, <1>2, TakenFromFront DEF Coming
<1>5. Rest(stream, b) \in Seq(Chunks)
  BY <1>1, <1>2, RestFacts
<1>6. ds' \in [last : Measurements, connected : BOOLEAN]
  <2>1. CASE ds' = ds
    BY <1>1, <2>1 DEF Typed
  <2>2. CASE reader.want = "frame" /\ ds' = [ds EXCEPT !.last = stream[b].value]
    <3>1. b = 2 /\ 2 \in 1 .. Len(stream)
      BY <1>1, <2>2, LenProperties DEF b, BodyChunks
    <3>2. Coming[2] = stream[2] /\ stream[2] \in Chunks
      BY <1>1, <3>1 DEF Coming
    <3>3. ~ Coming[2].len
      BY <1>1, <3>1 DEF Whole, After
    <3>4. stream[2].value \in Measurements
      BY <3>2, <3>3 DEF Chunks
    <3> QED
      BY <1>1, <2>2, <3>1, <3>4 DEF Typed
  <2> QED
    BY <2>1, <2>2 DEF ReadBody, b
<1>7. Typed'
  BY <1>1, <1>5, <1>6 DEF Typed
<1> QED
  BY <1>1, <1>3, <1>4, <1>7 DEF StreamInv, Expected, Typed

\* A stream that is given up brings no message any more.
LEMMA LoseKeeps ==
  ASSUME StreamInv, LoseStream
  PROVE  StreamInv'
<1>1. /\ stream' = <<>> /\ reader' = [reader EXCEPT !.pc = "connect"] /\ Typed
      /\ robot' = [robot EXCEPT !.losses = @ + 1] \/ robot' = robot
  BY DEF LoseStream, GivenUp, StreamInv
<1>2. /\ robot'.now = robot.now /\ robot'.sending = robot.sending
      /\ robot' = [now |-> robot'.now, sending |-> robot'.sending,
                   changes |-> robot'.changes, losses |-> robot'.losses]
  BY <1>1 DEF Typed
<1>3. <<>> \in Seq(Chunks)
  BY EmptySeq
<1>4. ds' \in [last : Measurements, connected : BOOLEAN]
  BY DEF LoseStream, GivenUp, StreamInv, Typed
<1>5. Typed' /\ reader'.pc = "connect"
  BY <1>1, <1>2, <1>3, <1>4 DEF Typed
<1> QED
  BY <1>5 DEF StreamInv

\* What is measured changes in what is sent next, not in what is under way.
LEMMA ChangeKeeps ==
  ASSUME StreamInv, Change
  PROVE  StreamInv'
<1>1. PICK v \in Neighbours(robot.now) : robot' = [robot EXCEPT !.now = v, !.changes = @ + 1]
  BY DEF Change
<1>2. Typed /\ UNCHANGED <<stream, reader, ds>>
  BY DEF StreamInv, Change
<1>3. v \in Live
  <2>1. robot.now \in Live
    BY <1>2 DEF Typed
  <2>2. CASE \E f \in Forces : v = [robot.now EXCEPT !.force = f]
    BY <2>1, <2>2 DEF Live
  <2>3. CASE v = [robot.now EXCEPT !.mode = 4 - @]
    BY <2>1, <2>3 DEF Live
  <2>4. CASE v = [robot.now EXCEPT !.joints = 3 - @]
    BY <2>1, <2>4 DEF Live
  <2> QED
    BY <2>2, <2>3, <2>4 DEF Neighbours
<1>4. /\ robot'.now = v /\ robot'.sending = robot.sending
      /\ robot' = [now |-> robot'.now, sending |-> robot'.sending,
                   changes |-> robot'.changes, losses |-> robot'.losses]
  BY <1>1, <1>2 DEF Typed
<1>5. Typed'
  BY <1>2, <1>3, <1>4 DEF Typed
<1> QED
  BY <1>2, <1>4, <1>5 DEF StreamInv, Coming, Expected

\* Every step keeps what is coming whole.
LEMMA StreamKeeps == StreamInv /\ [Next]_vars => StreamInv'
<1> SUFFICES ASSUME StreamInv, [Next]_vars PROVE StreamInv'
  OBVIOUS
<1>1. CASE UNCHANGED <<robot, stream, reader, ds>>
  BY <1>1 DEF StreamInv, Typed, Coming, Expected
<1>2. CASE StatePublisherNext
  BY <1>1, <1>2
     DEF StatePublisherNext, Tick, PublishMeasured, PublishJoints, PublishFrames,
         PublisherOnly, readerVars
<1>3. CASE RealtimeFramesNext
  BY <1>3, ConnectKeeps, LengthKeeps, BodyKeeps, LoseKeeps DEF RealtimeFramesNext
<1>4. CASE Change \/ StartMessage \/ SendChunk
  BY <1>4, ChangeKeeps, StartKeeps, SendKeeps
<1> QED
  BY <1>1, <1>2, <1>3, <1>4 DEF Next, vars

\* What is next read as a length is one, for messages of any kind and however many reads
\* fail (realtime_reader.rs:63-65).
THEOREM ReaderIsInSync == Spec => []InSync
<1>1. StreamInv => InSync
  <2> SUFFICES ASSUME StreamInv, reader.pc = "length", stream # <<>> PROVE Head(stream).len
    BY DEF InSync
  <2>1. /\ Boundary(Coming, 1 + 0) /\ stream \in Seq(Chunks) /\ robot.sending \in Seq(Chunks)
    BY DEF StreamInv, Typed, Whole, After, Expected
  <2>2. /\ Coming[1] = Head(stream) /\ 1 <= Len(Coming)
    BY <2>1 DEF Coming
  <2> QED
    BY <2>1, <2>2 DEF Boundary
<1> QED
  BY StreamInit, StreamKeeps, <1>1, PTL DEF Spec

------------------------------------------------------------------------------
(***************************************************************************)
(* What the publisher remembers is what it wrote, or is about to.          *)
(***************************************************************************)
Measurement == [mode : Int, force : Int, connected : BOOLEAN]

PublisherTyped ==
  /\ publisher = [pc |-> publisher.pc, sample |-> publisher.sample, joints |-> publisher.joints,
                  lastMeasured |-> publisher.lastMeasured, lastJoints |-> publisher.lastJoints]
  /\ pub = [measured |-> pub.measured, joints |-> pub.joints, frames |-> pub.frames]
  /\ publisher.sample \in Measurement /\ publisher.lastMeasured \in Measurement
  /\ publisher.joints \in Int /\ pub.joints \in Int

Remembers ==
  /\ publisher.pc = "measured" => publisher.lastMeasured = publisher.sample
  /\ publisher.pc # "measured" =>
       /\ pub.measured = publisher.lastMeasured
       /\ ~ DiffersFrom(publisher.sample, publisher.lastMeasured)
  /\ publisher.pc = "frames" => pub.joints = publisher.joints
  /\ publisher.pc # "frames" /\ pub.joints > 0 => pub.frames = pub.joints

PublisherInv == PublisherTyped /\ Remembers

\* Nothing is written at first, and that is what is remembered.
LEMMA PublisherInit0 == Init => PublisherInv
BY PublisherAssumption
   DEF Init, PublisherInit, PublisherInv, PublisherTyped, Remembers, Unpublished, Measurement,
       DiffersFrom, Abs

\* A value is as near to itself as any tolerance asks.
LEMMA SameIsNear ==
  ASSUME NEW m \in Measurement
  PROVE  ~ DiffersFrom(m, m)
BY PublisherAssumption DEF DiffersFrom, Abs, Measurement

\* What DriverState holds is a measurement.
LEMMA SampleTyped ==
  ASSUME StreamInv
  PROVE  Measured \in Measurement /\ ds.last.joints \in Int
BY RealtimeAssumption DEF StreamInv, Typed, Measured, Measurement, Measurements

\* A tick remembers a sample only if it is going to write it.
LEMMA TickKeeps ==
  ASSUME StreamInv, PublisherInv, Tick
  PROVE  PublisherInv'
<1> DEFINE differs == DiffersFrom(Measured, publisher.lastMeasured)
<1>1. /\ publisher.pc = "tick" /\ pub' = pub /\ PublisherTyped /\ Remembers
      /\ Measured \in Measurement /\ ds.last.joints \in Int
  BY SampleTyped DEF Tick, PublisherInv
<1>2. PICK after \in {"tick", "joints"} :
        /\ publisher'.pc = IF differs THEN "measured" ELSE after
        /\ publisher'.sample = Measured /\ publisher'.joints = ds.last.joints
        /\ publisher'.lastMeasured = IF differs THEN Measured ELSE publisher.lastMeasured
        /\ publisher' = [pc |-> publisher'.pc, sample |-> publisher'.sample,
                         joints |-> publisher'.joints,
                         lastMeasured |-> publisher'.lastMeasured,
                         lastJoints |-> publisher'.lastJoints]
  BY <1>1 DEF Tick, PublisherTyped, Remembered, AfterMeasured
<1> HIDE DEF differs
<1>3. PublisherTyped'
  BY <1>1, <1>2 DEF PublisherTyped
<1>4. Remembers'
  <2>1. CASE differs
    BY <1>1, <1>2, <2>1 DEF Remembers
  <2>2. CASE ~ differs
    <3>1. ~ DiffersFrom(publisher'.sample, publisher'.lastMeasured)
      BY <1>2, <2>2 DEF differs
    <3>2. publisher'.pc \notin {"measured", "frames"} /\ pub'.measured = publisher'.lastMeasured
      BY <1>1, <1>2, <2>2 DEF Remembers
    <3>3. pub'.joints > 0 => pub'.frames = pub'.joints
      BY <1>1 DEF Remembers
    <3> QED
      BY <3>1, <3>2, <3>3 DEF Remembers
  <2> QED
    BY <2>1, <2>2
<1> QED
  BY <1>3, <1>4 DEF PublisherInv

\* The sample is written whole.
LEMMA MeasuredKeeps ==
  ASSUME ~ RedisFails, PublisherInv, PublishMeasured
  PROVE  PublisherInv'
<1>1. /\ publisher.pc = "measured" /\ PublisherTyped /\ Remembers
      /\ pub' = [pub EXCEPT !.measured = publisher.sample]
  BY DEF PublishMeasured, PublisherInv, Writes, Written
<1>2. /\ publisher'.pc \in {"tick", "joints"} /\ publisher'.sample = publisher.sample
      /\ publisher'.joints = publisher.joints
      /\ publisher'.lastMeasured = publisher.lastMeasured
      /\ publisher' = [pc |-> publisher'.pc, sample |-> publisher'.sample,
                       joints |-> publisher'.joints,
                       lastMeasured |-> publisher'.lastMeasured,
                       lastJoints |-> publisher'.lastJoints]
  BY <1>1 DEF PublishMeasured, PublisherTyped, AfterMeasured
<1>3. /\ pub'.measured = publisher.sample /\ pub'.joints = pub.joints /\ pub'.frames = pub.frames
      /\ pub' = [measured |-> pub'.measured, joints |-> pub'.joints, frames |-> pub'.frames]
  BY <1>1 DEF PublisherTyped
<1>4. PublisherTyped'
  BY <1>1, <1>2, <1>3 DEF PublisherTyped
<1>5. publisher.lastMeasured = publisher.sample /\ publisher.sample \in Measurement
  BY <1>1 DEF Remembers, PublisherTyped
<1>6. ~ DiffersFrom(publisher'.sample, publisher'.lastMeasured)
  BY <1>2, <1>5, SameIsNear
<1>7. Remembers'
  BY <1>1, <1>2, <1>3, <1>5, <1>6 DEF Remembers
<1> QED
  BY <1>4, <1>7 DEF PublisherInv

\* The joints first, and then the frames that belong to them.
LEMMA JointsKeeps ==
  ASSUME ~ RedisFails, PublisherInv, PublishJoints \/ PublishFrames
  PROVE  PublisherInv'
<1>1. PublisherTyped /\ Remembers /\ publisher.pc \in {"joints", "frames"}
  BY DEF PublishJoints, PublishFrames, PublisherInv
<1>2. /\ publisher'.sample = publisher.sample /\ publisher'.joints = publisher.joints
      /\ publisher'.lastMeasured = publisher.lastMeasured
      /\ publisher' = [pc |-> publisher'.pc, sample |-> publisher'.sample,
                       joints |-> publisher'.joints,
                       lastMeasured |-> publisher'.lastMeasured,
                       lastJoints |-> publisher'.lastJoints]
  BY <1>1 DEF PublishJoints, PublishFrames, PublisherTyped
<1>3. \/ /\ publisher'.pc = "frames" /\ pub'.joints = publisher.joints
         /\ pub'.measured = pub.measured
         /\ pub' = [measured |-> pub'.measured, joints |-> pub'.joints, frames |-> pub'.frames]
      \/ /\ publisher.pc = "frames" /\ publisher'.pc = "tick" /\ pub'.joints = pub.joints
         /\ pub'.measured = pub.measured /\ pub'.frames = FramesOf(publisher.joints)
         /\ pub' = [measured |-> pub'.measured, joints |-> pub'.joints, frames |-> pub'.frames]
  BY <1>1 DEF PublishJoints, PublishFrames, PublisherTyped, Writes, Written
<1>4. PublisherTyped'
  BY <1>1, <1>2, <1>3 DEF PublisherTyped
<1>5. ~ DiffersFrom(publisher'.sample, publisher'.lastMeasured)
  BY <1>1, <1>2 DEF Remembers
<1>6. Remembers'
  BY <1>1, <1>2, <1>3, <1>5 DEF Remembers, FramesOf
<1> QED
  BY <1>4, <1>6 DEF PublisherInv

\* While no write is lost, every step keeps both.
LEMMA PublisherKeeps ==
  ASSUME ~ RedisFails, StreamInv, PublisherInv, [Next]_vars
  PROVE  PublisherInv'
<1>1. CASE UNCHANGED <<publisher, pub>>
  BY <1>1 DEF PublisherInv, PublisherTyped, Remembers
<1>2. CASE StatePublisherNext
  BY <1>2, TickKeeps, MeasuredKeeps, JointsKeeps DEF StatePublisherNext
<1> QED
  BY <1>1, <1>2 DEF Next, vars

\* Both strengthenings hold in every reachable state.
LEMMA BothHold ==
  ASSUME ~ RedisFails
  PROVE  Spec => [](StreamInv /\ PublisherInv)
<1>1. Init => StreamInv /\ PublisherInv
  BY StreamInit, PublisherInit0
<1>2. StreamInv /\ PublisherInv /\ [Next]_vars => (StreamInv /\ PublisherInv)'
  BY StreamKeeps, PublisherKeeps
<1> QED
  BY <1>1, <1>2, PTL DEF Spec

\* If no write is lost, Redis is between two ticks within the tolerance of the last sample,
\* however slowly the measurement drifts, and its modes are those of that sample
\* (state_publisher.rs:458-464).
THEOREM DriftStaysBounded ==
  ASSUME ~ RedisFails
  PROVE  Spec => []DriftIsBounded
<1>1. PublisherInv => DriftIsBounded
  <2> SUFFICES ASSUME PublisherInv, publisher.pc = "tick"
      PROVE  /\ pub.measured.mode = publisher.sample.mode
             /\ pub.measured.connected = publisher.sample.connected
             /\ Abs(pub.measured.force - publisher.sample.force) <= Epsilon
    BY DEF DriftIsBounded
  <2>1. ~ DiffersFrom(publisher.sample, pub.measured)
    BY DEF PublisherInv, Remembers
  <2>2. publisher.sample.force \in Int /\ pub.measured.force \in Int
    BY DEF PublisherInv, PublisherTyped, Remembers, Measurement
  <2> QED
    BY <2>1, <2>2, PublisherAssumption DEF DiffersFrom, Abs
<1> QED
  BY <1>1, BothHold, PTL

\* If no write is lost, the kinematic frames in Redis are between two ticks those of the
\* joint_states beside them (state_publisher.rs:88-104).
THEOREM FramesAreOfTheJoints ==
  ASSUME ~ RedisFails
  PROVE  Spec => []FramesFollowJoints
<1>1. PublisherInv => FramesFollowJoints
  BY DEF PublisherInv, Remembers, FramesFollowJoints
<1> QED
  BY <1>1, BothHold, PTL

------------------------------------------------------------------------------
(***************************************************************************)
(* The types, whether writes are lost or not.                              *)
(***************************************************************************)
PublisherPcs == {"tick", "measured", "joints", "frames"}

\* The bounds are kept by what they bound.
Bounded ==
  /\ robot.changes \in 0 .. MaxChanges /\ robot.losses \in 0 .. MaxLosses
  /\ Len(stream) <= Buffer
  /\ publisher = [pc |-> publisher.pc, sample |-> publisher.sample, joints |-> publisher.joints,
                  lastMeasured |-> publisher.lastMeasured, lastJoints |-> publisher.lastJoints]
  /\ publisher.pc \in PublisherPcs

\* At first nothing has been sent, lost or published.
LEMMA InitBounded == Init => Bounded
BY RealtimeAssumption
   DEF Init, ReaderInit, PublisherInit, Bounded, PublisherPcs

\* What is taken from a stream leaves a shorter one.
LEMMA TakenIsShorter ==
  ASSUME NEW s \in Seq(Chunks), NEW n \in Nat, n <= Len(s)
  PROVE  Len(SubSeq(s, n + 1, Len(s))) <= Len(s)
<1>1. Len(Rest(s, n)) = Len(s) - n
  BY RestFacts
<1> QED
  BY <1>1, LenProperties DEF Rest

\* Every step keeps the bounds.
LEMMA BoundedKeeps ==
  ASSUME StreamInv, Bounded, [Next]_vars
  PROVE  Bounded'
<1>0. /\ Typed /\ MaxChanges \in Nat /\ MaxLosses \in Nat /\ Buffer \in Nat \ {0}
      /\ stream \in Seq(Chunks) /\ Len(stream) \in Nat
  BY RealtimeAssumption, LenProperties DEF StreamInv, Typed
<1>1. robot = [now |-> robot.now, sending |-> robot.sending, changes |-> robot.changes,
               losses |-> robot.losses]
  BY <1>0 DEF Typed
<1>2. CASE StatePublisherNext
  <2>1. UNCHANGED <<robot, stream>>
    BY <1>2 DEF StatePublisherNext, Tick, PublishMeasured, PublishJoints, PublishFrames,
         PublisherOnly, readerVars
  <2>2. /\ publisher' = [pc |-> publisher'.pc, sample |-> publisher'.sample,
                         joints |-> publisher'.joints,
                         lastMeasured |-> publisher'.lastMeasured,
                         lastJoints |-> publisher'.lastJoints]
        /\ publisher'.pc \in PublisherPcs
    BY <1>2 DEF StatePublisherNext, Tick, PublishMeasured, PublishJoints, PublishFrames,
         AfterMeasured, Bounded, PublisherPcs
  <2> QED
    BY <2>1, <2>2 DEF Bounded
<1>3. CASE Change /\ UNCHANGED <<publisher, pub>>
  <2>1. PICK v \in Neighbours(robot.now) : robot' = [robot EXCEPT !.now = v, !.changes = @ + 1]
    BY <1>3 DEF Change
  <2>2. /\ robot'.changes = robot.changes + 1 /\ robot'.losses = robot.losses
        /\ robot.changes < MaxChanges
    BY <1>0, <1>3, <2>1 DEF Typed, Change
  <2> QED
    BY <1>0, <1>3, <2>2 DEF Bounded, Change
<1>4. CASE StartMessage /\ UNCHANGED <<publisher, pub>>
  <2>1. CASE robot' = [robot EXCEPT !.sending = Message("frame")]
    <3>1. robot'.changes = robot.changes /\ robot'.losses = robot.losses
      BY <1>1, <2>1
    <3> QED
      BY <1>4, <3>1 DEF Bounded, StartMessage
  <2>2. ASSUME NEW kind, robot.losses < MaxLosses,
               robot' = [robot EXCEPT !.sending = Message(kind), !.losses = @ + 1]
        PROVE  Bounded'
    <3>1. robot'.changes = robot.changes /\ robot'.losses = robot.losses + 1
      BY <1>1, <2>2
    <3> QED
      BY <1>0, <1>4, <2>2, <3>1 DEF Bounded, StartMessage
  <2> QED
    BY <1>4, <2>1, <2>2 DEF StartMessage
<1>5. CASE SendChunk /\ UNCHANGED <<publisher, pub>>
  <2>1. /\ robot' = [robot EXCEPT !.sending = Tail(@)] /\ Len(stream) < Buffer
        /\ robot.sending \in Seq(Chunks) /\ robot.sending # <<>>
        /\ stream' = Append(stream, Head(robot.sending))
    BY <1>0, <1>5 DEF SendChunk, Typed
  <2>2. Len(stream') = Len(stream) + 1
    BY <1>0, <2>1, HeadTailProperties, AppendProperties
  <2>3. robot'.changes = robot.changes /\ robot'.losses = robot.losses
    BY <1>0, <2>1 DEF Typed
  <2> QED
    BY <1>0, <1>5, <2>1, <2>2, <2>3 DEF Bounded
<1>6. CASE RealtimeFramesNext /\ UNCHANGED <<publisher, pub>>
  <2>1. CASE ConnectReader
    <3>1. robot'.changes = robot.changes /\ robot'.losses = robot.losses /\ stream' = <<>>
      BY <1>0, <2>1 DEF ConnectReader, Typed
    <3> QED
      BY <1>0, <1>6, <3>1 DEF Bounded
  <2>2. CASE ReadLength
    <3>1. robot' = robot /\ stream # <<>> /\ stream' = Tail(stream)
      BY <2>2 DEF ReadLength
    <3>2. Len(stream') = Len(stream) - 1
      BY <1>0, <3>1, HeadTailProperties
    <3> QED
      BY <1>0, <1>6, <3>1, <3>2 DEF Bounded
  <2>3. CASE ReadBody
    <3> DEFINE body == BodyChunks(reader.want)
    <3>1. body \in Nat
      BY BodyIsNat
    <3>2. robot' = robot /\ body <= Len(stream) /\ stream' = SubSeq(stream, body + 1, Len(stream))
      BY <2>3 DEF ReadBody, Skipped
    <3> HIDE DEF body
    <3>3. Len(stream') <= Len(stream) /\ Len(stream') \in Nat
      <4>1. Len(stream') <= Len(stream)
        BY <1>0, <3>1, <3>2, TakenIsShorter
      <4>2. stream' \in Seq(Chunks)
        BY StreamKeeps DEF StreamInv, Typed
      <4> QED
        BY <4>1, <4>2, LenProperties
    <3>4. Len(stream) <= Buffer
      BY DEF Bounded
    <3>5. Len(stream') <= Buffer
      BY <1>0, <3>3, <3>4
    <3> QED
      BY <1>6, <3>2, <3>5 DEF Bounded
  <2>4. CASE LoseStream
    <3>1. stream' = <<>> /\ Len(stream') = 0
      BY <2>4 DEF LoseStream, GivenUp
    <3>2. CASE robot' = robot
      BY <1>0, <1>6, <3>1, <3>2 DEF Bounded
    <3>3. CASE robot' = [robot EXCEPT !.losses = @ + 1] /\ robot.losses < MaxLosses
      <4>1. robot'.changes = robot.changes /\ robot'.losses = robot.losses + 1
        BY <1>1, <3>3
      <4> QED
        BY <1>0, <1>6, <3>1, <3>3, <4>1 DEF Bounded
    <3> QED
      BY <2>4, <3>2, <3>3 DEF LoseStream, ReadExpires
  <2> QED
    BY <1>6, <2>1, <2>2, <2>3, <2>4 DEF RealtimeFramesNext
<1>7. CASE UNCHANGED vars
  BY <1>7 DEF vars, Bounded
<1> QED
  BY <1>2, <1>3, <1>4, <1>5, <1>6, <1>7 DEF Next

\* Every variable of the telemetry path keeps its type, however the stream is cut and
\* whatever is lost: what is decoded from it is a measurement (realtime_reader.rs:63-65).
THEOREM TypeCorrect == Spec => []TypeOK
<1>1. StreamInv /\ Bounded => TypeOK
  <2> SUFFICES ASSUME StreamInv, Bounded PROVE TypeOK
    OBVIOUS
  <2>1. Typed /\ robot.now \in Measurements
    BY DEF StreamInv, Typed, Live, Measurements
  <2> QED
    BY <2>1 DEF TypeOK, Typed, Bounded, PublisherPcs
<1>2. StreamInv /\ Bounded /\ [Next]_vars => (StreamInv /\ Bounded)'
  BY StreamKeeps, BoundedKeeps
<1> QED
  BY StreamInit, InitBounded, <1>1, <1>2, PTL DEF Spec
=============================================================================
