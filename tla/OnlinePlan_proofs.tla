-------------------------- MODULE OnlinePlan_proofs --------------------------
(***************************************************************************)
(* For every arm, every set of requests and every table of distances, in   *)
(* plans just made and in replayed ones: the blends of a plan never        *)
(* overlap and its last move ends at rest; no joint passes its limit, and  *)
(* a straight line keeps to its branch; what is replayed was stored whole. *)
(* With a client that waits for one goal before the next, a plan is        *)
(* admitted where it starts.                                               *)
(***************************************************************************)
EXTENDS OnlinePlan, FiniteSetTheorems, SequenceTheorems, TLAPS

------------------------------------------------------------------------------
(***************************************************************************)
(* The inductive invariant.  No overlap is not inductive: a radius is      *)
(* sized from the two segments beside its own corner, so what carries over *)
(* the loop is that each radius keeps to its share of both.                *)
(***************************************************************************)
ChordAt(cs, k) == Chord[<<cs[k], cs[k + 1]>>]

Shape(cs, bs) == cs \in Seq(Configs) /\ bs \in Seq(Nat) /\ (bs # <<>> => Len(cs) > Len(bs))

KeepsToShare(cs, bs, k) ==
  bs[k] = 0 \/ (k < Len(bs) /\ bs[k] <= 4 * ChordAt(cs, k) /\ bs[k] <= 4 * ChordAt(cs, k + 1))

Sound(cs, bs) == Shape(cs, bs) /\ \A k \in 1 .. Len(bs) : KeepsToShare(cs, bs, k)

\* Where each loop stands.
Count == Len(request.waypoints)
Loops ==
  /\ pc = "check" => blends = <<>> /\ Len(configs) = 1
  /\ pc = "resolve" => blends = <<>> /\ i >= 1 /\ Len(configs) = i /\ i <= Count + 1
  /\ pc = "segment" => i >= 1 /\ i <= Count + 1 /\ Len(configs) = Count + 1 /\ Len(blends) = i - 1
  /\ pc = "corner" => i >= 1 /\ Len(blends) = Count /\ Len(configs) = Count + 1

Typed ==
  /\ request.waypoints \in Seq(PlanWaypoints)
  /\ i \in Nat
  /\ arm \in [at : Starts, moving : BOOLEAN]

\* What is being stored, and a file once it is written, are plans too; one that is torn
\* need not end at rest.
Kept(f, t) ==
  /\ t = [pc |-> t.pc, kept |-> t.kept, runs |-> t.runs]
  /\ f.state = "whole" => Sound(f.kept.configs, f.kept.blends)
  /\ t.pc = "write" => Sound(t.kept.configs, t.kept.blends)

BlendInv == Typed /\ Loops /\ Sound(configs, blends) /\ Kept(file, tool)

------------------------------------------------------------------------------
(***************************************************************************)
(* Lemmas about the radius of one corner.                                  *)
(***************************************************************************)
\* The radius of a corner keeps to the share of both chords, and is never negative.
LEMMA RadiusBound ==
  ASSUME NEW corner \in Deflections, NEW a \in Nat, NEW b \in Nat, NEW cap \in Int
  PROVE  /\ BlendRadius(corner, a, b, cap) \in Nat
         /\ BlendRadius(corner, a, b, cap) <= 4 * a
         /\ BlendRadius(corner, a, b, cap) <= 4 * b
<1> DEFINE m == Lesser(a, b)
           d == Deviation(corner, ChordShare(m))
           r == Capped(cap, d)
<1>1. m \in Nat /\ m <= a /\ m <= b
  BY DEF Lesser
<1>2. ChordShare(m) \in Nat /\ ChordShare(m) <= 4 * a /\ ChordShare(m) <= 4 * b
  <2> HIDE DEF m
  <2> QED BY <1>1 DEF ChordShare
<1>3. d \in Nat /\ d <= ChordShare(m)
  <2>1. CASE corner \in Corners
    <3>1. Budget[corner] \in Nat
      BY <2>1, PlanAssumption
    <3> HIDE DEF m
    <3> QED BY <1>2, <2>1, <3>1 DEF Deviation, Lesser
  <2>2. CASE corner \notin Corners
    <3> HIDE DEF m
    <3> QED BY <1>2, <2>2 DEF Deviation
  <2> QED BY <2>1, <2>2
<1>4. r \in Int /\ r <= d
  <2> HIDE DEF d
  <2> QED BY <1>3 DEF Capped, Lesser
<1>5. BlendRadius(corner, a, b, cap) = IF corner = "reversal" \/ r < 10 THEN 0 ELSE r
  BY DEF BlendRadius, MinUsefulBlend
<1> HIDE DEF m, d, r
<1> QED BY <1>1, <1>2, <1>3, <1>4, <1>5

\* What CornerRadius writes keeps to the share of the segments on both sides.
LEMMA CornerBound ==
  ASSUME BlendInv, pc = "corner", i <= CornerCount
  PROVE  /\ CornerRadius \in Nat
         /\ CornerRadius <= 4 * ChordAt(configs, i)
         /\ CornerRadius <= 4 * ChordAt(configs, i + 1)
<1>1. i \in Nat /\ i >= 1 /\ i + 1 <= Len(blends) /\ Len(blends) = Count
      /\ Len(configs) = Count + 1 /\ Len(blends) \in Nat
  BY DEF BlendInv, Typed, Loops, Sound, Shape, CornerCount
<1>2. configs[i] \in Configs /\ configs[i + 1] \in Configs /\ configs[i + 2] \in Configs
  <2>1. configs \in Seq(Configs) /\ i \in 1 .. Len(configs) /\ i + 1 \in 1 .. Len(configs)
        /\ i + 2 \in 1 .. Len(configs)
    BY <1>1 DEF BlendInv, Sound, Shape
  <2> QED BY <2>1
<1>3. request.waypoints[i].cap \in Int
  <2>1. request.waypoints \in Seq(PlanWaypoints) /\ i \in 1 .. Len(request.waypoints)
    BY <1>1 DEF BlendInv, Typed, Count
  <2>2. request.waypoints[i] \in PlanWaypoints
    BY <2>1
  <2> QED BY <2>2 DEF PlanWaypoints
<1>4. ChordTo(i) \in Nat /\ ChordTo(i + 1) \in Nat
  BY <1>1, <1>2, PlanAssumption DEF ChordTo
<1>5. Deflection[<<configs[i], configs[i + 1], configs[i + 2]>>] \in Deflections
  BY <1>2, PlanAssumption
<1>6. ChordTo(i) = ChordAt(configs, i) /\ ChordTo(i + 1) = ChordAt(configs, i + 1)
  BY DEF ChordTo, ChordAt
<1> DEFINE r == BlendRadius(Deflection[<<configs[i], configs[i + 1], configs[i + 2]>>],
                            ChordTo(i), ChordTo(i + 1), request.waypoints[i].cap)
<1>7. r \in Nat /\ r <= 4 * ChordTo(i) /\ r <= 4 * ChordTo(i + 1)
  BY <1>3, <1>4, <1>5, RadiusBound
<1>8. CornerRadius = IF ChordTo(i) = 0 \/ ChordTo(i + 1) = 0 THEN 0 ELSE r
  BY DEF CornerRadius
<1> HIDE DEF r
<1> QED BY <1>4, <1>6, <1>7, <1>8

\* Nearest returns configurations of the set it is given.
LEMMA ResolvedIsConfig ==
  ASSUME BlendInv, pc = "resolve", i <= Len(request.waypoints),
         NEW q \in Nearest(Reachable(request.waypoints[i]), Seed(request.waypoints[i]))
  PROVE  q \in Configs
BY PlanAssumption DEF Nearest, Reachable

------------------------------------------------------------------------------
(***************************************************************************)
(* Every step keeps the invariant.                                         *)
(***************************************************************************)
\* Nothing is planned or stored at first.
LEMMA InitBlendInv == Init => BlendInv
BY DEF Init, BlendInv, Typed, Loops, Sound, Shape, Kept, Count

\* Fail ends a loop and changes no plan.
LEMMA FailKeeps ==
  ASSUME BlendInv, NEW kind, NEW index, Fail(kind, index), UNCHANGED <<arm, file, tool>>
  PROVE  BlendInv'
BY DEF BlendInv, Fail, Typed, Loops, Sound, Shape, KeepsToShare, ChordAt, Kept, Count

\* A plan with no segments yet is sound.
LEMMA EmptyIsSound ==
  ASSUME NEW cs \in Seq(Configs)
  PROVE  Sound(cs, <<>>)
BY DEF Sound, Shape

\* A segment with no corner yet is added at the end.
LEMMA AppendIsSound ==
  ASSUME NEW cs, NEW bs, Sound(cs, bs), Len(cs) > Len(bs) + 1
  PROVE  Sound(cs, Append(bs, 0))
<1>1. bs \in Seq(Nat) /\ cs \in Seq(Configs) /\ Len(bs) \in Nat /\ Len(cs) \in Nat
  BY DEF Sound, Shape
<1>2. Append(bs, 0) \in Seq(Nat) /\ Len(Append(bs, 0)) = Len(bs) + 1
  BY <1>1
<1>3. ASSUME NEW k \in 1 .. Len(bs) + 1
      PROVE  KeepsToShare(cs, Append(bs, 0), k)
  <2>1. CASE k = Len(bs) + 1
    BY <1>1, <2>1 DEF KeepsToShare
  <2>2. CASE k # Len(bs) + 1
    <3>1. k \in 1 .. Len(bs) /\ Append(bs, 0)[k] = bs[k]
      BY <1>1, <2>2
    <3>2. KeepsToShare(cs, bs, k)
      BY <3>1 DEF Sound
    <3> QED BY <1>1, <1>2, <3>1, <3>2 DEF KeepsToShare
  <2> QED BY <2>1, <2>2
<1> QED BY <1>1, <1>2, <1>3 DEF Sound, Shape

\* The three loops of plan.rs, one step per action.
LEMMA PlanKeepsBlendInv ==
  ASSUME BlendInv, PlanStep, UNCHANGED <<arm, file, tool>>
  PROVE  BlendInv'
<1> USE DEF BlendInv
<1>0. /\ Kept(file, tool)' /\ arm' \in [at : Starts, moving : BOOLEAN]
      /\ configs \in Seq(Configs) /\ blends \in Seq(Nat)
      /\ Len(configs) \in Nat /\ Len(blends) \in Nat /\ Count \in Nat /\ i \in Nat
  BY DEF Typed, Sound, Shape, KeepsToShare, ChordAt, Kept, Count
<1>1. CASE CheckRequest
  <2>1. CASE \E kind, index : Fail(kind, index)
    BY <2>1, FailKeeps
  <2>2. CASE /\ Len(request.waypoints) \in 1 .. MaxWaypoints /\ pc' = "resolve" /\ i' = 1
             /\ UNCHANGED <<request, configs, followed, planned, blends, error>>
    <3>1. Sound(configs, blends)'
      BY <2>2 DEF Sound, Shape, KeepsToShare, ChordAt
    <3>2. Typed' /\ Loops'
      BY <1>0, <1>1, <2>2 DEF CheckRequest, Typed, Loops, Count
    <3> QED BY <1>0, <3>1, <3>2
  <2> QED BY <1>1, <2>1, <2>2 DEF CheckRequest
<1>2. CASE ResolveWaypoint
  <2>1. CASE \E kind, index : Fail(kind, index)
    BY <2>1, FailKeeps
  <2>2. ASSUME NEW q \in Nearest(Reachable(request.waypoints[i]), Seed(request.waypoints[i])),
               pc = "resolve", i <= Len(request.waypoints),
               configs' = Append(configs, q), i' = i + 1,
               UNCHANGED <<request, pc, followed, planned, blends, error>>
        PROVE  BlendInv'
    <3>1. q \in Configs
      BY <2>2, ResolvedIsConfig
    <3>2. configs' \in Seq(Configs) /\ Len(configs') = Len(configs) + 1 /\ blends' = <<>>
      BY <1>0, <2>2, <3>1 DEF Loops
    <3>3. Sound(configs', blends')
      BY <3>2, EmptyIsSound
    <3>4. Typed' /\ Loops'
      BY <1>0, <2>2, <3>2 DEF Typed, Loops, Count
    <3> QED BY <1>0, <3>3, <3>4 DEF Sound, Shape, KeepsToShare, ChordAt
  <2> QED BY <1>2, <2>1, <2>2 DEF ResolveWaypoint
<1>3. CASE StartSegments
  <2>1. Sound(configs, blends)'
    BY <1>3 DEF StartSegments, Sound, Shape, KeepsToShare, ChordAt
  <2>2. Typed' /\ Loops'
    BY <1>0, <1>3 DEF StartSegments, Typed, Loops, Count
  <2> QED BY <1>0, <2>1, <2>2
<1>4. CASE PlanSegment
  <2>1. CASE \E kind, index : Fail(kind, index)
    BY <2>1, FailKeeps
  <2>2. CASE /\ pc = "segment" /\ i <= Len(request.waypoints)
             /\ blends' = Append(blends, 0) /\ i' = i + 1
             /\ UNCHANGED <<request, pc, configs, error>>
    <3>1. Len(configs) > Len(blends) + 1
      BY <1>0, <2>2 DEF Loops, Count
    <3>2. Sound(configs', blends')
      BY <2>2, <3>1, AppendIsSound
    <3>3. Len(blends') = Len(blends) + 1
      BY <1>0, <2>2
    <3>4. Typed' /\ Loops'
      BY <1>0, <2>2, <3>3 DEF Typed, Loops, Count
    <3> QED BY <1>0, <3>2, <3>4 DEF Sound, Shape, KeepsToShare, ChordAt
  <2> QED BY <1>4, <2>1, <2>2 DEF PlanSegment, InSegment
<1>8. CASE FollowLine
  <2>1. CASE \E kind, index : Fail(kind, index)
    BY <2>1, FailKeeps
  <2>2. CASE UNCHANGED <<request, pc, i, configs, planned, blends, error>>
    <3>1. Sound(configs, blends)'
      BY <2>2 DEF Sound, Shape, KeepsToShare, ChordAt
    <3>2. Typed' /\ Loops'
      BY <1>0, <2>2 DEF Typed, Loops, Count
    <3> QED BY <1>0, <3>1, <3>2
  <2> QED BY <1>8, <2>1, <2>2 DEF FollowLine
<1>5. CASE StartCorners
  <2>1. Sound(configs, blends)'
    BY <1>5 DEF StartCorners, Sound, Shape, KeepsToShare, ChordAt
  <2>2. Typed' /\ Loops'
    BY <1>0, <1>5 DEF StartCorners, Typed, Loops, Count
  <2> QED BY <1>0, <2>1, <2>2
<1>6. CASE BlendCorner
  <2>1. pc = "corner" /\ i <= CornerCount /\ blends' = [blends EXCEPT ![i] = CornerRadius]
        /\ i' = i + 1 /\ configs' = configs /\ pc' = pc /\ request' = request
    BY <1>6 DEF BlendCorner, Blended
  <2>2. /\ CornerRadius \in Nat
        /\ CornerRadius <= 4 * ChordAt(configs, i)
        /\ CornerRadius <= 4 * ChordAt(configs, i + 1)
    BY <2>1, CornerBound
  <2>3. i \in 1 .. Len(blends) /\ i < Len(blends)
    BY <1>0, <2>1 DEF Loops, CornerCount
  <2>4. blends' \in Seq(Nat) /\ Len(blends') = Len(blends) /\ blends'[i] = CornerRadius
        /\ \A k \in 1 .. Len(blends) : k # i => blends'[k] = blends[k]
    BY <1>0, <2>1, <2>2, <2>3
  <2>5. Shape(configs, blends')
    BY <1>0, <2>3, <2>4 DEF Sound, Shape
  <2>6. ASSUME NEW k \in 1 .. Len(blends')
        PROVE  KeepsToShare(configs, blends', k)
    <3>1. CASE k = i
      BY <2>2, <2>3, <2>4, <3>1 DEF KeepsToShare
    <3>2. CASE k # i
      <4>1. KeepsToShare(configs, blends, k) /\ blends'[k] = blends[k]
        BY <2>4, <3>2 DEF Sound
      <4> QED BY <2>4, <4>1 DEF KeepsToShare
    <3> QED BY <3>1, <3>2
  <2>7. Sound(configs', blends')
    BY <2>1, <2>5, <2>6 DEF Sound
  <2>8. Typed' /\ Loops'
    BY <1>0, <2>1, <2>4 DEF Typed, Loops, Count
  <2> QED BY <1>0, <2>7, <2>8 DEF Sound, Shape, KeepsToShare, ChordAt
<1>7. CASE FinishPlan
  <2>1. Sound(configs, blends)'
    BY <1>7 DEF FinishPlan, Sound, Shape, KeepsToShare, ChordAt
  <2>2. Typed' /\ Loops'
    BY <1>0, <1>7 DEF FinishPlan, Typed, Loops, Count
  <2> QED BY <1>0, <2>1, <2>2
<1> QED BY <1>1, <1>2, <1>3, <1>4, <1>5, <1>6, <1>7, <1>8 DEF PlanStep

\* A plan that begins has no segments, wherever it starts.
LEMMA BeginKeeps ==
  ASSUME BlendInv, NEW who, NEW requests, NEW start \in Configs, Begin(who, requests, start),
         requests \subseteq Seq(PlanWaypoints), UNCHANGED arm, Kept(file', tool')
  PROVE  BlendInv'
<1>1. configs' = <<start>> /\ blends' = <<>> /\ pc' = "check" /\ i' = 0
      /\ request'.waypoints \in Seq(PlanWaypoints)
  BY DEF Begin
<1>2. <<start>> \in Seq(Configs) /\ Len(<<start>>) = 1
  OBVIOUS
<1>3. Sound(configs', blends')
  BY <1>1, <1>2, EmptyIsSound
<1>4. Typed' /\ Loops'
  BY <1>1, <1>2 DEF BlendInv, Typed, Loops
<1> QED BY <1>3, <1>4 DEF BlendInv, Sound, Shape, KeepsToShare, ChordAt, Kept

\* Nor has one that is dropped.
LEMMA DropKeeps ==
  ASSUME BlendInv, DropPlan, arm' \in [at : Starts, moving : BOOLEAN], Kept(file', tool')
  PROVE  BlendInv'
<1>1. configs' = <<>> /\ blends' = <<>> /\ pc' = "idle" /\ i' = 0 /\ request'.waypoints = <<>>
  BY DEF DropPlan
<1>2. Sound(configs', blends')
  <2>1. <<>> \in Seq(Configs)
    OBVIOUS
  <2> QED BY <1>1, <2>1, EmptyIsSound
<1>3. Typed' /\ Loops'
  BY <1>1 DEF BlendInv, Typed, Loops
<1> QED BY <1>2, <1>3 DEF BlendInv, Sound, Shape, KeepsToShare, ChordAt, Kept

\* A step of the planner, of a client, of plan_trajectory or of the arm.
LEMMA NextBlendInv == BlendInv /\ [Next]_vars => BlendInv'
<1> SUFFICES ASSUME BlendInv, [Next]_vars PROVE BlendInv'
  OBVIOUS
<1>0. Typed /\ Loops /\ Sound(configs, blends) /\ Kept(file, tool)
  BY DEF BlendInv
<1>1. CASE PlanStep /\ UNCHANGED outside
  BY <1>1, PlanKeepsBlendInv DEF outside
<1>2. CASE Refused
  BY <1>0, <1>2, DropKeeps DEF Refused, Typed
<1>3. CASE Move
  BY <1>3
     DEF BlendInv, Move, planVars, Typed, Loops, Sound, Shape, KeepsToShare, ChordAt, Kept, Count
<1>4. CASE PlanHere
  <2>1. arm.at \in Configs
    BY <1>0, OnlineAssumption DEF Typed
  <2> QED BY <1>0, <1>4, <2>1, BeginKeeps, OnlineAssumption DEF PlanHere
<1>5. CASE Replay
  <2>1. UNCHANGED <<arm, file, tool, request, i>> /\ pc' \in {"planned", "failed"}
    BY <1>5 DEF Replay
  <2>2. Typed' /\ Loops'
    BY <1>0, <2>1 DEF Typed, Loops
  <2>3. \/ Sound(file.kept.configs, file.kept.blends)
           /\ configs' = file.kept.configs /\ blends' = file.kept.blends
        \/ configs' = configs /\ blends' = blends
    BY <1>0, <1>5 DEF Replay, Loads, Kept
  <2>4. Sound(configs, blends)'
    BY <1>0, <2>3 DEF Sound, Shape, KeepsToShare, ChordAt
  <2>5. Kept(file, tool)'
    BY <1>0, <2>1 DEF Kept, Sound, Shape, KeepsToShare, ChordAt
  <2> QED BY <2>2, <2>4, <2>5 DEF BlendInv
<1>6. CASE Admit
  BY <1>6 DEF BlendInv, Admit, outside, Typed, Loops, Sound, Shape, KeepsToShare, ChordAt, Kept
<1>7. CASE RunGoal
  BY <1>0, <1>7, DropKeeps DEF RunGoal
<1>8. CASE ToolPlan
  <2>1. Kept(file', tool')
    BY <1>0, <1>8 DEF ToolPlan, Kept
  <2> QED BY <1>8, <2>1, BeginKeeps, OnlineAssumption DEF ToolPlan
<1>9. CASE OpenFile
  <2>1. Kept(file', tool')
    <3>1. file'.state = "torn"
      BY <1>9 DEF OpenFile
    <3>2. tool' = [pc |-> "write", kept |-> Trajectory, runs |-> tool.runs]
      BY <1>0, <1>9 DEF OpenFile, Kept
    <3>3. tool'.kept.configs = configs /\ tool'.kept.blends = blends
      BY <3>2 DEF Trajectory
    <3> QED BY <1>0, <3>1, <3>2, <3>3 DEF Kept
  <2> QED BY <1>0, <1>9, <2>1, DropKeeps DEF OpenFile, Typed
<1>10. CASE NotStored
  BY <1>0, <1>10, DropKeeps DEF NotStored, Typed
<1>11. CASE WriteFile \/ WriteFails
  <2>1. Kept(file', tool')
    <3>1. tool' = [pc |-> "idle", kept |-> NoTrajectory, runs |-> tool.runs]
      BY <1>0, <1>11 DEF WriteFile, WriteFails, Kept
    <3>2. file' = file \/ (tool.pc = "write" /\ file'.kept = tool.kept)
      BY <1>11 DEF WriteFile, WriteFails
    <3> QED BY <1>0, <3>1, <3>2 DEF Kept
  <2>2. UNCHANGED <<planVars, arm>>
    BY <1>11 DEF WriteFile, WriteFails
  <2> QED BY <1>0, <2>1, <2>2
          DEF BlendInv, planVars, Typed, Loops, Sound, Shape, KeepsToShare, ChordAt, Kept, Count
<1>12. CASE UNCHANGED vars
  BY <1>12
     DEF BlendInv, vars, planVars, Typed, Loops, Sound, Shape, KeepsToShare, ChordAt, Kept, Count
<1> QED BY <1>1, <1>2, <1>3, <1>4, <1>5, <1>6, <1>7, <1>8, <1>9, <1>10, <1>11, <1>12 DEF Next

\* The two radii on a segment take at most four fifths of it together.
LEMMA SharesDoNotOverlap == BlendInv => BlendsDoNotOverlap
<1> SUFFICES ASSUME BlendInv, NEW k \in 1 .. Len(blends) - 1
             PROVE  blends[k] + blends[k + 1] <= 10 * Chord[<<configs[k + 1], configs[k + 2]>>]
  BY DEF BlendsDoNotOverlap
<1>1. /\ configs \in Seq(Configs) /\ blends \in Seq(Nat) /\ Len(blends) \in Nat
      /\ Len(configs) \in Nat /\ Len(configs) > Len(blends)
  BY DEF BlendInv, Sound, Shape
<1>2. k \in 1 .. Len(blends) /\ k + 1 \in 1 .. Len(blends)
      /\ k + 1 \in 1 .. Len(configs) /\ k + 2 \in 1 .. Len(configs)
  BY <1>1
<1>3. ChordAt(configs, k + 1) \in Nat
  BY <1>1, <1>2, PlanAssumption DEF ChordAt
<1>4. blends[k] \in Nat /\ blends[k + 1] \in Nat
  BY <1>1, <1>2
<1>5. KeepsToShare(configs, blends, k) /\ KeepsToShare(configs, blends, k + 1)
  BY <1>2 DEF BlendInv, Sound
<1>6. blends[k] <= 4 * ChordAt(configs, k + 1) /\ blends[k + 1] <= 4 * ChordAt(configs, k + 1)
  BY <1>3, <1>4, <1>5 DEF KeepsToShare
<1>7. ChordAt(configs, k + 1) = Chord[<<configs[k + 1], configs[k + 2]>>]
  BY <1>2 DEF ChordAt
<1> QED BY <1>3, <1>4, <1>6, <1>7

\* Past the last waypoint there is no segment a radius could share.
LEMMA LastIsSharp == BlendInv => EndsAtRest
<1> SUFFICES ASSUME BlendInv, blends # <<>> PROVE blends[Len(blends)] = 0
  BY DEF EndsAtRest
<1>1. Len(blends) \in 1 .. Len(blends) /\ Len(blends) \in Nat
  BY DEF BlendInv, Sound, Shape
<1>2. KeepsToShare(configs, blends, Len(blends))
  BY <1>1 DEF BlendInv, Sound
<1> QED BY <1>1, <1>2 DEF KeepsToShare

------------------------------------------------------------------------------
(***************************************************************************)
(* Theorems about the blends.                                              *)
(***************************************************************************)
\* The blends at the two ends of a segment never overlap on it, in a fresh plan and in a
\* replayed one (path.rs:29-36, 155-171).
THEOREM BlendsNeverOverlap == Spec => []BlendsDoNotOverlap
<1>1. Init => BlendInv
  BY InitBlendInv
<1>2. BlendInv /\ [Next]_vars => BlendInv'
  BY NextBlendInv
<1>3. BlendInv => BlendsDoNotOverlap
  BY SharesDoNotOverlap
<1> QED BY <1>1, <1>2, <1>3, PTL DEF Spec

\* Every plan ends at rest (plan.rs:290-294).
THEOREM EveryPlanEndsAtRest == Spec => []EndsAtRest
<1>1. Init => BlendInv
  BY InitBlendInv
<1>2. BlendInv /\ [Next]_vars => BlendInv'
  BY NextBlendInv
<1>3. BlendInv => EndsAtRest
  BY LastIsSharp
<1> QED BY <1>1, <1>2, <1>3, PTL DEF Spec

------------------------------------------------------------------------------
(***************************************************************************)
(* Where a plan starts.                                                    *)
(***************************************************************************)
\* From the moment a request reads the joints until admission, nothing moves the arm of a
\* client that waited.
Busy == {"check", "resolve", "segment", "corner", "planned", "admitted"}
StartInv ==
  /\ pc \in Busy /\ origin # "tool" => ~ arm.moving /\ arm.at = configs[1]
  /\ pc = "admitted" => origin # "tool"

\* Every loop works on the tail of the plan and leaves its start alone.
LEMMA PlanKeepsStart ==
  ASSUME BlendInv, StartInv, PlanStep, arm' = arm, origin' = origin
  PROVE  StartInv'
<1>0. configs \in Seq(Configs) /\ Len(configs) \in Nat
  BY DEF BlendInv, Sound, Shape
<1>1. CASE ResolveWaypoint
  <2>1. CASE \E kind, index : Fail(kind, index)
    BY <2>1 DEF Fail, StartInv, Busy
  <2>2. ASSUME NEW q \in Nearest(Reachable(request.waypoints[i]), Seed(request.waypoints[i])),
               pc = "resolve", pc' = pc, i <= Len(request.waypoints),
               configs' = Append(configs, q)
        PROVE  StartInv'
    <3>1. q \in Configs
      BY <2>2, ResolvedIsConfig
    <3>2. Len(configs) >= 1 /\ (origin # "tool" => arm.at = configs[1] /\ ~ arm.moving)
          /\ pc' # "admitted"
      BY <2>2 DEF BlendInv, Loops, StartInv, Busy
    <3>3. Len(configs') = Len(configs) + 1 /\ configs'[1] = configs[1]
      BY <1>0, <2>2, <3>1, <3>2
    <3> QED BY <1>0, <3>2, <3>3 DEF StartInv
  <2> QED BY <1>1, <2>1, <2>2 DEF ResolveWaypoint
<1>2. CASE \/ CheckRequest \/ StartSegments \/ FollowLine \/ PlanSegment
            \/ StartCorners \/ BlendCorner \/ FinishPlan
  BY <1>2 DEF CheckRequest, StartSegments, FollowLine, InSegment, PlanSegment, StartCorners,
              BlendCorner, FinishPlan, Fail, StartInv, Busy
<1> QED BY <1>1, <1>2 DEF PlanStep

\* A request begins where the arm is, or where the arm was found to be.
LEMMA NextStartInv ==
  ASSUME Patient PROVE BlendInv /\ StartInv /\ [Next]_vars => StartInv'
<1> SUFFICES ASSUME BlendInv, StartInv, [Next]_vars PROVE StartInv'
  OBVIOUS
<1>1. CASE PlanStep /\ UNCHANGED outside
  BY <1>1, PlanKeepsStart DEF outside
<1>2. CASE Move
  BY <1>2 DEF Move, planVars, StartInv
<1>3. CASE PlanHere
  BY <1>3 DEF PlanHere, Begin, MayAsk, StartInv
<1>4. CASE Replay
  BY <1>4 DEF Replay, MayAsk, StartMatches, StartInv, Busy
<1>5. CASE Admit
  BY <1>5 DEF Admit, outside, StartInv, Busy
<1>6. CASE Refused \/ RunGoal \/ OpenFile \/ NotStored
  BY <1>6 DEF Refused, RunGoal, OpenFile, NotStored, DropPlan, StartInv, Busy
<1>7. CASE ToolPlan
  BY <1>7 DEF ToolPlan, Begin, StartInv
<1>8. CASE WriteFile \/ WriteFails \/ UNCHANGED vars
  BY <1>8 DEF WriteFile, WriteFails, vars, planVars, StartInv
<1> QED BY <1>1, <1>2, <1>3, <1>4, <1>5, <1>6, <1>7, <1>8 DEF Next

\* With a client that waits for one goal before it asks for the next, what is admitted
\* starts where the arm is (online.rs:62-65, 74-77).
THEOREM PatientStartsWhereItIs ==
  ASSUME Patient PROVE Spec => []AdmittedAtItsStart
<1>1. Init => BlendInv /\ StartInv
  BY InitBlendInv DEF Init, StartInv, Busy
<1>2. BlendInv /\ StartInv /\ [Next]_vars => (BlendInv /\ StartInv)'
  BY NextBlendInv, NextStartInv
<1>3. StartInv => AdmittedAtItsStart
  BY DEF StartInv, AdmittedAtItsStart, Busy
<1> QED BY <1>1, <1>2, <1>3, PTL DEF Spec

------------------------------------------------------------------------------
(***************************************************************************)
(* What is replayed.                                                       *)
(***************************************************************************)
\* A whole file holds a stored trajectory, with nothing beside its three fields, and from
\* there a replayed plan goes through none of the loops.
IsTrajectory(t) == t = [configs |-> t.configs, planned |-> t.planned, blends |-> t.blends]
StoredInv ==
  /\ file.state = "whole" => file.kept \in saved /\ IsTrajectory(file.kept)
  /\ tool = [pc |-> tool.pc, kept |-> tool.kept, runs |-> tool.runs] /\ IsTrajectory(tool.kept)
  /\ origin = "file" => pc \in {"planned", "admitted", "failed"}
  /\ origin = "file" /\ pc # "failed" => Trajectory \in saved

\* The tool, and any step that drops the plan there was.
LEMMA NextStoredInv == StoredInv /\ [Next]_vars => StoredInv'
<1> SUFFICES ASSUME StoredInv, [Next]_vars PROVE StoredInv'
  OBVIOUS
<1>1. CASE PlanStep /\ UNCHANGED outside
  <2>1. origin # "file"
    BY <1>1 DEF PlanStep, CheckRequest, ResolveWaypoint, StartSegments, FollowLine, InSegment,
                PlanSegment, StartCorners, BlendCorner, FinishPlan, StoredInv
  <2> QED BY <1>1, <2>1 DEF outside, StoredInv, IsTrajectory
<1>2. CASE Refused \/ RunGoal \/ NotStored
  BY <1>2 DEF Refused, RunGoal, NotStored, DropPlan, StoredInv, IsTrajectory
<1>3. CASE Move \/ UNCHANGED vars
  BY <1>3 DEF Move, vars, planVars, StoredInv, IsTrajectory, Trajectory
<1>4. CASE PlanHere
  BY <1>4 DEF PlanHere, Begin, StoredInv, IsTrajectory
<1>5. CASE Replay
  <2>1. UNCHANGED <<file, tool, saved>> /\ origin' = "file" /\ pc' \in {"planned", "failed"}
    BY <1>5 DEF Replay
  <2>2. CASE pc' = "planned"
    <3>1. file.state = "whole" /\ configs' = file.kept.configs /\ planned' = file.kept.planned
          /\ blends' = file.kept.blends
      BY <1>5, <2>2 DEF Replay, Loads
    <3>2. Trajectory' = file.kept
      BY <3>1 DEF StoredInv, IsTrajectory, Trajectory
    <3> QED BY <2>1, <2>2, <3>1, <3>2 DEF StoredInv, IsTrajectory
  <2> QED BY <2>1, <2>2 DEF StoredInv, IsTrajectory
<1>6. CASE Admit
  BY <1>6 DEF Admit, outside, StoredInv, IsTrajectory, Trajectory
<1>7. CASE ToolPlan
  BY <1>7 DEF ToolPlan, Begin, StoredInv, IsTrajectory
<1>8. CASE OpenFile
  <2>1. tool' = [pc |-> "write", kept |-> Trajectory, runs |-> tool.runs]
    BY <1>8 DEF OpenFile, StoredInv
  <2>2. IsTrajectory(tool'.kept)
    BY <2>1 DEF IsTrajectory, Trajectory
  <2>3. file'.state = "torn" /\ origin' = "client"
    BY <1>8 DEF OpenFile, DropPlan
  <2> QED BY <2>1, <2>2, <2>3 DEF StoredInv
<1>9. CASE WriteFile \/ WriteFails
  <2>1. tool' = [pc |-> "idle", kept |-> NoTrajectory, runs |-> tool.runs]
    BY <1>9 DEF WriteFile, WriteFails, StoredInv
  <2>2. IsTrajectory(tool'.kept)
    BY <2>1 DEF IsTrajectory, NoTrajectory
  <2>3. \/ file' = file /\ saved' = saved
        \/ file'.kept = tool.kept /\ saved' = saved \union {tool.kept}
    BY <1>9 DEF WriteFile, WriteFails
  <2>4. file'.state = "whole" => file'.kept \in saved' /\ IsTrajectory(file'.kept)
    BY <2>3 DEF StoredInv
  <2>5. UNCHANGED <<origin, pc, configs, planned, blends>> /\ saved \subseteq saved'
    BY <1>9, <2>3 DEF WriteFile, WriteFails, planVars
  <2> QED BY <2>1, <2>2, <2>4, <2>5 DEF StoredInv, Trajectory
<1> QED BY <1>1, <1>2, <1>3, <1>4, <1>5, <1>6, <1>7, <1>8, <1>9 DEF Next

\* What is run by name was stored whole, however the tool's writes fall among the
\* driver's reads and wherever it dies (online.rs:45-48, store.rs:102).
THEOREM ReplaysWhatWasStored == Spec => []ReplayedAsStored
<1>1. Init => StoredInv
  BY DEF Init, StoredInv, IsTrajectory, NoTrajectory
<1>2. StoredInv /\ [Next]_vars => StoredInv'
  BY NextStoredInv
<1>3. StoredInv => ReplayedAsStored
  BY DEF StoredInv, ReplayedAsStored
<1> QED BY <1>1, <1>2, <1>3, PTL DEF Spec

------------------------------------------------------------------------------
(***************************************************************************)
(* Least and largest.  timing.rs and kinematics.rs fold over the joints;   *)
(* the model chooses the element the fold ends with, so it has to exist.   *)
(* Induction on finite sets, as the absence of a least counterexample.     *)
(***************************************************************************)
\* A finite set that is not empty has a first element in every total preorder: a least
\* subset without one would have one as soon as an element is taken out.
LEMMA FiniteHasFirst ==
  ASSUME NEW S, IsFiniteSet(S), S # {}, NEW R,
         \A x, y \in S : <<x, y>> \in R \/ <<y, x>> \in R,
         \A x, y, z \in S : <<x, y>> \in R /\ <<y, z>> \in R => <<x, z>> \in R
  PROVE  \E m \in S : \A x \in S : <<m, x>> \in R
<1> DEFINE HasFirst(T) == \E m \in T : \A x \in T : <<m, x>> \in R
           Bad == {T \in SUBSET S : T # {} /\ ~ HasFirst(T)}
           Below == StrictSubsetOrdering(S)
<1>1. SUFFICES ASSUME Bad # {} PROVE FALSE
  OBVIOUS
<1>2. IsWellFoundedOn(Below, SUBSET S)
  BY FS_StrictSubsetOrderingWellFounded, FS_FiniteSubsetsOfFinite
<1>3. PICK T \in Bad : \A U \in Bad : ~ (<<U, T>> \in Below)
  <2>1. Bad \subseteq SUBSET S
    OBVIOUS
  <2> HIDE DEF Bad, Below
  <2>2. \E T \in Bad : \A U \in Bad : ~ (<<U, T>> \in Below)
    BY ONLY <1>1, <1>2, <2>1, WFMin
  <2> QED
    BY <2>2
<1>4. PICK x \in T : TRUE
  OBVIOUS
<1>5. T \ {x} \notin Bad
  <2>1. T \ {x} \in SUBSET S /\ T \in SUBSET S /\ T \ {x} \subseteq T /\ T \ {x} # T
    BY <1>4
  <2>2. <<T \ {x}, T>> \in Below
    <3> DEFINE U == T \ {x}
    <3>1. U \in SUBSET S /\ T \in SUBSET S /\ U \subseteq T /\ U # T
      BY <2>1
    <3> HIDE DEF U
    <3>2. <<U, T>> \in Below
      BY <3>1 DEF StrictSubsetOrdering
    <3> QED
      BY <3>2 DEF U
  <2> HIDE DEF Bad, Below
  <2> QED
    BY <1>3, <2>2
<1>6. CASE T = {x}
  BY <1>6
<1>7. CASE T # {x}
  <2>1. HasFirst(T \ {x})
    <3> DEFINE U == T \ {x}
    <3>1. U # {} /\ U \in SUBSET S
      BY <1>4, <1>7
    <3>2. U \notin Bad
      BY <1>5
    <3> HIDE DEF U
    <3>3. HasFirst(U)
      BY <3>1, <3>2
    <3> QED
      BY <3>3 DEF U
  <2>2. PICK y \in T \ {x} : \A z \in T \ {x} : <<y, z>> \in R
    BY <2>1
  <2>3. T \subseteq S /\ <<x, x>> \in R
    BY <1>4
  <2>4. CASE <<x, y>> \in R
    <3>1. \A z \in T : <<x, z>> \in R
      BY <1>4, <2>2, <2>3, <2>4
    <3> QED
      BY <1>4, <3>1
  <2>5. CASE <<y, x>> \in R
    <3>1. \A z \in T : <<y, z>> \in R
      BY <2>2, <2>5
    <3> QED
      BY <2>2, <3>1
  <2> QED
    BY <1>4, <2>2, <2>3, <2>4, <2>5
<1> QED
  BY <1>6, <1>7

\* Arithmetic of fractions: products keep the order, ...
LEMMA TimesKeepsOrder ==
  ASSUME NEW a \in Nat, NEW b \in Nat, NEW c \in Nat, a <= b
  PROVE  a * c <= b * c /\ c * a <= c * b
OBVIOUS

\* ... a common factor cancels, ...
LEMMA TimesCancels ==
  ASSUME NEW a \in Nat, NEW b \in Nat, NEW c \in Nat \ {0}, a * c <= b * c
  PROVE  a <= b
OBVIOUS

\* ... and comparing a/b and c/d by a * d <= c * b is transitive.
LEMMA FractionsCompose ==
  ASSUME NEW a \in Nat, NEW b \in Nat \ {0}, NEW c \in Nat, NEW d \in Nat \ {0},
         NEW e \in Nat, NEW f \in Nat \ {0}, a * d <= c * b, c * f <= e * d
  PROVE  a * f <= e * b
<1>1. (a * d) * f <= (c * b) * f
  BY TimesKeepsOrder
<1>2. (c * f) * b <= (e * d) * b
  BY TimesKeepsOrder
<1>3. (a * d) * f = (a * f) * d /\ (c * b) * f = (c * f) * b /\ (e * d) * b = (e * b) * d
  OBVIOUS
<1>4. (a * f) * d <= (e * b) * d
  BY <1>1, <1>2, <1>3
<1> QED
  BY <1>4, TimesCancels

\* The joints are finitely many, and there is one.
LEMMA JointsAreFinite == IsFiniteSet(J) /\ 1 \in J
<1>1. NJoints \in Int /\ NJoints >= 1
  BY PlanAssumption
<1>2. IsFiniteSet(1 .. NJoints)
  BY <1>1, FS_Interval
<1> QED
  BY <1>1, <1>2 DEF J

\* The largest of the joints' values is one of them, and no other is larger.
LEMMA LargestOfJoints ==
  ASSUME NEW v \in [J -> Int]
  PROVE  /\ Largest({v[j] : j \in J}) \in {v[j] : j \in J}
         /\ \A j \in J : v[j] <= Largest({v[k] : k \in J})
<1> DEFINE R == {p \in J \X J : v[p[2]] <= v[p[1]]}
           S == {v[j] : j \in J}
<1>1. \A j, k \in J : <<j, k>> \in R <=> v[k] <= v[j]
  OBVIOUS
<1>2. \A j \in J : v[j] \in Int
  OBVIOUS
<1>3. PICK m \in J : \A j \in J : <<m, j>> \in R
  <2> HIDE DEF R
  <2>1. ASSUME NEW x \in J, NEW y \in J PROVE <<x, y>> \in R \/ <<y, x>> \in R
    <3>1. v[x] \in Int /\ v[y] \in Int
      BY <1>2
    <3>2. v[x] <= v[y] \/ v[y] <= v[x]
      BY <3>1
    <3> QED
      BY <1>1, <3>2
  <2>2. \A x, y, z \in J : <<x, y>> \in R /\ <<y, z>> \in R => <<x, z>> \in R
    BY <1>1, <1>2
  <2>3. J # {}
    BY JointsAreFinite
  <2>4. \E m \in J : \A x \in J : <<m, x>> \in R
    BY ONLY <2>1, <2>2, <2>3, JointsAreFinite, FiniteHasFirst
  <2> QED
    BY <2>4
<1>4. v[m] \in S /\ \A n \in S : n <= v[m]
  <2> HIDE DEF R
  <2> QED
    BY <1>1, <1>3
<1>5. Largest(S) \in S /\ \A n \in S : n <= Largest(S)
  <2> HIDE DEF S
  <2> QED
    BY <1>4 DEF Largest
<1> QED
  BY <1>5

\* A configuration at no distance is the same one.
LEMMA NoDistanceIsSame ==
  ASSUME NEW a \in Configs, NEW b \in Configs
  PROVE  /\ Distance(a, b) \in Int
         /\ Distance(a, a) = 0
         /\ Distance(b, a) <= 0 => b = a
<1>1. \A c, d \in Configs : \A j \in J :
        c[j] \in Int /\ Weight[j] \in Nat \ {0} /\ Abs(c[j] - d[j]) \in Nat
  BY PlanAssumption DEF Abs
<1>2. ASSUME NEW c \in Configs, NEW d \in Configs
      PROVE  /\ Distance(c, d) \in {Weight[j] * Abs(c[j] - d[j]) : j \in J}
             /\ \A j \in J : Weight[j] * Abs(c[j] - d[j]) <= Distance(c, d)
  <2> DEFINE v == [j \in J |-> Weight[j] * Abs(c[j] - d[j])]
  <2>1. v \in [J -> Int]
    BY <1>1
  <2>2. {v[j] : j \in J} = {Weight[j] * Abs(c[j] - d[j]) : j \in J}
    OBVIOUS
  <2>3. /\ Largest({v[j] : j \in J}) \in {v[j] : j \in J}
        /\ \A j \in J : v[j] <= Largest({v[k] : k \in J})
    <3> HIDE DEF v
    <3> QED
      BY <2>1, LargestOfJoints
  <2> QED
    BY <2>2, <2>3 DEF Distance
<1>3. Distance(a, b) \in Int
  <2>1. PICK j \in J : Distance(a, b) = Weight[j] * Abs(a[j] - b[j])
    BY <1>2
  <2> QED
    BY <1>1, <2>1
<1>4. Distance(a, a) = 0
  <2>1. PICK j \in J : Distance(a, a) = Weight[j] * Abs(a[j] - a[j])
    BY <1>2
  <2>2. a[j] - a[j] = 0
    BY <1>1
  <2> QED
    BY <1>1, <2>1, <2>2 DEF Abs
<1>5. ASSUME Distance(b, a) <= 0 PROVE b = a
  <2>1. ASSUME NEW j \in J PROVE b[j] = a[j]
    <3>1. Weight[j] * Abs(b[j] - a[j]) <= 0
      <4>1. Weight[j] * Abs(b[j] - a[j]) <= Distance(b, a)
        BY <1>2
      <4>2. Weight[j] * Abs(b[j] - a[j]) \in Int
        BY <1>1
      <4>3. Distance(b, a) \in Int
        <5>1. PICK k \in J : Distance(b, a) = Weight[k] * Abs(b[k] - a[k])
          BY <1>2
        <5> QED
          BY <1>1, <5>1
      <4> QED
        BY <1>5, <4>1, <4>2, <4>3
    <3>2. Abs(b[j] - a[j]) = 0
      BY <1>1, <3>1
    <3> QED
      BY <1>1, <3>2 DEF Abs
  <2>2. a \in [J -> Int] /\ b \in [J -> Int]
    BY PlanAssumption
  <2> QED
    BY <2>1, <2>2
<1> QED
  BY <1>3, <1>4, <1>5

\* A percentage outside (0, 100] is no scaling at all: no limit is raised, and none is zero.
LEMMA LimitIsScaled ==
  ASSUME request.scaling \in Int, NEW j \in J
  PROVE  Limit(j) \in Nat \ {0} /\ Limit(j) <= 100 * VelocityMax[j]
<1>1. ClampScale(request.scaling) \in 1 .. 100
  BY DEF ClampScale
<1>2. VelocityMax[j] \in Nat \ {0}
  BY PlanAssumption
<1> DEFINE c == ClampScale(request.scaling)
           m == VelocityMax[j]
<1>3. c \in Nat /\ c >= 1 /\ c <= 100 /\ m \in Nat /\ m >= 1
  BY <1>1, <1>2
<1>4. Limit(j) = m * c
  BY DEF Limit
<1> HIDE DEF c, m
<1>5. m * c <= 100 * m
  <2>1. m * c <= m * 100
    BY ONLY <1>3, TimesKeepsOrder
  <2> QED
    BY <1>3, <2>1
<1>6. m * c \in Nat /\ m * c # 0
  BY <1>3
<1>7. VelocityMax[j] = m
  BY DEF m
<1> QED
  BY <1>4, <1>5, <1>6, <1>7

\* A joint that meets its limit no later than any other sets the leading axis: the
\* fraction Limit(j) / d[j] has a least value, and a first joint that has it.
LEMMA LimitingMeetsItsLimitFirst ==
  ASSUME request.scaling \in Int, NEW d \in [J -> Nat], Moving(d) # {}
  PROVE  /\ Limiting(d) \in Moving(d)
         /\ \A k \in Moving(d) : Limit(Limiting(d)) * d[k] <= Limit(k) * d[Limiting(d)]
<1> DEFINE M == Moving(d)
           AtMost(j, k) == Limit(j) * d[k] <= Limit(k) * d[j]
           First(j, k) == AtMost(j, k) /\ (AtMost(k, j) => j <= k)
           R == {p \in M \X M : First(p[1], p[2])}
<1>1. \A j \in M : Limit(j) \in Nat \ {0} /\ d[j] \in Nat \ {0} /\ j \in Int /\ j \in J
  BY LimitIsScaled DEF Moving, J
<1>2. \A j, k \in M : <<j, k>> \in R <=> First(j, k)
  OBVIOUS
<1>3. ASSUME NEW x \in M, NEW y \in M PROVE AtMost(x, y) \/ AtMost(y, x)
  <2>1. Limit(x) * d[y] \in Nat /\ Limit(y) * d[x] \in Nat
    BY <1>1
  <2> QED
    BY <2>1
<1>4. ASSUME NEW x \in M, NEW y \in M, NEW z \in M, AtMost(x, y), AtMost(y, z)
      PROVE  AtMost(x, z)
  <2>1. /\ Limit(x) \in Nat /\ Limit(y) \in Nat /\ Limit(z) \in Nat
        /\ d[x] \in Nat \ {0} /\ d[y] \in Nat \ {0} /\ d[z] \in Nat \ {0}
    BY <1>1
  <2> QED
    BY ONLY <1>4, <2>1, FractionsCompose
<1>5. PICK m \in M : \A x \in M : <<m, x>> \in R
  <2> HIDE DEF R, M, AtMost
  <2>1. ASSUME NEW x \in M, NEW y \in M PROVE <<x, y>> \in R \/ <<y, x>> \in R
    <3>1. x <= y \/ y <= x
      BY <1>1
    <3> QED
      BY <1>2, <1>3, <3>1
  <2>2. ASSUME NEW x \in M, NEW y \in M, NEW z \in M, <<x, y>> \in R, <<y, z>> \in R
        PROVE  <<x, z>> \in R
    <3>1. First(x, y) /\ First(y, z)
      BY <1>2, <2>2
    <3>2. AtMost(x, z)
      BY <1>4, <3>1
    <3>3. ASSUME AtMost(z, x) PROVE x <= z
      <4>1. AtMost(z, y) /\ AtMost(y, x)
        BY <1>4, <3>1, <3>3
      <4> QED
        BY <1>1, <3>1, <4>1
    <3> QED
      BY <1>2, <3>2, <3>3
  <2>3. IsFiniteSet(M)
    BY JointsAreFinite, FS_Subset DEF M, Moving
  <2>4. M # {}
    BY DEF M
  <2>5. \E m \in M : \A x \in M : <<m, x>> \in R
    BY ONLY <2>1, <2>2, <2>3, <2>4, FiniteHasFirst
  <2> QED
    BY <2>5
<1>6. \A k \in M : /\ Limit(m) * d[k] <= Limit(k) * d[m]
                   /\ k < m => Limit(m) * d[k] < Limit(k) * d[m]
  <2>1. ASSUME NEW k \in M
        PROVE  /\ Limit(m) * d[k] <= Limit(k) * d[m]
               /\ k < m => Limit(m) * d[k] < Limit(k) * d[m]
    <3>1. First(m, k)
      <4> HIDE DEF First, R
      <4> QED
        BY <1>2, <1>5
    <3>2. Limit(m) * d[k] \in Nat /\ Limit(k) * d[m] \in Nat /\ m \in Int /\ k \in Int
      BY <1>1
    <3> QED
      BY <3>1, <3>2
  <2> QED
    BY <2>1
<1>7. /\ Limiting(d) \in M
      /\ \A k \in M : /\ Limit(Limiting(d)) * d[k] <= Limit(k) * d[Limiting(d)]
                      /\ k < Limiting(d) =>
                           Limit(Limiting(d)) * d[k] < Limit(k) * d[Limiting(d)]
  <2> HIDE DEF M
  <2>1. Limiting(d) = CHOOSE j \in M :
          \A k \in M : /\ Limit(j) * d[k] <= Limit(k) * d[j]
                       /\ k < j => Limit(j) * d[k] < Limit(k) * d[j]
    BY DEF Limiting, M
  <2> QED
    BY <1>6, <2>1
<1> QED
  BY <1>7

\* joint_segment_speed asks no joint for more than its limit, and is a speed.
LEMMA JointSpeedIsSafe ==
  ASSUME request.scaling \in Int, NEW d \in [J -> Nat], Moving(d) # {}
  PROVE  /\ JointSpeed(d) \in [num : Nat, den : Nat \ {0}] /\ JointSpeed(d).num > 0
         /\ \A j \in J : d[j] * JointSpeed(d).num
                           <= 100 * VelocityMax[j] * Longest(d) * JointSpeed(d).den
<1> DEFINE m == Limiting(d)
           l == Longest(d)
           c == Limit(m)
           e == d[m]
<1>1. m \in Moving(d) /\ \A k \in Moving(d) : Limit(m) * d[k] <= Limit(k) * d[m]
  BY LimitingMeetsItsLimitFirst
<1>2. l \in Nat /\ \A j \in J : d[j] <= l
  <2>1. d \in [J -> Int]
    OBVIOUS
  <2>2. l \in {d[j] : j \in J} /\ \A j \in J : d[j] <= l
    BY <2>1, LargestOfJoints DEF Longest
  <2> QED
    BY <2>2
<1>3. m \in J /\ e \in Nat /\ e > 0 /\ c \in Nat /\ c > 0 /\ l > 0
  <2> HIDE DEF l
  <2>1. m \in J /\ d[m] > 0
    BY <1>1 DEF Moving
  <2>2. Limit(m) \in Nat \ {0}
    BY <2>1, LimitIsScaled
  <2> QED
    BY <1>2, <2>1, <2>2
<1>4. JointSpeed(d) = [num |-> c * l, den |-> e]
  BY DEF JointSpeed
<1> HIDE DEF m, l, c, e
<1>5. c * l \in Nat /\ c * l > 0
  BY <1>2, <1>3
<1>6. ASSUME NEW j \in J
      PROVE  d[j] * (c * l) <= 100 * VelocityMax[j] * l * e
  <2> DEFINE x == d[j]
             lim == Limit(j)
             v == VelocityMax[j]
  <2>1. x \in Nat /\ lim \in Nat /\ v \in Nat /\ lim <= 100 * v
    BY LimitIsScaled, PlanAssumption
  <2>2. c * x <= lim * e
    <3>1. CASE x > 0
      <4>1. j \in Moving(d)
        BY <3>1 DEF Moving
      <4> QED
        BY <1>1, <4>1 DEF c, e
    <3>2. CASE x = 0
      <4> HIDE DEF x, lim
      <4>1. c * x = 0 /\ lim * e >= 0
        BY <1>3, <2>1, <3>2
      <4> QED
        BY <4>1
    <3> QED
      BY <2>1, <3>1, <3>2
  <2> HIDE DEF x, lim, v
  <2>3. lim * e <= (100 * v) * e
    <3>1. 100 * v \in Nat
      BY <2>1
    <3> QED
      BY ONLY <1>3, <2>1, <3>1, TimesKeepsOrder
  <2>4. c * x <= (100 * v) * e /\ c * x \in Nat /\ (100 * v) * e \in Nat
    BY <1>3, <2>1, <2>2, <2>3
  <2>5. (c * x) * l <= ((100 * v) * e) * l
    BY ONLY <1>2, <2>4, TimesKeepsOrder
  <2>6. (c * x) * l = x * (c * l) /\ ((100 * v) * e) * l = 100 * v * l * e
    BY <1>2, <1>3, <2>1
  <2>7. x * (c * l) <= 100 * v * l * e
    BY <2>5, <2>6
  <2> QED
    BY <2>7 DEF x, v
<1> QED
  BY <1>3, <1>4, <1>5, <1>6 DEF l

\* cartesian_speed_cap asks no joint for more than its limit at any sample, and is a speed.
LEMMA LinearSpeedIsSafe ==
  ASSUME request.scaling \in Int, NEW samples, samples \subseteq [J -> Nat],
         IsFiniteSet(samples)
  PROVE  /\ LinearSpeed(samples) \in [num : Nat, den : Nat \ {0}]
         /\ LinearSpeed(samples).num > 0
         /\ \A r \in samples : \A j \in J :
              r[j] * LinearSpeed(samples).num
                <= 100 * VelocityMax[j] * LinearSpeed(samples).den
<1> DEFINE Cap(a) == [num |-> Limit(a[1]), den |-> a[2][a[1]]]
           A == Asked(samples)
           ceiling == [num |-> Ceiling * 100, den |-> 1]
           caps == {ceiling} \union {Cap(a) : a \in A}
           R == {p \in caps \X caps : p[1].num * p[2].den <= p[2].num * p[1].den}
<1>1. \A a \in A : /\ a[1] \in J /\ a[2] \in samples
                   /\ Limit(a[1]) \in Nat \ {0} /\ a[2][a[1]] \in Nat \ {0}
  BY LimitIsScaled DEF Asked
<1>2. \A c \in caps : /\ c \in [num : Nat, den : Nat \ {0}] /\ c.num > 0
                      /\ c.num \in Nat /\ c.den \in Nat \ {0}
  <2>1. Ceiling * 100 \in Nat /\ Ceiling * 100 > 0
    BY PlanAssumption
  <2> QED
    BY <1>1, <2>1
<1>3. \A b, c \in caps : <<b, c>> \in R <=> b.num * c.den <= c.num * b.den
  OBVIOUS
<1>4. IsFiniteSet(caps)
  <2>1. IsFiniteSet(A)
    <3>1. IsFiniteSet(J \X samples)
      BY JointsAreFinite, FS_Product
    <3>2. A \in SUBSET (J \X samples)
      BY DEF Asked
    <3> HIDE DEF A
    <3> QED
      BY ONLY <3>1, <3>2, FS_Subset
  <2>2. IsFiniteSet({Cap(a) : a \in A})
    <3> DEFINE T == {Cap(a) : a \in A}
               f == [a \in A |-> Cap(a)]
    <3>1. f \in Surjection(A, T)
      BY DEF Surjection
    <3> HIDE DEF A, T, f
    <3>2. IsFiniteSet(T)
      BY ONLY <2>1, <3>1, FS_Surjection
    <3> QED
      BY <3>2 DEF T
  <2>3. IsFiniteSet({ceiling})
    BY FS_Singleton
  <2> HIDE DEF A, Cap, ceiling
  <2> QED
    BY ONLY <2>2, <2>3, FS_Union DEF caps
<1>5. PICK m \in caps : \A c \in caps : <<m, c>> \in R
  <2> HIDE DEF R, caps
  <2>1. ASSUME NEW x \in caps, NEW y \in caps PROVE <<x, y>> \in R \/ <<y, x>> \in R
    <3>1. x.num * y.den \in Nat /\ y.num * x.den \in Nat
      BY <1>2
    <3> QED
      BY <1>3, <3>1
  <2>2. ASSUME NEW x \in caps, NEW y \in caps, NEW z \in caps, <<x, y>> \in R, <<y, z>> \in R
        PROVE  <<x, z>> \in R
    <3>1. /\ x.num \in Nat /\ y.num \in Nat /\ z.num \in Nat
          /\ x.den \in Nat \ {0} /\ y.den \in Nat \ {0} /\ z.den \in Nat \ {0}
      BY <1>2
    <3>2. x.num * y.den <= y.num * x.den /\ y.num * z.den <= z.num * y.den
      BY <1>3, <2>2
    <3>3. x.num * z.den <= z.num * x.den
      BY ONLY <3>1, <3>2, FractionsCompose
    <3> QED
      BY <1>3, <3>3
  <2>3. caps # {}
    BY DEF caps
  <2>4. \E m \in caps : \A c \in caps : <<m, c>> \in R
    BY ONLY <1>4, <2>1, <2>2, <2>3, FiniteHasFirst
  <2> QED
    BY <2>4
<1> DEFINE s == LinearSpeed(samples)
<1>6. s \in caps /\ \A c \in caps : s.num * c.den <= c.num * s.den
  <2>1. \A c \in caps : m.num * c.den <= c.num * m.den
    <3> HIDE DEF R, caps
    <3> QED
      BY <1>3, <1>5
  <2>2. s = CHOOSE c \in caps : \A b \in caps : c.num * b.den <= b.num * c.den
    BY DEF LinearSpeed
  <2> HIDE DEF caps, s
  <2> QED
    BY <2>1, <2>2
<1>7. s \in [num : Nat, den : Nat \ {0}] /\ s.num > 0 /\ s.num \in Nat /\ s.den \in Nat
  <2> HIDE DEF caps, s
  <2> QED
    BY <1>2, <1>6
<1>8. ASSUME NEW r \in samples, NEW j \in J
      PROVE  r[j] * s.num <= 100 * VelocityMax[j] * s.den
  <2>1. r[j] \in Nat /\ Limit(j) \in Nat /\ VelocityMax[j] \in Nat
        /\ Limit(j) <= 100 * VelocityMax[j]
    BY LimitIsScaled, PlanAssumption
  <2>2. s.num * r[j] <= Limit(j) * s.den
    <3>1. CASE r[j] > 0
      <4>1. <<j, r>> \in A
        BY <3>1 DEF Asked
      <4>2. Cap(<<j, r>>) \in caps /\ Cap(<<j, r>>).num = Limit(j) /\ Cap(<<j, r>>).den = r[j]
        <5>1. Cap(<<j, r>>) \in caps
          <6> HIDE DEF Cap, A
          <6> QED
            BY <4>1
        <5> QED
          BY <5>1
      <4> HIDE DEF Cap, s, caps
      <4> QED
        BY <1>6, <4>2
    <3>2. CASE r[j] = 0
      <4>1. s.num * 0 = 0 /\ Limit(j) * s.den >= 0
        <5> HIDE DEF s
        <5> QED
          BY <1>7, <2>1
      <4> QED
        BY <3>2, <4>1
    <3> QED
      BY <2>1, <3>1, <3>2
  <2> DEFINE x == r[j]
             lim == Limit(j)
             v == VelocityMax[j]
             n == s.num
             e == s.den
  <2>3. x \in Nat /\ lim \in Nat /\ v \in Nat /\ n \in Nat /\ e \in Nat /\ lim <= 100 * v
        /\ n * x <= lim * e
    BY <1>7, <2>1, <2>2
  <2> HIDE DEF x, lim, v, n, e
  <2>4. lim * e <= (100 * v) * e
    <3>1. 100 * v \in Nat
      BY <2>3
    <3> QED
      BY ONLY <2>3, <3>1, TimesKeepsOrder
  <2>5. x * n <= 100 * v * e
    BY <2>3, <2>4
  <2> QED
    BY <2>5 DEF x, v, n, e
<1> QED
  BY <1>7, <1>8

------------------------------------------------------------------------------
(***************************************************************************)
(* Speeds and branches.  What the two properties ask of the segments of a  *)
(* plan is set when a segment is added, from the configurations it was     *)
(* followed through; so the invariant holds those to the same, one sample  *)
(* at a time, and carries the segments through the file.                   *)
(***************************************************************************)
Paced(seg, a, b) ==
  /\ seg.speed.num > 0
  /\ IF seg.linear
     THEN \A r \in Rates(seg.path, a, b) : \A j \in J :
            r[j] * seg.speed.num <= 100 * VelocityMax[j] * seg.speed.den
     ELSE \A j \in J :
            Travel(a, b)[j] * seg.speed.num
              <= 100 * VelocityMax[j] * Longest(Travel(a, b)) * seg.speed.den

OnBranch(path, a) ==
  /\ path[1] = a /\ \A n \in DOMAIN path : path[n] \in Limited
  /\ \A n \in 2 .. Len(path) : Distance(path[n], path[n - 1]) <= MaxJump

Legal(seg, a, b) == Paced(seg, a, b) /\ (seg.linear => OnBranch(seg.path, a))

LegalPlan(cs, ps, bs) ==
  /\ cs \in Seq(Configs) /\ ps \in Seq(Segments) /\ bs \in Seq(Nat)
  /\ Len(bs) = Len(ps) /\ (ps # <<>> => Len(cs) > Len(ps))
  /\ \A k \in 1 .. Len(ps) : Legal(ps[k], cs[k], cs[k + 1])

\* The straight segment being followed.
Trail(path, a, b) ==
  /\ path # <<>> => OnBranch(path, a)
  /\ \A n \in DOMAIN path : Rate[<<path[n], a, b>>] # NoRate

KeptLegal(f, t) ==
  /\ f.state = "whole" => LegalPlan(f.kept.configs, f.kept.planned, f.kept.blends)
  /\ t.pc = "write" => LegalPlan(t.kept.configs, t.kept.planned, t.kept.blends)

Planning ==
  /\ request.scaling \in Int /\ followed \in Seq(Configs)
  /\ pc \in {"check", "resolve"} => followed = <<>>
  /\ pc \in {"resolve", "segment"} => configs \in Seq(Limited)
  /\ pc = "segment" => Trail(followed, configs[i], configs[i + 1])

PlanInv == Planning /\ LegalPlan(configs, planned, blends) /\ KeptLegal(file, tool)

\* The first sample of a line is the configuration it starts from, each other one no flip
\* away from the one before.
LEMMA FollowedStaysOnBranch ==
  ASSUME BlendInv, PlanInv, InSegment, Len(followed) < Len(Samples),
         NEW q \in Nearest(Branches, Held), Followable(q)
  PROVE  /\ Append(followed, q) \in Seq(Configs)
         /\ Trail(Append(followed, q), configs[i], configs[i + 1])
<1> DEFINE a == configs[i]
           b == configs[i + 1]
           p == Append(followed, q)
<1>1. i \in 1 .. Len(configs) /\ i + 1 \in 1 .. Len(configs) /\ configs \in Seq(Limited)
  BY DEF BlendInv, Typed, Loops, Count, InSegment, PlanInv, Planning
<1>2. a \in Limited /\ b \in Limited /\ Limited \subseteq Configs
  BY <1>1, PlanAssumption
<1>3. Len(followed) \in Nat /\ followed \in Seq(Configs) /\ Trail(followed, a, b)
  BY DEF PlanInv, Planning, InSegment
<1>4. q \in Limited /\ q \in Branches
  BY DEF Nearest, Branches
<1>5. Rate[<<q, a, b>>] # NoRate
  BY DEF Followable
<1>6. p \in Seq(Configs) /\ Len(p) = Len(followed) + 1 /\ p[Len(p)] = q
      /\ \A n \in 1 .. Len(followed) : p[n] = followed[n]
  BY <1>2, <1>3, <1>4
<1>7. CASE followed = <<>>
  <2>1. a \in Branches
    <3>1. Samples = Line[<<a, b>>] /\ Branches = Line[<<a, b>>][1] \intersect Limited
      BY <1>7 DEF Samples, Branches
    <3>2. a \in Line[<<a, b>>][1]
      <4>1. a \in Line[<<a, b>>][1] \/ \A r \in Line[<<a, b>>][1] : Rate[<<r, a, b>>] = NoRate
        <5> HIDE DEF a, b
        <5> QED
          BY <1>2, PlanAssumption
      <4> HIDE DEF a, b
      <4> QED
        BY <1>4, <1>5, <3>1, <4>1
    <3> QED
      BY <1>2, <3>1, <3>2
  <2>2. q = a
    <3>1. Held = a
      BY <1>7 DEF Held
    <3>2. Distance(q, a) <= Distance(a, a)
      BY <2>1, <3>1 DEF Nearest
    <3> HIDE DEF a
    <3>3. q \in Configs /\ a \in Configs
      BY <1>2, <1>4
    <3>4. Distance(a, a) = 0
      BY <3>3, NoDistanceIsSame
    <3>5. Distance(q, a) <= 0
      BY <3>2, <3>4
    <3> QED
      BY <3>3, <3>5, NoDistanceIsSame
  <2>3. Len(p) = 1 /\ DOMAIN p = {1} /\ p[1] = q
    BY <1>6, <1>7
  <2>4. OnBranch(p, a)
    <3> HIDE DEF p, a
    <3> QED
      BY <1>4, <2>2, <2>3 DEF OnBranch
  <2>5. Trail(p, a, b)
    <3> HIDE DEF p, a, b
    <3> QED
      BY <1>5, <2>3, <2>4 DEF Trail
  <2> QED
    BY <1>6, <2>5
<1>8. CASE followed # <<>>
  <2>1. OnBranch(followed, a) /\ DOMAIN followed = 1 .. Len(followed) /\ Len(followed) >= 1
    BY <1>3, <1>8 DEF Trail
  <2>2. DOMAIN p = 1 .. Len(p)
    BY <1>6
  <2>3. Distance(q, followed[Len(followed)]) <= MaxJump
    BY <1>8 DEF Followable, Held
  <2> HIDE DEF p, a, b
  <2>4. ASSUME NEW n \in DOMAIN p
        PROVE  p[n] \in Limited /\ Rate[<<p[n], a, b>>] # NoRate
    <3>1. CASE n = Len(p)
      BY <1>4, <1>5, <1>6, <3>1
    <3>2. CASE n # Len(p)
      <4>1. n \in DOMAIN followed /\ p[n] = followed[n]
        BY <1>3, <1>6, <2>1, <2>2, <3>2
      <4> QED
        BY <1>3, <2>1, <4>1 DEF Trail, OnBranch
    <3> QED
      BY <3>1, <3>2
  <2>5. ASSUME NEW n \in 2 .. Len(p)
        PROVE  Distance(p[n], p[n - 1]) <= MaxJump
    <3>1. CASE n = Len(p)
      <4>1. n - 1 = Len(followed) /\ p[n - 1] = followed[Len(followed)] /\ p[n] = q
        BY <1>3, <1>6, <2>1, <3>1
      <4> QED
        BY <2>3, <4>1
    <3>2. CASE n # Len(p)
      <4>1. n \in 2 .. Len(followed) /\ p[n] = followed[n] /\ p[n - 1] = followed[n - 1]
        BY <1>3, <1>6, <3>2
      <4> QED
        BY <2>1, <4>1 DEF OnBranch
    <3> QED
      BY <3>1, <3>2
  <2>6. p[1] = a
    BY <1>3, <1>6, <2>1 DEF OnBranch
  <2>7. OnBranch(p, a)
    BY <2>4, <2>5, <2>6 DEF OnBranch
  <2>8. Trail(p, a, b)
    BY <2>4, <2>7 DEF Trail
  <2> QED
    BY <1>6, <2>8 DEF p, a, b
<1> QED
  BY <1>7, <1>8

\* The rates at the samples of a line are finitely many, and none is missing.
LEMMA RatesAreFinite ==
  ASSUME NEW path \in Seq(Configs), NEW a \in Configs, NEW b \in Configs, Trail(path, a, b)
  PROVE  Rates(path, a, b) \subseteq [J -> Nat] /\ IsFiniteSet(Rates(path, a, b))
<1> DEFINE S == Rates(path, a, b)
           f == [n \in DOMAIN path |-> Rate[<<path[n], a, b>>]]
<1>1. ASSUME NEW n \in DOMAIN path PROVE Rate[<<path[n], a, b>>] \in [J -> Nat]
  <2>1. path[n] \in Configs /\ Rate[<<path[n], a, b>>] # NoRate
    BY DEF Trail
  <2>2. Rate[<<path[n], a, b>>] \in [J -> Nat] \union {NoRate}
    BY <2>1, PlanAssumption
  <2> QED
    BY <2>1, <2>2
<1>2. IsFiniteSet(DOMAIN path)
  <2>1. DOMAIN path = 1 .. Len(path) /\ Len(path) \in Int /\ 1 \in Int
    OBVIOUS
  <2> QED
    BY <2>1, FS_Interval
<1>3. f \in Surjection(DOMAIN path, S)
  BY DEF Surjection, Rates
<1> HIDE DEF f
<1>4. IsFiniteSet(S)
  BY ONLY <1>2, <1>3, FS_Surjection
<1> QED
  BY <1>1, <1>4 DEF Rates

\* What PlanSegment appends is a segment within its limits.
LEMMA SegmentIsLegal ==
  ASSUME BlendInv, PlanInv, InSegment, ~ Degenerate, Straight => Len(followed) = Len(Samples)
  PROVE  LET seg == Segment(request.waypoints[i], configs[i], configs[i + 1])
         IN  seg \in Segments /\ Legal(seg, configs[i], configs[i + 1])
<1> DEFINE wp == request.waypoints[i]
           a == configs[i]
           b == configs[i + 1]
           seg == Segment(wp, a, b)
<1>1. /\ i \in 1 .. Len(configs) /\ i + 1 \in 1 .. Len(configs) /\ configs \in Seq(Limited)
      /\ i \in 1 .. Len(request.waypoints) /\ request.waypoints \in Seq(PlanWaypoints)
  BY DEF BlendInv, Typed, Loops, Count, InSegment, PlanInv, Planning
<1>2. a \in Limited /\ b \in Limited /\ Limited \subseteq Configs /\ a \in Configs /\ b \in Configs
  BY <1>1, PlanAssumption
<1>3. wp.linear \in BOOLEAN
  <2>1. wp \in PlanWaypoints
    BY <1>1
  <2> QED
    BY <2>1 DEF PlanWaypoints
<1>4. request.scaling \in Int /\ followed \in Seq(Configs) /\ Trail(followed, a, b)
  BY DEF PlanInv, Planning, InSegment
<1>5. /\ seg.q = b /\ seg.linear = wp.linear /\ seg.path = followed
      /\ seg = [q |-> b, linear |-> wp.linear, path |-> followed, speed |-> seg.speed]
      /\ seg.speed = IF wp.linear THEN LinearSpeed(Rates(followed, a, b))
                                  ELSE JointSpeed(Travel(a, b))
  BY DEF Segment
<1>6. CASE wp.linear
  <2>1. followed # <<>>
    <3>1. Line[<<a, b>>] # <<>> /\ Line[<<a, b>>] \in Seq(SUBSET Configs)
      <4> HIDE DEF a, b
      <4> QED
        BY <1>2, PlanAssumption
    <3>2. Len(followed) = Len(Line[<<a, b>>])
      BY <1>6 DEF Straight, Samples
    <3> HIDE DEF a, b
    <3> QED
      BY <3>1, <3>2
  <2>2. OnBranch(followed, a)
    BY <1>4, <2>1 DEF Trail
  <2> DEFINE S == Rates(followed, a, b)
             s == LinearSpeed(S)
  <2>3. S \subseteq [J -> Nat] /\ IsFiniteSet(S)
    <3> HIDE DEF a, b
    <3> QED
      BY <1>2, <1>4, RatesAreFinite
  <2>4. /\ s \in [num : Nat, den : Nat \ {0}] /\ s.num > 0
        /\ \A r \in S : \A j \in J : r[j] * s.num <= 100 * VelocityMax[j] * s.den
    <3> HIDE DEF S
    <3> QED
      BY ONLY <1>4, <2>3, LinearSpeedIsSafe DEF s
  <2>5. seg.speed = s
    BY <1>5, <1>6
  <2> HIDE DEF s, seg, a, b, wp
  <2>6. seg \in Segments
    BY <1>2, <1>3, <1>4, <1>5, <2>4, <2>5 DEF Segments
  <2>7. Legal(seg, a, b)
    BY <1>5, <1>6, <2>2, <2>4, <2>5 DEF Legal, Paced, S
  <2> QED
    BY <2>6, <2>7 DEF seg, a, b, wp
<1>7. CASE ~ wp.linear
  <2> DEFINE d == Travel(a, b)
             s == JointSpeed(d)
  <2>1. d \in [J -> Nat]
    <3>1. \A j \in J : Abs(b[j] - a[j]) \in Nat
      <4>1. a \in [J -> Int] /\ b \in [J -> Int]
        BY <1>2, PlanAssumption
      <4> HIDE DEF a, b
      <4> QED
        BY <4>1 DEF Abs
    <3> QED
      BY <3>1 DEF Travel
  <2>2. Moving(d) # {}
    BY <1>7 DEF Degenerate, Straight
  <2>3. /\ s \in [num : Nat, den : Nat \ {0}] /\ s.num > 0
        /\ \A j \in J : d[j] * s.num <= 100 * VelocityMax[j] * Longest(d) * s.den
    <3> HIDE DEF d
    <3> QED
      BY ONLY <1>4, <2>1, <2>2, JointSpeedIsSafe DEF s
  <2>4. seg.speed = s
    BY <1>5, <1>7
  <2> HIDE DEF s, seg, a, b, wp
  <2>5. seg \in Segments
    BY <1>2, <1>3, <1>4, <1>5, <2>3, <2>4 DEF Segments
  <2>6. Legal(seg, a, b)
    BY <1>5, <1>7, <2>3, <2>4 DEF Legal, Paced, d
  <2> QED
    BY <2>5, <2>6 DEF seg, a, b, wp
<1> QED
  BY <1>6, <1>7

\* A plan without segments is within them all, wherever it starts.
LEMMA EmptyIsLegal ==
  ASSUME NEW cs \in Seq(Configs)
  PROVE  LegalPlan(cs, <<>>, <<>>)
BY DEF LegalPlan

\* A waypoint is resolved before there are segments.
LEMMA ResolvedIsLegal ==
  ASSUME NEW cs, NEW ps, NEW bs, LegalPlan(cs, ps, bs), bs = <<>>, NEW q \in Configs
  PROVE  LegalPlan(Append(cs, q), ps, bs)
<1>1. ps = <<>> /\ cs \in Seq(Configs)
  BY DEF LegalPlan
<1>2. Append(cs, q) \in Seq(Configs)
  BY <1>1
<1> QED
  BY <1>1, <1>2, EmptyIsLegal

\* A segment joins the two waypoints that come next.
LEMMA AppendIsLegal ==
  ASSUME NEW cs, NEW ps, NEW bs, LegalPlan(cs, ps, bs), Len(cs) > Len(ps) + 1,
         NEW seg \in Segments, Legal(seg, cs[Len(ps) + 1], cs[Len(ps) + 2])
  PROVE  LegalPlan(cs, Append(ps, seg), Append(bs, 0))
<1>1. /\ cs \in Seq(Configs) /\ ps \in Seq(Segments) /\ bs \in Seq(Nat) /\ Len(bs) = Len(ps)
      /\ Len(ps) \in Nat /\ Len(cs) \in Nat
  BY DEF LegalPlan
<1>2. /\ Append(ps, seg) \in Seq(Segments) /\ Append(bs, 0) \in Seq(Nat)
      /\ Len(Append(ps, seg)) = Len(ps) + 1 /\ Len(Append(bs, 0)) = Len(ps) + 1
  BY <1>1
<1>3. ASSUME NEW k \in 1 .. Len(ps) + 1
      PROVE  Legal(Append(ps, seg)[k], cs[k], cs[k + 1])
  <2>1. CASE k = Len(ps) + 1
    <3>1. Append(ps, seg)[k] = seg /\ cs[k] = cs[Len(ps) + 1] /\ cs[k + 1] = cs[Len(ps) + 2]
      BY <1>1, <2>1
    <3> QED
      BY <3>1
  <2>2. CASE k # Len(ps) + 1
    <3>1. k \in 1 .. Len(ps) /\ Append(ps, seg)[k] = ps[k]
      BY <1>1, <2>2
    <3> QED
      BY <3>1 DEF LegalPlan
  <2> QED
    BY <2>1, <2>2
<1> QED
  BY <1>1, <1>2, <1>3 DEF LegalPlan

\* The radii say nothing of speeds and branches, but there is one for each segment.
LEMMA BlendedIsLegal ==
  ASSUME NEW cs, NEW ps, NEW bs, LegalPlan(cs, ps, bs), NEW new \in Seq(Nat), Len(new) = Len(bs)
  PROVE  LegalPlan(cs, ps, new)
BY DEF LegalPlan

\* The three loops: the invariant is about the second, which the first prepares.
LEMMA PlanKeepsLegal ==
  ASSUME BlendInv, PlanInv, PlanStep
  PROVE  Planning' /\ LegalPlan(configs', planned', blends')
<1>0. /\ LegalPlan(configs, planned, blends) /\ Planning
      /\ configs \in Seq(Configs) /\ followed \in Seq(Configs)
  BY DEF PlanInv, LegalPlan, Planning
<1>1. CASE CheckRequest
  <2>1. UNCHANGED <<request, configs, followed, planned, blends>> /\ pc = "check"
        /\ pc' \in {"resolve", "failed"} /\ (pc' = "resolve" => configs[1] \in Limited)
    BY <1>1 DEF CheckRequest, Fail
  <2>2. configs \in Seq(Limited) \/ pc' = "failed"
    <3>1. Len(configs) = 1
      BY <2>1 DEF BlendInv, Loops
    <3>2. configs[1] \in Limited => configs \in Seq(Limited)
      <4>1. DOMAIN configs = 1 .. Len(configs) /\ configs = [n \in 1 .. 1 |-> configs[n]]
        BY <1>0, <3>1
      <4>2. configs[1] \in Limited => \A n \in 1 .. 1 : configs[n] \in Limited
        OBVIOUS
      <4> QED
        BY <3>1, <4>1, <4>2
    <3> QED
      BY <2>1, <3>2
  <2>3. Planning'
    BY <1>0, <2>1, <2>2 DEF Planning
  <2> QED
    BY <1>0, <2>1, <2>3
<1>2. CASE ResolveWaypoint
  <2>1. CASE \E kind, index : Fail(kind, index)
    BY <1>0, <2>1 DEF Fail, Planning
  <2>2. ASSUME NEW q \in Nearest(Reachable(request.waypoints[i]), Seed(request.waypoints[i])),
               pc = "resolve", i <= Len(request.waypoints), configs' = Append(configs, q),
               UNCHANGED <<request, pc, followed, planned, blends, error>>
        PROVE  Planning' /\ LegalPlan(configs', planned', blends')
    <3>1. q \in Configs /\ q \in Limited /\ blends = <<>>
      BY <2>2, ResolvedIsConfig DEF Nearest, Reachable, BlendInv, Loops
    <3>2. configs' \in Seq(Limited)
      <4>1. configs \in Seq(Limited)
        BY <1>0, <2>2 DEF Planning
      <4> QED
        BY <2>2, <3>1, <4>1
    <3>3. Planning'
      BY <1>0, <2>2, <3>2 DEF Planning
    <3>4. LegalPlan(Append(configs, q), planned, blends)
      BY <1>0, <3>1, ResolvedIsLegal
    <3> QED
      BY <2>2, <3>3, <3>4
  <2> QED
    BY <1>2, <2>1, <2>2 DEF ResolveWaypoint
<1>3. CASE StartSegments
  <2>1. Trail(<<>>, configs[i'], configs[i' + 1])
    BY DEF Trail
  <2>2. UNCHANGED <<request, configs, followed, planned, blends>> /\ pc = "resolve"
        /\ pc' = "segment" /\ followed = <<>>
    BY <1>0, <1>3 DEF StartSegments, Planning
  <2>3. Planning'
    BY <1>0, <2>1, <2>2 DEF Planning
  <2> QED
    BY <1>0, <2>2, <2>3
<1>4. CASE FollowLine
  <2>1. CASE \E kind, index : Fail(kind, index)
    BY <1>0, <2>1 DEF Fail, Planning
  <2>2. ASSUME NEW q \in Nearest(Branches, Held), Followable(q),
               followed' = Append(followed, q),
               UNCHANGED <<request, pc, i, configs, planned, blends, error>>
        PROVE  Planning' /\ LegalPlan(configs', planned', blends')
    <3>1. InSegment /\ Len(followed) < Len(Samples) /\ pc = "segment"
      BY <1>4 DEF FollowLine, InSegment
    <3>2. followed' \in Seq(Configs) /\ Trail(followed', configs[i], configs[i + 1])
      BY <2>2, <3>1, FollowedStaysOnBranch
    <3>3. Planning'
      BY <1>0, <2>2, <3>1, <3>2 DEF Planning
    <3> QED
      BY <1>0, <2>2, <3>3
  <2> QED
    BY <1>4, <2>1, <2>2 DEF FollowLine
<1>5. CASE PlanSegment
  <2>1. CASE \E kind, index : Fail(kind, index)
    BY <1>0, <2>1 DEF Fail, Planning
  <2> DEFINE seg == Segment(request.waypoints[i], configs[i], configs[i + 1])
  <2>2. CASE /\ ~ Degenerate /\ planned' = Append(planned, seg)
             /\ blends' = Append(blends, 0) /\ followed' = <<>> /\ i' = i + 1
             /\ UNCHANGED <<request, pc, configs, error>>
    <3>1. InSegment /\ (Straight => Len(followed) = Len(Samples)) /\ pc = "segment"
      BY <1>5 DEF PlanSegment, InSegment
    <3>2. seg \in Segments /\ Legal(seg, configs[i], configs[i + 1])
      BY <2>2, <3>1, SegmentIsLegal
    <3> HIDE DEF seg
    <3>3. Len(planned) + 1 = i /\ Len(planned) + 2 = i + 1 /\ Len(configs) > Len(planned) + 1
      BY <3>1 DEF BlendInv, Typed, Loops, Count, InSegment, PlanInv, LegalPlan
    <3>4. LegalPlan(configs, Append(planned, seg), Append(blends, 0))
      BY <1>0, <3>2, <3>3, AppendIsLegal
    <3>5. Trail(<<>>, configs[i'], configs[i' + 1]) /\ <<>> \in Seq(Configs)
      BY DEF Trail
    <3>6. Planning'
      BY <1>0, <2>2, <3>1, <3>5 DEF Planning
    <3> QED
      BY <2>2, <3>4, <3>6
  <2> HIDE DEF seg
  <2> QED
    BY <1>5, <2>1, <2>2 DEF PlanSegment, seg
<1>6. CASE StartCorners \/ FinishPlan
  <2>1. UNCHANGED <<request, configs, followed, planned, blends>> /\ pc' \in {"corner", "planned"}
    BY <1>6 DEF StartCorners, FinishPlan
  <2> QED
    BY <1>0, <2>1 DEF Planning
<1>7. CASE BlendCorner
  <2>1. pc = "corner" /\ i <= CornerCount /\ blends' = [blends EXCEPT ![i] = CornerRadius]
        /\ UNCHANGED <<request, pc, configs, followed, planned>>
    BY <1>7 DEF BlendCorner, Blended
  <2>2. CornerRadius \in Nat /\ blends \in Seq(Nat)
    BY <1>0, <2>1, CornerBound DEF LegalPlan
  <2>3. blends' \in Seq(Nat) /\ Len(blends') = Len(blends)
    <3>1. i \in 1 .. Len(blends)
      BY <2>1 DEF BlendInv, Typed, Loops, CornerCount
    <3> QED
      BY <2>1, <2>2, <3>1
  <2>4. LegalPlan(configs, planned, blends')
    BY <1>0, <2>3, BlendedIsLegal
  <2>5. Planning'
    BY <1>0, <2>1 DEF Planning
  <2> QED
    BY <2>1, <2>4, <2>5
<1> QED
  BY <1>1, <1>2, <1>3, <1>4, <1>5, <1>6, <1>7 DEF PlanStep

\* What begins and what is dropped has no segments; what is replayed was legal when it was
\* stored, and what is stored is the plan there is.
LEMMA NextPlanInv == BlendInv /\ PlanInv /\ [Next]_vars => PlanInv'
<1> SUFFICES ASSUME BlendInv, PlanInv, [Next]_vars
             PROVE  Planning' /\ LegalPlan(configs', planned', blends') /\ KeptLegal(file', tool')
  BY DEF PlanInv, LegalPlan, KeptLegal
<1>0. /\ Planning /\ LegalPlan(configs, planned, blends) /\ KeptLegal(file, tool)
      /\ tool = [pc |-> tool.pc, kept |-> tool.kept, runs |-> tool.runs]
      /\ arm.at \in Configs
  BY OnlineAssumption DEF PlanInv, BlendInv, Kept, Typed
<1>1. CASE PlanStep /\ UNCHANGED outside
  <2>1. UNCHANGED <<file, tool>>
    BY <1>1 DEF outside
  <2> QED
    BY <1>0, <1>1, <2>1, PlanKeepsLegal
<1>2. ASSUME DropPlan PROVE Planning' /\ LegalPlan(configs', planned', blends')
  <2>1. <<>> \in Seq(Configs)
    OBVIOUS
  <2>2. LegalPlan(configs', planned', blends')
    BY <1>2, <2>1, EmptyIsLegal DEF DropPlan
  <2> QED
    BY <1>2, <2>1, <2>2 DEF DropPlan, Planning
<1>3. ASSUME NEW who, NEW requests, NEW start \in Configs, Begin(who, requests, start)
      PROVE  Planning' /\ LegalPlan(configs', planned', blends')
  <2>1. /\ configs' = <<start>> /\ planned' = <<>> /\ blends' = <<>> /\ followed' = <<>>
        /\ pc' = "check" /\ request'.scaling \in Int
    BY <1>3, OnlineAssumption DEF Begin
  <2>2. <<start>> \in Seq(Configs) /\ <<>> \in Seq(Configs)
    OBVIOUS
  <2>3. LegalPlan(configs', planned', blends')
    BY <2>1, <2>2, EmptyIsLegal
  <2>4. Planning'
    <3>1. request'.scaling \in Int /\ followed' \in Seq(Configs) /\ followed' = <<>>
      BY <2>1, <2>2
    <3>2. pc' \notin {"resolve", "segment"}
      BY <2>1
    <3> QED
      BY ONLY <3>1, <3>2 DEF Planning
  <2> QED
    BY <2>3, <2>4
<1>4. CASE Refused \/ RunGoal \/ NotStored
  <2>1. DropPlan /\ UNCHANGED <<file, tool>>
    BY <1>4 DEF Refused, RunGoal, NotStored
  <2> QED
    BY <1>0, <1>2, <2>1
<1>5. CASE Move \/ UNCHANGED vars
  <2>1. UNCHANGED <<request, pc, i, configs, followed, planned, blends, file, tool>>
    BY <1>5 DEF Move, vars, planVars
  <2> QED
    BY <1>0, <2>1 DEF Planning
<1>6. CASE PlanHere
  <2>1. Begin("client", Requests, arm.at) /\ UNCHANGED <<file, tool>>
    BY <1>6 DEF PlanHere
  <2> QED
    BY <1>0, <1>3, <2>1
<1>7. CASE Replay
  <2>1. UNCHANGED <<request, i, followed, file, tool>> /\ pc' \in {"planned", "failed"}
    BY <1>7 DEF Replay
  <2>2. Planning'
    BY <1>0, <2>1 DEF Planning
  <2>3. LegalPlan(configs', planned', blends')
    BY <1>0, <1>7 DEF Replay, Loads, KeptLegal
  <2> QED
    BY <1>0, <2>1, <2>2, <2>3
<1>8. CASE Admit
  <2>1. UNCHANGED <<request, i, configs, followed, planned, blends, file, tool>>
        /\ pc' \in {"failed", "admitted"}
    BY <1>8 DEF Admit, outside
  <2> QED
    BY <1>0, <2>1 DEF Planning
<1>9. CASE ToolPlan
  <2>1. PICK start \in Starts : Begin("tool", ToolRequests, start)
    BY <1>9 DEF ToolPlan
  <2>2. start \in Configs /\ file' = file /\ tool'.pc = tool.pc /\ tool'.kept = tool.kept
    <3>1. tool' = [pc |-> tool.pc, kept |-> tool.kept, runs |-> tool.runs + 1]
      BY <1>0, <1>9 DEF ToolPlan
    <3> QED
      BY <1>9, <3>1, OnlineAssumption DEF ToolPlan
  <2> QED
    BY <1>0, <1>3, <2>1, <2>2 DEF KeptLegal
<1>10. CASE OpenFile
  <2>1. DropPlan /\ file'.state = "torn"
    BY <1>10 DEF OpenFile
  <2>2. tool' = [pc |-> "write", kept |-> Trajectory, runs |-> tool.runs]
    BY <1>0, <1>10 DEF OpenFile
  <2>3. tool'.kept.configs = configs /\ tool'.kept.planned = planned /\ tool'.kept.blends = blends
    BY <2>2 DEF Trajectory
  <2>4. KeptLegal(file', tool')
    BY <1>0, <2>1, <2>3 DEF KeptLegal
  <2> QED
    BY <1>2, <2>1, <2>4
<1>11. CASE WriteFile \/ WriteFails
  <2>1. tool' = [pc |-> "idle", kept |-> NoTrajectory, runs |-> tool.runs]
    BY <1>0, <1>11 DEF WriteFile, WriteFails
  <2>2. file' = file \/ (tool.pc = "write" /\ file'.kept = tool.kept)
    BY <1>11 DEF WriteFile, WriteFails
  <2>3. KeptLegal(file', tool')
    BY <1>0, <2>1, <2>2 DEF KeptLegal
  <2>4. UNCHANGED <<request, pc, i, configs, followed, planned, blends>>
    BY <1>11 DEF WriteFile, WriteFails, planVars
  <2> QED
    BY <1>0, <2>3, <2>4 DEF Planning
<1> QED
  BY <1>1, <1>4, <1>5, <1>6, <1>7, <1>8, <1>9, <1>10, <1>11 DEF Next

\* Nothing is planned or stored at first.
LEMMA InitPlanInv == Init => PlanInv
<1> SUFFICES ASSUME Init PROVE PlanInv
  OBVIOUS
<1>1. <<>> \in Seq(Configs)
  OBVIOUS
<1>2. LegalPlan(configs, planned, blends)
  BY <1>1, EmptyIsLegal DEF Init
<1> QED
  BY <1>1, <1>2 DEF Init, PlanInv, Planning, KeptLegal

\* No joint passes its own limit on any segment, along a straight line at every
\* configuration it was followed through, whatever scaling was asked (timing.rs:48-110).
THEOREM NoJointPassesItsLimit == Spec => []WithinLimits
<1>1. Init => BlendInv /\ PlanInv
  BY InitBlendInv, InitPlanInv
<1>2. BlendInv /\ PlanInv /\ [Next]_vars => (BlendInv /\ PlanInv)'
  BY NextBlendInv, NextPlanInv
<1>3. PlanInv => WithinLimits
  BY DEF PlanInv, LegalPlan, Legal, Paced, WithinLimits
<1> QED
  BY <1>1, <1>2, <1>3, PTL DEF Spec

\* A straight segment starts at the waypoint before it, stays inside the position limits
\* and never flips the wrist (path.rs:207-244).
THEOREM StraightLinesKeepTheirBranch == Spec => []StraightHoldsItsBranch
<1>1. Init => BlendInv /\ PlanInv
  BY InitBlendInv, InitPlanInv
<1>2. BlendInv /\ PlanInv /\ [Next]_vars => (BlendInv /\ PlanInv)'
  BY NextBlendInv, NextPlanInv
<1>3. PlanInv => StraightHoldsItsBranch
  BY DEF PlanInv, LegalPlan, Legal, OnBranch, StraightHoldsItsBranch
<1> QED
  BY <1>1, <1>2, <1>3, PTL DEF Spec

------------------------------------------------------------------------------
(***************************************************************************)
(* Types, of what is in the file beside what is in memory.                 *)
(***************************************************************************)
Outer ==
  /\ pc \in {"idle", "check", "resolve", "segment", "corner", "planned", "failed", "admitted"}
  /\ asked \in 0 .. MaxRequests /\ origin \in {"client", "tool", "file"}
  /\ file \in [state : {"none", "torn", "whole"}, kept : Trajectories]
  /\ tool \in [pc : {"idle", "write"}, kept : Trajectories, runs : 0 .. MaxRuns]

\* The first moves of a plan are one too, as far as its types go.
LEMMA FirstMovesAreTyped ==
  ASSUME BlendInv, PlanInv, NEW n \in 0 .. Len(planned) - 1
  PROVE  FirstMoves(Trajectory, n) \in Trajectories
<1>1. /\ configs \in Seq(Configs) /\ planned \in Seq(Segments) /\ blends \in Seq(Nat)
      /\ Len(configs) \in Nat /\ Len(planned) \in Nat /\ Len(blends) = Len(planned)
      /\ Len(configs) > Len(planned) /\ n \in Int /\ n + 1 \in Int
  BY DEF PlanInv, LegalPlan
<1>2. SubSeq(configs, 1, n + 1) \in Seq(Configs)
  <2>1. \A k \in 1 .. n + 1 : configs[k] \in Configs
    BY <1>1
  <2> QED
    BY ONLY <1>1, <2>1, SubSeqProperties
<1>3. SubSeq(planned, 1, n) \in Seq(Segments)
  <2>1. \A k \in 1 .. n : planned[k] \in Segments
    BY <1>1
  <2> QED
    BY ONLY <1>1, <2>1, SubSeqProperties
<1>4. SubSeq(blends, 1, n) \in Seq(Nat)
  <2>1. \A k \in 1 .. n : blends[k] \in Nat
    BY <1>1
  <2> QED
    BY ONLY <1>1, <2>1, SubSeqProperties
<1> QED
  BY <1>2, <1>3, <1>4 DEF FirstMoves, Trajectory, Trajectories

\* The file is opened before it is written, and each run of plan_trajectory is counted.
LEMMA NextOuter == BlendInv /\ PlanInv /\ Outer /\ [Next]_vars => Outer'
<1> SUFFICES ASSUME BlendInv, PlanInv, Outer, [Next]_vars PROVE Outer'
  OBVIOUS
<1>0. /\ Trajectory \in Trajectories /\ NoTrajectory \in Trajectories
      /\ file \in [state : {"none", "torn", "whole"}, kept : Trajectories]
      /\ tool \in [pc : {"idle", "write"}, kept : Trajectories, runs : 0 .. MaxRuns]
      /\ tool = [pc |-> tool.pc, kept |-> tool.kept, runs |-> tool.runs]
      /\ MaxRequests \in Nat /\ MaxRuns \in Nat
  <2>1. Trajectory \in Trajectories
    BY DEF PlanInv, LegalPlan, Trajectory, Trajectories
  <2>2. NoTrajectory \in Trajectories
    <3>1. <<>> \in Seq(Configs) /\ <<>> \in Seq(Segments) /\ <<>> \in Seq(Nat)
      OBVIOUS
    <3> QED
      BY <3>1 DEF NoTrajectory, Trajectories
  <2> QED
    BY <2>1, <2>2, OnlineAssumption DEF Outer
<1>1. CASE PlanStep /\ UNCHANGED outside
  <2>1. pc' \in {"resolve", "segment", "corner", "planned", "failed"}
    BY <1>1 DEF PlanStep, CheckRequest, ResolveWaypoint, StartSegments, FollowLine, InSegment,
                PlanSegment, StartCorners, BlendCorner, FinishPlan, Fail
  <2> QED
    BY <1>1, <2>1 DEF outside, Outer
<1>2. CASE Refused \/ RunGoal \/ NotStored
  BY <1>2 DEF Refused, RunGoal, NotStored, DropPlan, Outer
<1>3. CASE Move \/ UNCHANGED vars
  BY <1>3 DEF Move, vars, planVars, Outer
<1>4. CASE PlanHere
  <2>1. pc' = "check" /\ origin' = "client" /\ UNCHANGED <<file, tool>>
        /\ asked < MaxRequests /\ asked' = asked + 1
    BY <1>4 DEF PlanHere, MayAsk, Begin
  <2> QED
    BY <1>0, <2>1 DEF Outer
<1>5. CASE Replay
  <2>1. pc' \in {"planned", "failed"} /\ origin' = "file" /\ UNCHANGED <<file, tool>>
        /\ asked < MaxRequests /\ asked' = asked + 1
    BY <1>5 DEF Replay, MayAsk
  <2> QED
    BY <1>0, <2>1 DEF Outer
<1>6. CASE Admit
  BY <1>6 DEF Admit, outside, Outer
<1>7. CASE ToolPlan
  <2>1. tool' = [pc |-> tool.pc, kept |-> tool.kept, runs |-> tool.runs + 1]
        /\ tool.runs < MaxRuns
    BY <1>0, <1>7 DEF ToolPlan
  <2>2. pc' = "check" /\ origin' = "tool" /\ UNCHANGED <<file, asked>>
    BY <1>7 DEF ToolPlan, Begin
  <2> QED
    BY <1>0, <2>1, <2>2 DEF Outer
<1>8. CASE OpenFile
  <2>1. PICK n \in 0 .. Len(planned) - 1 :
          file' = [state |-> "torn", kept |-> FirstMoves(Trajectory, n)]
    BY <1>8 DEF OpenFile
  <2>2. FirstMoves(Trajectory, n) \in Trajectories
    BY FirstMovesAreTyped
  <2>3. tool' = [pc |-> "write", kept |-> Trajectory, runs |-> tool.runs]
    BY <1>0, <1>8 DEF OpenFile
  <2>4. pc' = "idle" /\ origin' = "client" /\ asked' = asked
    BY <1>8 DEF OpenFile, DropPlan
  <2> QED
    BY <1>0, <2>1, <2>2, <2>3, <2>4 DEF Outer
<1>9. CASE WriteFile \/ WriteFails
  <2>1. tool' = [pc |-> "idle", kept |-> NoTrajectory, runs |-> tool.runs]
    BY <1>0, <1>9 DEF WriteFile, WriteFails
  <2>2. file' = file \/ file' = [state |-> "whole", kept |-> tool.kept]
    BY <1>9 DEF WriteFile, WriteFails
  <2>3. UNCHANGED <<pc, origin, asked>>
    BY <1>9 DEF WriteFile, WriteFails, planVars
  <2> QED
    BY <1>0, <2>1, <2>2, <2>3 DEF Outer
<1> QED
  BY <1>1, <1>2, <1>3, <1>4, <1>5, <1>6, <1>7, <1>8, <1>9 DEF Next

\* Nothing has been asked or stored at first.
LEMMA InitOuter == Init => Outer
<1> SUFFICES ASSUME Init PROVE Outer
  OBVIOUS
<1>1. NoTrajectory \in Trajectories
  <2>1. <<>> \in Seq(Configs) /\ <<>> \in Seq(Segments) /\ <<>> \in Seq(Nat)
    OBVIOUS
  <2> QED
    BY <2>1 DEF NoTrajectory, Trajectories
<1> QED
  BY <1>1, OnlineAssumption DEF Init, Outer

\* Every variable stays in its type; in particular every speed is a fraction with a
\* denominator, every blend radius is positive or zero, and there is one for each segment.
THEOREM TypeCorrect == Spec => []TypeOK
<1>1. Init => BlendInv /\ PlanInv /\ Outer
  BY InitBlendInv, InitPlanInv, InitOuter
<1>2. BlendInv /\ PlanInv /\ Outer /\ [Next]_vars => (BlendInv /\ PlanInv /\ Outer)'
  BY NextBlendInv, NextPlanInv, NextOuter
<1>3. BlendInv /\ PlanInv /\ Outer => TypeOK
  <2> SUFFICES ASSUME BlendInv, PlanInv, Outer PROVE TypeOK
    OBVIOUS
  <2>1. Trajectory \in Trajectories /\ Len(blends) = Len(planned)
    BY DEF PlanInv, LegalPlan, Trajectory, Trajectories
  <2> QED
    BY <2>1 DEF BlendInv, Typed, PlanInv, Planning, Outer, TypeOK
<1> QED
  BY <1>1, <1>2, <1>3, PTL DEF Spec
==============================================================================
