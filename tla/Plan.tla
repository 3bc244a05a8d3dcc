-------------------------------- MODULE Plan --------------------------------
(***************************************************************************)
(* trajectory/plan.rs with path.rs, timing.rs and limits.rs: waypoints in, *)
(* a blended chain of moves out.  Three loops - resolve every waypoint,    *)
(* size every segment, blend every corner - and the first problem ends the *)
(* plan.                                                                   *)
(*                                                                         *)
(* Angles, millimetres and speeds are integers; blend radii are tenths of  *)
(* a millimetre, speeds fractions [num, den].  What kinematics.rs computes *)
(* from a configuration is a CONSTANT function of it.                      *)
(***************************************************************************)
EXTENDS Integers, Sequences

CONSTANTS
  NJoints,        \* joints of the arm (6)
  Configs,        \* joint configurations, each a tuple of NJoints integers
  Limited,        \* those inside the position limits
  Weight,         \* BRANCH_WEIGHTS, how much a joint's move counts
  VelocityMax,    \* speed limit of each joint
  Ceiling,        \* max_cartesian_speed
  Chord,          \* [Configs \X Configs -> Nat]: how far apart two tool positions are
  Deflection,     \* [Configs \X Configs \X Configs -> Deflections]: the corner there
  Budget,         \* [Corners -> Nat]: radius that uses up max_path_deviation
  Line,           \* [Configs \X Configs -> Seq(SUBSET Configs)]: the branches of each sample
                  \* of the straight line between their tool poses
  Rate,           \* [Configs \X Configs \X Configs]: at the first of them, the joint speeds
                  \* that unit tool speed asks for on the line between the others
  MaxJump,        \* a branch further away than this, which is pi, is a wrist flip
  MaxWaypoints    \* MAX_WAYPOINTS

J == 1 .. NJoints
Corners == {"gentle", "right", "sharp"}
Deflections == Corners \union {"straight", "reversal"}

NoConfig == <<>>
NoCap == -1
NoRate == <<>>      \* the Jacobian has no inverse

ASSUME PlanAssumption ==
  /\ NJoints \in Nat \ {0} /\ MaxWaypoints \in Nat \ {0}
  /\ Configs \subseteq [J -> Int] /\ Limited \subseteq Configs
  /\ Weight \in [J -> Nat \ {0}] /\ VelocityMax \in [J -> Nat \ {0}]
  /\ Ceiling \in Nat \ {0}
  /\ Chord \in [Configs \X Configs -> Nat]
  /\ Deflection \in [Configs \X Configs \X Configs -> Deflections]
  /\ Budget \in [Corners -> Nat]
  /\ Line \in [Configs \X Configs -> Seq(SUBSET Configs)]
  /\ Rate \in [Configs \X Configs \X Configs -> [J -> Nat] \union {NoRate}]
  /\ MaxJump \in Nat
  \* A line has samples, and the first is where it starts: inverse kinematics recovers the
  \* configuration (tests/trajectory_kinematics.rs:251), unless its pose is singular.
  /\ \A a \in Limited, b \in Configs :
       LET first == Line[<<a, b>>][1]
       IN /\ Line[<<a, b>>] # <<>>
          /\ a \in first \/ \A q \in first : Rate[<<q, a, b>>] = NoRate

VARIABLES
  request,    \* the waypoints asked for, and the velocity scaling in percent
  pc,         \* which loop, ...
  i,          \* ... and its index
  configs,    \* the start, and the waypoints resolved so far
  followed,   \* the configurations along the straight segment being sized
  planned,    \* the segments sized so far: [q, linear, path, speed]
  blends,     \* the blend radius at the end of each of them
  error       \* why, and at which waypoint, there is no plan

planVars == <<request, pc, i, configs, followed, planned, blends, error>>

PlanWaypoints ==
  [given : BOOLEAN, branches : SUBSET Configs, preferred : Configs \union {NoConfig},
   linear : BOOLEAN, cap : Int]

NoError == [kind |-> "none", index |-> 0]
Abs(x) == IF x < 0 THEN -x ELSE x
Lesser(x, y) == IF x <= y THEN x ELSE y

Fail(kind, index) ==
  /\ error' = [kind |-> kind, index |-> index]
  /\ pc' = "failed"
  /\ UNCHANGED <<request, i, configs, followed, planned, blends>>

------------------------------------------------------------------------------
(***************************************************************************)
(* Resolving.                                                              *)
(***************************************************************************)
\* configuration_distance: the largest weighted joint move.
Largest(S) == CHOOSE m \in S : \A n \in S : n <= m
Distance(a, b) == Largest({Weight[j] * Abs(a[j] - b[j]) : j \in J})
Nearest(set, seed) ==
  {q \in set : \A p \in set : Distance(q, seed) <= Distance(p, seed)}

\* The caller's preference, or the waypoint before.
Seed(wp) == IF wp.preferred = NoConfig THEN configs[Len(configs)] ELSE wp.preferred

\* Joint targets are checked; a pose has its inverse-kinematics branches.
Reachable(wp) == wp.branches \intersect Limited

ResolveProblem(wp) ==
  IF wp.branches = {} THEN "Unreachable"
  ELSE IF Reachable(wp) = {}
       THEN IF wp.given THEN "GivenConfigurationOutsideLimits" ELSE "OutsideJointLimits"
       ELSE "none"

CheckRequest ==
  /\ pc = "check"
  /\ \/ Len(request.waypoints) = 0 /\ Fail("NoWaypoints", 0)
     \/ Len(request.waypoints) > MaxWaypoints /\ Fail("TooManyWaypoints", 0)
     \/ /\ Len(request.waypoints) \in 1 .. MaxWaypoints
        /\ IF configs[1] \in Limited
           THEN /\ pc' = "resolve" /\ i' = 1
                /\ UNCHANGED <<request, configs, followed, planned, blends, error>>
           ELSE Fail("GivenConfigurationOutsideLimits", 0)

ResolveWaypoint ==
  LET wp == request.waypoints[i]
  IN /\ pc = "resolve" /\ i <= Len(request.waypoints)
     /\ \/ ResolveProblem(wp) # "none" /\ Fail(ResolveProblem(wp), i)
        \/ /\ ResolveProblem(wp) = "none"
           /\ \E q \in Nearest(Reachable(wp), Seed(wp)) : configs' = Append(configs, q)
           /\ i' = i + 1
           /\ UNCHANGED <<request, pc, followed, planned, blends, error>>

------------------------------------------------------------------------------
(***************************************************************************)
(* Timing.                                                                 *)
(***************************************************************************)
\* clamp_scale: outside (0, 100] percent means no scaling.
ClampScale(s) == IF s > 0 /\ s <= 100 THEN s ELSE 100
Limit(j) == VelocityMax[j] * ClampScale(request.scaling)

Travel(from, to) == [j \in J |-> Abs(to[j] - from[j])]
Longest(d) == Largest({d[j] : j \in J})
Moving(d) == {j \in J : d[j] > 0}

\* joint_segment_speed: the joint that first meets its limit sets the leading axis,
\* the first of them if several do.
Limiting_Leading(d) ==               \* mutant: the limit of the joint that moves most
  CHOOSE j \in Moving(d) : \A k \in J : d[k] <= d[j]
Limiting(d) ==
  CHOOSE j \in Moving(d) :
    \A k \in Moving(d) : /\ Limit(j) * d[k] <= Limit(k) * d[j]
                         /\ k < j => Limit(j) * d[k] < Limit(k) * d[j]
JointSpeed(d) ==
  [num |-> Limit(Limiting(d)) * Longest(d), den |-> d[Limiting(d)]]

\* cartesian_speed_cap: the ceiling, or what some joint allows at some sample.  Both
\* are scaled by a hundred like Limit.
Asked(samples) == {a \in J \X samples : a[2][a[1]] > 0}
LinearSpeed(samples) ==
  LET caps == {[num |-> Ceiling * 100, den |-> 1]}
                \union {[num |-> Limit(a[1]), den |-> a[2][a[1]]] : a \in Asked(samples)}
  IN CHOOSE c \in caps : \A b \in caps : c.num * b.den <= b.num * c.den

Rates(path, from, to) == {Rate[<<path[n], from, to>>] : n \in DOMAIN path}

Segment(wp, from, to) ==
  [q |-> to, linear |-> wp.linear, path |-> followed,
   speed |-> IF wp.linear THEN LinearSpeed(Rates(followed, from, to))
                          ELSE JointSpeed(Travel(from, to))]

StartSegments ==
  /\ pc = "resolve" /\ i > Len(request.waypoints)
  /\ pc' = "segment" /\ i' = 1
  /\ UNCHANGED <<request, configs, followed, planned, blends, error>>

InSegment == pc = "segment" /\ i <= Len(request.waypoints)
Straight == request.waypoints[i].linear
Samples == Line[<<configs[i], configs[i + 1]>>]

\* sample_linear_segment, one sample: the branch nearest the last one, if there is one in
\* the limits, no flip away and not singular.  Whether the last of them is configs[i + 1]
\* is not asked.
Held_First == configs[i]              \* mutant: `seed` is not moved along
Held == IF followed = <<>> THEN configs[i] ELSE followed[Len(followed)]
Branches == Samples[Len(followed) + 1] \intersect Limited
Followable(q) ==
  /\ followed = <<>> \/ Distance(q, Held) <= MaxJump
  /\ Rate[<<q, configs[i], configs[i + 1]>>] # NoRate

FollowLine ==
  /\ InSegment /\ Straight /\ Len(followed) < Len(Samples)
  /\ \/ Branches = {} /\ Fail("LinearSegmentNotFollowable", i)
     \/ \E q \in Nearest(Branches, Held) :
          \/ ~ Followable(q) /\ Fail("LinearSegmentNotFollowable", i)
          \/ /\ Followable(q)
             /\ followed' = Append(followed, q)
             /\ UNCHANGED <<request, pc, i, configs, planned, blends, error>>

\* A joint move that moves no joint has no speed.
Degenerate == ~ Straight /\ Moving(Travel(configs[i], configs[i + 1])) = {}

PlanSegment ==
  /\ InSegment
  /\ Straight => Len(followed) = Len(Samples)
  /\ \/ Degenerate /\ Fail("DegenerateSegment", i)
     \/ /\ ~ Degenerate
        /\ planned' = Append(planned, Segment(request.waypoints[i], configs[i], configs[i + 1]))
        /\ blends' = Append(blends, 0)
        /\ followed' = <<>>
        /\ i' = i + 1
        /\ UNCHANGED <<request, pc, configs, error>>

------------------------------------------------------------------------------
(***************************************************************************)
(* Blending.                                                               *)
(***************************************************************************)
\* CHORD_FRACTION 0.4, in tenths of a millimetre.
ChordShare_Whole(chord) == 10 * chord \* mutant: the whole chord
ChordShare(chord) == 4 * chord
MinUsefulBlend == 10

Deviation(corner, r) == IF corner \in Corners THEN Lesser(r, Budget[corner]) ELSE r

Capped(cap, r) == IF cap = NoCap THEN r ELSE Lesser(r, cap)

BlendRadius_NoFloor(corner, chordIn, chordOut, cap) ==  \* mutant: a negative radius passes
  IF corner = "reversal" THEN 0
  ELSE Capped(cap, Deviation(corner, ChordShare(Lesser(chordIn, chordOut))))
BlendRadius(corner, chordIn, chordOut, cap) ==
  LET r == Capped(cap, Deviation(corner, ChordShare(Lesser(chordIn, chordOut))))
  IN IF corner = "reversal" \/ r < MinUsefulBlend THEN 0 ELSE r

ChordTo(k) == Chord[<<configs[k], configs[k + 1]>>]

\* The last waypoint has no corner: the loop ends before it.
CornerCount == Len(blends) - 1

StartCorners ==
  /\ pc = "segment" /\ i > Len(request.waypoints)
  /\ pc' = "corner" /\ i' = 1
  /\ UNCHANGED <<request, configs, followed, planned, blends, error>>

\* The radius at a waypoint needs the segments on both sides of it; one without
\* Cartesian length has no corner at either end.
CornerRadius ==
  IF ChordTo(i) = 0 \/ ChordTo(i + 1) = 0 THEN 0
  ELSE BlendRadius(Deflection[<<configs[i], configs[i + 1], configs[i + 2]>>],
                   ChordTo(i), ChordTo(i + 1), request.waypoints[i].cap)

Blended_Next == [blends EXCEPT ![i + 1] = CornerRadius]  \* mutant: off by one
Blended == [blends EXCEPT ![i] = CornerRadius]

BlendCorner ==
  /\ pc = "corner" /\ i <= CornerCount
  /\ blends' = Blended
  /\ i' = i + 1
  /\ UNCHANGED <<request, pc, configs, followed, planned, error>>

FinishPlan ==
  /\ pc = "corner" /\ i > CornerCount
  /\ pc' = "planned"
  /\ UNCHANGED <<request, i, configs, followed, planned, blends, error>>

PlanStep ==
  \/ CheckRequest
  \/ ResolveWaypoint
  \/ StartSegments
  \/ FollowLine
  \/ PlanSegment
  \/ StartCorners
  \/ BlendCorner
  \/ FinishPlan
==============================================================================
