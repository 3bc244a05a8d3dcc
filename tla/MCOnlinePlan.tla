---------------------------- MODULE MCOnlinePlan ----------------------------
(***************************************************************************)
(* A planar arm of two joints for TLC: the tool is at the greater and the  *)
(* lesser of the two angles, in steps of four millimetres, so every pose   *)
(* off the diagonal has two branches.                                      *)
(***************************************************************************)
EXTENDS OnlinePlan

TwoJoints == 1 .. 2
AllConfigs == [TwoJoints -> 0 .. 3]
InLimits == {q \in AllConfigs : q[1] <= 2}
Weights == <<4, 1>>
Speeds == <<1, 3>>

Swap(q) == <<q[2], q[1]>>
Both(q) == {q, Swap(q)}
Tool(q) == IF q[1] >= q[2] THEN q ELSE Swap(q)
DistanceTable ==
  [p \in AllConfigs \X AllConfigs |->
     4 * (Abs(Tool(p[2])[1] - Tool(p[1])[1]) + Abs(Tool(p[2])[2] - Tool(p[1])[2]))]

Dot(a, b, c) == (b[1] - a[1]) * (c[1] - b[1]) + (b[2] - a[2]) * (c[2] - b[2])
Cross(a, b, c) == (b[1] - a[1]) * (c[2] - b[2]) - (b[2] - a[2]) * (c[1] - b[1])
Corner(a, b, c) ==
  CASE Cross(a, b, c) = 0 /\ Dot(a, b, c) >= 0 -> "straight"
    [] Cross(a, b, c) = 0 /\ Dot(a, b, c) < 0 -> "reversal"
    [] Cross(a, b, c) # 0 /\ Dot(a, b, c) > 0 -> "gentle"
    [] Cross(a, b, c) # 0 /\ Dot(a, b, c) = 0 -> "right"
    [] OTHER -> "sharp"
CornerTable ==
  [t \in AllConfigs \X AllConfigs \X AllConfigs |-> Corner(Tool(t[1]), Tool(t[2]), Tool(t[3]))]
Budgets == [c \in Corners |-> CASE c = "gentle" -> 30 [] c = "right" -> 22 [] c = "sharp" -> 8]

\* A line is sampled at its ends and at two places between them.
Sampled(a, b, k) == [j \in TwoJoints |-> a[j] + ((b[j] - a[j]) * k) \div 3]
LineTable ==
  [p \in AllConfigs \X AllConfigs |->
     [k \in 1 .. 4 |-> Both(Sampled(Tool(p[1]), Tool(p[2]), k - 1))]]

\* A line through (1, 1) passes a singularity; a tool that does not travel asks nothing.
RateTable ==
  [t \in AllConfigs \X AllConfigs \X AllConfigs |->
     IF t[1] = <<1, 1>> THEN NoRate
     ELSE IF Tool(t[2]) = Tool(t[3]) THEN <<0, 0>> ELSE <<t[1][1], 1 + t[1][2]>>]

Joints(q, linear, cap) ==
  [given |-> TRUE, branches |-> {q}, preferred |-> NoConfig, linear |-> linear, cap |-> cap]
Pose(branches, preferred, linear) ==
  [given |-> FALSE, branches |-> branches, preferred |-> preferred, linear |-> linear,
   cap |-> NoCap]

GoodWaypoints ==
  { Joints(<<2, 0>>, FALSE, NoCap), Joints(<<1, 2>>, TRUE, 12),
    Pose(Both(<<0, 1>>), <<1, 2>>, FALSE), Pose(Both(<<0, 2>>), NoConfig, TRUE) }
BadWaypoints ==
  { Joints(<<0, 2>>, FALSE, -5),                        \* a negative radius
    Joints(<<3, 0>>, FALSE, NoCap),                     \* outside the limits
    Pose({}, NoConfig, FALSE),                          \* out of reach
    Pose(Both(<<3, 3>>), NoConfig, FALSE) }             \* no branch in the limits

Lists(n, set) == [1 .. n -> set]
UpToFour ==
  Lists(0, GoodWaypoints) \union Lists(1, GoodWaypoints \union BadWaypoints)
    \union Lists(2, GoodWaypoints \union BadWaypoints)
    \union Lists(3, {wp \in GoodWaypoints : wp.given \/ ~ wp.linear})
    \union Lists(4, {Joints(<<2, 0>>, FALSE, NoCap)})
Stored ==
  { <<>>, <<Joints(<<2, 0>>, FALSE, NoCap), Joints(<<1, 2>>, TRUE, 12)>>,
    <<Pose(Both(<<0, 2>>), NoConfig, TRUE), Joints(<<1, 2>>, FALSE, 12)>> }
TwoPlaces == {<<0, 0>>, <<2, 0>>}
==============================================================================
