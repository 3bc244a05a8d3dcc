\* A second request while the first is still connecting to the robot.
CONSTANTS
  g1 = g1
  g2 = g2
  Goals = {g1, g2}
  NoGoal = NoGoal
  Kind <- AllTrajectories
  Waypoints = 1
  SafetyModes = {1}
  MaxAttempts = 2
  MaxCancels = 0
  MaxPauses = 0
  MaxInterventions = 0
  Patience = "none"
  Faults = {}
SPECIFICATION Spec
SYMMETRY GoalSymmetry
INVARIANTS OneGoalAtATime
\* The system stops once every request is answered and the bounds are spent.
CHECK_DEADLOCK FALSE
