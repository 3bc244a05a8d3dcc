\* Two trajectories of two waypoints in turn, a cancel and a pause or two pauses anywhere:
\* up to three scripts for one goal.
CONSTANTS
  g1 = g1
  g2 = g2
  Goals = {g1, g2}
  NoGoal = NoGoal
  Kind <- AllTrajectories
  Waypoints = 2
  SafetyModes = {1}
  MaxAttempts = 3
  MaxCancels = 1
  MaxPauses = 2
  MaxInterventions = 2
  Patience = "settled"
  Faults = {"aborted"}
SPECIFICATION Spec
SYMMETRY GoalSymmetry
INVARIANTS CancelWasAsked ProgressIsReal CancelStopsScript ReissueIsGuarded NoWaypointSkipped
PROPERTIES OwnVerdict
\* The system stops once every request is answered and the bounds are spent.
CHECK_DEADLOCK FALSE
