\* A request submitted as soon as the last one is answered.
CONSTANTS
  g1 = g1
  g2 = g2
  Goals = {g1, g2}
  NoGoal = NoGoal
  Kind <- AllTrajectories
  Waypoints = 1
  SafetyModes = {1}
  MaxAttempts = 2
  MaxCancels = 1
  MaxPauses = 0
  MaxInterventions = 1
  Patience = "terminal"
  Faults = {}
SPECIFICATION Spec
SYMMETRY GoalSymmetry
INVARIANTS CancelWasAsked
\* The system stops once every request is answered and the bounds are spent.
CHECK_DEADLOCK FALSE
