\* A pause whose confirmation outlasts the goal.
CONSTANTS
  g1 = g1
  Goals = {g1}
  NoGoal = NoGoal
  Kind <- AllTrajectories
  Waypoints = 1
  SafetyModes = {1}
  MaxAttempts = 1
  MaxCancels = 0
  MaxPauses = 1
  MaxInterventions = 1
  Patience = "none"
  Faults = {}
SPECIFICATION Spec
INVARIANTS HoldHasGoal
\* The system stops once every request is answered and the bounds are spent.
CHECK_DEADLOCK FALSE
