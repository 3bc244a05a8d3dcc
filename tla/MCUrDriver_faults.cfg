\* One goal, everything that can go wrong but a pause the dashboard never answers.
CONSTANTS
  g1 = g1
  Goals = {g1}
  NoGoal = NoGoal
  Kind <- AllTrajectories
  Waypoints = 1
  SafetyModes = {1, 3}
  MaxAttempts = 2
  MaxCancels = 1
  MaxPauses = 1
  MaxInterventions = 2
  Patience = "settled"
  Faults = {"rt_lost", "tcp_refused", "aborted", "late_dial", "greet_reset", "queue_full", "stop_refused", "drain_expires"}
SPECIFICATION FairSpec
INVARIANTS TypeOK GuardIsOwned SuccessIsEarned
PROPERTIES RequestTerminates
\* The system stops once every request is answered and the bounds are spent.
CHECK_DEADLOCK FALSE
