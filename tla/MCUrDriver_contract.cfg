\* A client that submits as soon as it has its answer.
CONSTANTS
  g1 = g1
  g2 = g2
  Goals = {g1, g2}
  NoGoal = NoGoal
  Kind <- Mixed
  Waypoints = 1
  SafetyModes = {1}
  MaxAttempts = 2
  MaxCancels = 0
  MaxPauses = 1
  MaxInterventions = 1
  Patience = "terminal"
  Faults = {"tcp_refused", "aborted", "queue_full", "drain_expires", "dash_lost"}
SPECIFICATION Spec
INVARIANTS RelativeMovesOnce
PROPERTIES ImplementsContract
\* The system stops once every request is answered and the bounds are spent.
CHECK_DEADLOCK FALSE
