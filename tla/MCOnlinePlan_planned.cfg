\* Two requests: plans of up to three waypoints of every kind, saved and replayed.
CONSTANTS
  NJoints = 2
  Configs <- AllConfigs
  Limited <- InLimits
  Weight <- Weights
  VelocityMax <- Speeds
  Ceiling = 1
  Chord <- DistanceTable
  Deflection <- CornerTable
  Budget <- Budgets
  Line <- LineTable
  Rate <- RateTable
  MaxJump = 5
  MaxWaypoints = 3
  Requests <- UpToFour
  ToolRequests <- Stored
  Scalings = {0, 50}
  Starts <- TwoPlaces
  Patient = TRUE
  MaxRequests = 2
  MaxRuns = 2
SPECIFICATION Spec
INVARIANTS TypeOK BlendsDoNotOverlap EndsAtRest WithinLimits StraightHoldsItsBranch AdmittedAtItsStart ReplayedAsStored
\* The system stops once the client has made its requests.
CHECK_DEADLOCK FALSE
