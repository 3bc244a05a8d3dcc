\* A command sent while the dashboard task is not connected.
CONSTANTS
  Requests = {1}
  Sessions <- OneSession
  Stops = {}
  NoCaller = NoCaller
  Kind <- OnePlain
  Capacity = 1
  Facts = 3
  Queries = 4
  MaxPolls = 1
  MaxLosses = 0
  MaxStops = 0
SPECIFICATION ReachableSpec
PROPERTIES MeanwhileIsFailed
\* The system stops once the client has no more requests.
CHECK_DEADLOCK FALSE
