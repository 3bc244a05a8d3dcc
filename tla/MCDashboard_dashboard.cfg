\* Three sessions of a client, a goal's stop in the same channel, one connection lost, one
\* protective stop.
CONSTANTS
  s1 = s1
  Requests = {1, 2, 3, 4, 5}
  Sessions <- ThreeSessions
  Stops = {s1}
  NoCaller = NoCaller
  Kind <- OneOfEach
  Capacity = 1
  Facts = 1
  Queries = 2
  MaxPolls = 1
  MaxLosses = 1
  MaxStops = 1
SPECIFICATION FairSpec
INVARIANTS TypeOK ReplyIsItsOwn NoCallerStranded RunsOnceWhenAsked SucceededWasDone ResultBesideAnswer StatusOfThisConnection
PROPERTIES ReleaseWasConfirmed HoldIsSettled EveryRequestAnswered
\* The system stops once the client has no more requests.
CHECK_DEADLOCK FALSE
