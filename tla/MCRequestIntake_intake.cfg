\* Two requests out of seven, in any order, while the TF tree changes once.
CONSTANTS
  single = single
  path = path
  plan = plan
  stored = stored
  listed = listed
  partial = partial
  unknown = unknown
  f1 = f1
  f2 = f2
  NoGoal = NoGoal
  Tool = Tool
  Absent = Absent
  Identity = Identity
  NoName = NoName
  Goals = {single, path, plan, stored, listed, partial, unknown}
  Ask <- MCAsk
  Frames = {f1, f2}
  here = here
  there = there
  Poses = {here, there}
  Trees <- MCTrees
  Clients = {"none", "terminal", "settled"}
  MaxStored = 2
  MaxRequests = 2
  MaxMoves = 1
  MaxStray <- MCMaxStray
SPECIFICATION FairSpec
INVARIANTS TypeOK WholePathOrNothing ResultBesideState CountedBeforeAnswer StreakIsConsecutive
PROPERTIES EveryRequestAnswered
\* The system stops once the client has made its requests.
CHECK_DEADLOCK FALSE
