\* Two changes of what the robot measures, two messages or reads that go wrong.
CONSTANTS
  Forces <- ThreeForces
  Buffer = 2
  MaxChanges = 2
  MaxLosses = 2
  Epsilon = 1
  RedisFails = FALSE
SPECIFICATION FairSpec
INVARIANTS TypeOK InSync DriftIsBounded FramesFollowJoints
PROPERTIES RedisCatchesUp
