SPECIFICATION FairSpec
CONSTANTS
  Topics = {"set", "ota"}
  LastTopic = "ota"
  TaskErrLimit = 1
  ErrLimit = 2
  MaxPresses = 1
  SlowPhy = TRUE
INVARIANTS TypeOK NoStaleSuccess TopicOnce
PROPERTIES ImplementsSession LossNoticed LostIsRetried
