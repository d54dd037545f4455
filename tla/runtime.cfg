SPECIFICATION FairSpec
CONSTANTS
  p1 = p1
  p2 = p2
  q1 = q1
  q2 = q2
  Queues = {q1, q2}
  Polls = {p1, p2}
  Traffic <- SomeTraffic
  Surfaces = {"workflow"}
  Metas <- SomeMetas
INVARIANTS NoLostWakeup ReadyHonest
PROPERTY StopSettles
CHECK_DEADLOCK FALSE
