SPECIFICATION FairSpec
CONSTANTS
  u1 = u1
  u2 = u2
  p1 = p1
  p2 = p2
  p3 = p3
  p4 = p4
  p5 = p5
  Users = {u1}
  Procs = {p1, p2, p3, p4, p5}
  UserOf <- UniformUserOf
  LimitOf <- UniformLimitOf
  WaitQueueExtra = 2
  MayCrash = FALSE
INVARIANTS
  ServingWithinLimit
PROPERTIES
  DeadSlotFreed
  CallAnswered
