SPECIFICATION Spec
CONSTANTS
  u1 = u1
  u2 = u2
  p1 = p1
  p2 = p2
  p3 = p3
  p4 = p4
  p5 = p5
  Users = {u1, u2}
  Procs = {p1, p2, p3, p4, p5}
  UserOf <- MixedUserOf
  LimitOf <- MixedLimitOf
  WaitQueueExtra = 2
  MayCrash = TRUE
INVARIANTS
  CountsMatchSlots
  LimitRespected
  NoIdleSlotWhileQueued
  NoOrphanSlot
PROPERTY
  ImplementsAdmissionQueue
