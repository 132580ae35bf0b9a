\* Keys, reads, registrations and resets by the application and by functions.
SPECIFICATION FairSpec
CONSTANTS
  k1 = k1
  k2 = k2
  f1 = f1
  f2 = f2
  Keys = {k1, k2}
  Partial = partial
  Nothing = nothing
  Bursts <- SomeBursts
  QueueSize = 3
  Nodes = {n1, n2}
  NoNode = none
  Wishes <- SomeWishes
  FunctionsMay = {"call"}
INVARIANTS
  TypeOK
  NothingForgotten
PROPERTIES
  ImplementsKeyBuffer
  Delivered
