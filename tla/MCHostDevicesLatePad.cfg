SPECIFICATION Spec
CONSTANTS
  none = none
  unplugged = unplugged
  t1 = t1
  t2 = t2
  t3 = t3
  t4 = t4
  t5 = t5
  d1 = d1
  d2 = d2
  Texture   <- MCTexture
  NoTexture = none
  Device    <- MCDevice
  NoDevice  = unplugged
  Modes     <- MCModes
  QueueMax  <- MCQueueMax
SYMMETRY Interchangeable
INVARIANT LatePadWorks
