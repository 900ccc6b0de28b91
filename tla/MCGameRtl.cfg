SPECIFICATION Spec
CONSTANTS
  reset = reset
  loop = loop
  wait = wait
  zero = zero
  mmio = mmio
  file = file
  Code        <- MCCode
  Wild        <- MCWild
  Zero        = zero
  Mmio        = mmio
  ResetVector = reset
  Slot        <- MCSlot
  FieldMax    <- MCFieldMax
INVARIANTS
  TypeOK
  OnOwnTimeline
  OneMoment
  SpritesMatchBackground
  HostStartsCold
