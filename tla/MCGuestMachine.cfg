SPECIFICATION MachineSpec
CONSTANTS
  Lines = 10
  Vblank = 6
  PerLine = 3
  MaxSlices = 10
  MaxDrain = 14
  Chains <- MCChains
  NmiTimes = {1, 4}
  IrqTimes = {1, 3, 5}
  RunTimes = {0, 2, 7, 30}
  StallTimes = {0, 3}
  Latency = 2
  Overshoot = 1
  Rates = {1, 2}
  ChannelSets = {1, 2}
  Requests = {1, 3, 5}
  MaxSessions = 2
  ClipMargins <- MCMargins
  Words       <- MCWords
  WsExtraMax   <- MCWsExtraMax
  EncodableMax <- MCEncodableMax
INVARIANTS
  NmiInVblank
  BandsInPlace
  CallbackIsServed
  ClipTypeOK
  AcceptSetExact
  AcceptedXRoundTrips
  NativeCarryKept
  NoOrphan
  BooksAgree
PROPERTIES
  EveryXIsDecided
  ForeignKept
CHECK_DEADLOCK FALSE
