SPECIFICATION Spec
CONSTANTS
  Frames = 6
  BmpStep = 2
  MaxOffset = 3
  MinOverlap = 2
  MaxSkew = 2
  NativeWidth = 4
  Extra = 1
  ShareDen = 4
  PresentDen = 20
  SeamRatio = 3
  SeamExcess = 1
  EdgeReach = 5
  XModulus = 16
  Want = 2
  MarginFrames = 1
  Bands <- MCBands
  SceneNames <- MCSceneNames
  Roles <- MCRoles
  FightLen = 6
  RingFrames = 3
  Overshoot = 1
  Steps = {2, 4}
  MaxInvocations = 2
  Addresses = {"mode", "coarse", "live"}
  GateMode = "mode"
  GateCoarse = "coarse"
  GateLiveness = "live"
  AttractOffsets <- MCAttractOffsets
  StateScenes <- MCStateScenes
  SweepLengths = {34, 55, 90}
  Anchors = {31, 33}
  RingLength = 60
  MinTicks = 3
  GateRuns = 2
  Words = {"lat", "sim"}
  Latched = "lat"
  Scrolls <- MCScrolls
  Probes = {1, 2, 4}
  ScrollModulus = 16
  CameraRuns = 5
  Groups = {"a", "b"}
  HuntTicks = 4
INVARIANTS
  GatePassSound
  CentreSound
  HudAnchored
  StaticMapsAreStatic
  CullMeasuresMotion
  HistogramNamesTheCell
  GateSeparates
  CameraIsTheScroll
  HuntBanksItsOwn
CHECK_DEADLOCK FALSE
