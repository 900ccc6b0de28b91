SPECIFICATION Spec
CONSTANTS
  WsExtraMax   <- MCWsExtraMax
  EncodableMax <- MCEncodableMax
  Environments <- MCEnvironments
INVARIANTS
  PatchedOnlyWide
  PatchAgreedWithThisMatch
  BooksMatchImage
  ArmsFromCleanSlate
  SeatMatchesLanding
PROPERTIES
  MatchReturns
  ImplementsGuestImage
