SPECIFICATION Spec
CONSTANTS
  WsExtraMax   <- MCWsExtraMax
  EncodableMax <- MCEncodableMax
  Environments <- MCEnvironments
INVARIANT
  OfflineClearsPin
