SPECIFICATION Spec
CONSTANTS
  p1 = p1
  p2 = p2
  Peer         <- MCPeer
  WsExtraMax   <- MCWsExtraMax
  EncodableMax <- MCEncodableMax
  Starts       <- MCStarts
INVARIANTS
  BothOrNeither
  NeverBeyondCaps
