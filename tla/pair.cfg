SPECIFICATION FairSpec
CHECK_DEADLOCK FALSE
CONSTANTS
  Bridge <- PairBridge
  MstiSeq <- NoMsti
  Port <- TwoLinks
  Owner <- PairOwner
  LPorts <- TwoLinksLPorts
  BridgePri <- PairBridgePri
  Mac <- PairMac
  PortPri <- SameOfPorts
  ExtCost <- SameOfPorts
  IntCost <- PairIntCost
  Region <- OneRegion
  PortCfg <- PairPortCfg
  HelloTime = 2
  FwdDelay = 4
  MaxAge = 6
  MaxHops = 6
  HoldTime <- PairHoldTime
  Peer <- PairPeer
  EnvBpdu <- PairEnvBpdu
  WireCap = 3
  Budget <- CalmBudget
INVARIANTS NoLoop
PROPERTIES Converges
