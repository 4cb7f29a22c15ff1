SPECIFICATION FairSpec
CHECK_DEADLOCK FALSE
CONSTANTS
  Bridge <- PairBridge
  MstiSeq <- NoMsti
  Port <- OneLink
  Owner <- PairOwner
  LPorts <- OneLinkLPorts
  BridgePri <- PairBridgePri
  Mac <- PairMac
  PortPri <- SameOfPorts
  ExtCost <- SameOfPorts
  IntCost <- PairIntCost
  Region <- OneRegion
  PortCfg <- PairPortCfg
  HelloTime = 1
  FwdDelay = 4
  MaxAge = 6
  MaxHops = 6
  HoldTime <- PairHoldTime
  Peer <- PairPeer
  EnvBpdu <- PairEnvBpdu
  WireCap = 3
  Budget <- RoughBudget
INVARIANTS MachinesAtRest
PROPERTIES Converges
