SPECIFICATION FairSpec
CHECK_DEADLOCK FALSE
CONSTANTS
  Bridge <- LbBridge
  MstiSeq <- LbMsti
  Port <- LbPort
  Owner <- LbOwner
  LPorts <- LbLPorts
  BridgePri <- LbBridgePri
  Mac <- LbMac
  PortPri <- LbPortPri
  ExtCost <- LbExtCost
  IntCost <- LbIntCost
  Region <- LbRegion
  PortCfg <- LbPortCfg
  HelloTime = 1
  FwdDelay = 4
  MaxAge = 6
  MaxHops = 6
  HoldTime <- LbHoldTime
  Peer <- LbPeer
  EnvBpdu <- LbEnvBpdu
  WireCap = 3
  Budget <- LbBudget
INVARIANTS NoLoop EchoBlocked
PROPERTIES Converges
