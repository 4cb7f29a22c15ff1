SPECIFICATION FairSpec
CHECK_DEADLOCK FALSE
CONSTANTS
  Bridge <- NbBridge
  MstiSeq <- NoMsti
  Port <- NbPort
  Owner <- NbOwner
  LPorts <- NbLPorts
  BridgePri <- NbBridgePri
  Mac <- NbMac
  PortPri <- NbPortPri
  ExtCost <- NbExtCost
  IntCost <- NbIntCost
  Region <- NbRegion
  PortCfg <- PlainCfg
  HelloTime = 1
  FwdDelay = 4
  MaxAge = 6
  MaxHops = 6
  HoldTime <- NbHoldTime
  Peer <- NbPeer
  EnvBpdu <- SilenceBpdu
  WireCap = 0
  Budget <- ClockBudget
INVARIANTS HelloInRange
PROPERTIES HandlersEnd SilenceForgotten ChangeSpreads NewInfoSent AckSent
