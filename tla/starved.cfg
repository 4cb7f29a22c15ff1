SPECIFICATION Spec
CHECK_DEADLOCK FALSE
CONSTANTS
  Bridge <- NbBridge
  MstiSeq <- NoMsti
  Port <- GuardPort
  Owner <- NbOwner
  LPorts <- GuardLPorts
  BridgePri <- NbBridgePri
  Mac <- NbMac
  PortPri <- NbPortPri
  ExtCost <- NbExtCost
  IntCost <- NbIntCost
  Region <- NbRegion
  PortCfg <- GuardCfg
  HelloTime = 1
  FwdDelay = 4
  MaxAge = 6
  MaxHops = 6
  HoldTime <- NbHoldTime
  Peer <- NbPeer
  EnvBpdu <- GuardBpdu
  WireCap = 0
  Budget <- GuardBudget
INVARIANTS LoopGuardBlocks
