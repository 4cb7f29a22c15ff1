SPECIFICATION Spec
CHECK_DEADLOCK FALSE
CONSTANTS
  Bridge <- NbBridge
  MstiSeq <- NbMsti
  Port <- NbPort
  Owner <- NbOwner
  LPorts <- NbLPorts
  BridgePri <- NbBridgePri
  Mac <- NbMac
  PortPri <- NbPortPri
  ExtCost <- NbExtCost
  IntCost <- NbIntCost
  Region <- NbRegion
  PortCfg <- PlainCfg
  HelloTime = 1
  FwdDelay = 4
  MaxAge = 6
  MaxHops = 6
  HoldTime <- NbHoldTime
  Peer <- NbPeer
  EnvBpdu <- RegionBpdu
  WireCap = 0
  Budget <- RegionBudget
INVARIANTS TypeOK MachinesAtRest Published OnlyActivePasses BlockAllAgrees ChangesQueued
PROPERTIES AgreementIsSafe
