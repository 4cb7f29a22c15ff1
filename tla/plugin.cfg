SPECIFICATION FairSpec
CONSTANTS
  Cist = cist
  Msti = {msti}
  Vlan = {v}
  Port = {p, q}
  Intf = {x, y}
  NoPort = none
  PortState = {"Blocked", "Forwarding"}
  MaxWrites = 3
INVARIANTS TypeOK CopyIsAsic
PROPERTIES Reconciles Converges
CHECK_DEADLOCK FALSE
