SPECIFICATION FairSpec
CONSTANTS
  MaxMsti = 2
  Vlan = {v, w}
  Priority = {low, high}
  Cleared = cleared
  MaxChanges = 4
INVARIANTS TypeOK Applied VlansApplied DigestCurrent TreesCounted
PROPERTIES NeverLive Settles
CHECK_DEADLOCK FALSE
