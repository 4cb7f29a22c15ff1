----------------------------- MODULE MCLoopback -----------------------------
(* One bridge whose ports 1 and 2 are joined by a cable and whose port 3   *)
(* hears itself.                                                           *)
EXTENDS StpdProps, TLC

LbBridge == {1}
LbMsti == <<>>
LbPort == 1..3
LbOwner == <<1, 1, 1>>
LbLPorts == <<<<1, 2, 3>>>>
LbBridgePri == [t \in {0} |-> <<1>>]
LbMac == <<1>>
LbPortPri == <<1, 1, 1>>
LbExtCost == <<1, 1, 1>>
LbIntCost == [t \in {0} |-> <<1, 1, 1>>]
LbRegion == <<1>>
LbPortCfg == [p \in LbPort |-> {"autoEdge", "pointToPoint"}]
LbHoldTime == {10}
LbPeer == <<2, 1, 3>>
LbEnvBpdu == <<{}, {}, {}>>
LbBudget == [tick |-> NoBound, link |-> 2, env |-> 0, lose |-> 0, admin |-> 1]
=============================================================================
