------------------------------- MODULE MCPair -------------------------------
(* Two bridges joined by two links (ports 1 and 2 of the first to ports 3  *)
(* and 4 of the second), in one region without MSTIs or in two regions     *)
(* with one; or joined by a single link that goes down and loses frames.   *)
EXTENDS StpdProps, TLC

PairBridge == {1, 2}
NoMsti == <<>>
OneMsti == <<1>>

TwoLinks == 1..4
OneLink == {1, 3}
PairOwner == [p \in Port |-> IF p < 3 THEN 1 ELSE 2]
TwoLinksLPorts == <<<<1, 2>>, <<3, 4>>>>
OneLinkLPorts == <<<<1>>, <<3>>>>
PairPeer == [p \in Port |-> IF p < 3 THEN p + 2 ELSE p - 2]

PairBridgePri == [t \in Tree |-> <<1, 1>>]
PairMac == <<1, 2>>
SameOfPorts == [p \in Port |-> 1]
PairIntCost == [t \in Tree |-> SameOfPorts]
OneRegion == <<1, 1>>
TwoRegions == <<1, 2>>
PairPortCfg == [p \in Port |-> {"autoEdge", "pointToPoint"}]
PairHoldTime == {10}
PairEnvBpdu == [p \in Port |-> {}]

CalmBudget == [tick |-> NoBound, link |-> 0, env |-> 0, lose |-> 0, admin |-> 2]
RoughBudget == [CalmBudget EXCEPT !.link = 1, !.lose = 1]
=============================================================================
