---------------------------- MODULE MCNeighbour ----------------------------
(* One bridge and neighbours that do not run this code: they may send any  *)
(* BPDU of a small repertoire at any time.  Several configurations choose  *)
(* the MSTIs, the repertoire, the port configuration and the budget.       *)
EXTENDS StpdProps, TLC

NbBridge == {1}
NbMsti == <<1>>
NoMsti == <<>>
NbPort == 1..2
GuardPort == 1..3
NbOwner == [p \in Port |-> 1]
NbLPorts == <<<<1, 2>>>>
GuardLPorts == <<<<1, 2, 3>>>>
NbBridgePri == [t \in Tree |-> <<1>>]
NbMac == <<5>>
NbPortPri == [p \in Port |-> 1]
NbExtCost == [p \in Port |-> IF p = 1 THEN 2 ELSE 1]
NbIntCost == [t \in Tree |-> NbExtCost]
NbRegion == <<1>>
NbHoldTime == {10}
NbPeer == [p \in Port |-> NoPort]

PlainCfg == [p \in Port |-> {"autoEdge", "pointToPoint"}]
GuardCfg == <<{"loopGuard", "autoEdge", "pointToPoint"},
              {"restrictedTcn", "pointToPoint"},
              {"restrictedRole", "bpduFilter", "adminEdge"}>>

-----------------------------------------------------------------------------
(* Bridge identifiers: 3 and 4 are better than this bridge's 261, 520 is   *)
(* worse.  The neighbour says the same of the CIST and of MSTI 1.          *)
Heard(type, region, r, rgn, dsn, role, flags) ==
  [type |-> type, src |-> 100, region |-> region,
   trees |-> IF type = "MST" THEN Msti ELSE {},
   pri |-> [t \in Tree |->
             [root |-> IF t = CIST THEN r ELSE 0, ext |-> 0, rgn |-> rgn, int |-> 0,
              dsn |-> dsn, port |-> 4097]],
   times |-> [t \in Tree |->
               [age |-> 0, maxAge |-> 6, fwd |-> 4, hello |-> 1, hops |-> 6]],
   role |-> [t \in Tree |-> role], flags |-> [t \in Tree |-> flags]]

Superior(d)  == Heard("MST", 1, 3, 3, d, "DESIGNATED", {"proposal"})
Nearer == Heard("MST", 1, 2, 2, 2, "DESIGNATED", {"proposal"})
SettledRoot == Heard("MST", 1, 3, 3, 3, "DESIGNATED", {"learning", "forwarding", "tc"})
Foreign   == Heard("MST", 2, 3, 3, 3, "DESIGNATED", {"proposal"})
Inferior  == Heard("MST", 1, 520, 520, 520, "DESIGNATED", {"learning"})
Agreeing  == Heard("MST", 1, 261, 261, 520, "ROOT", {"agreement"})
Legacy    == Heard("CFG", 0, 3, 3, 3, "MASTER", {"tc"})
Notice    == Heard("TCN", 0, 0, 0, 0, "MASTER", {})
\* hello time 0, and a message age beyond the maximum
NoHello   == [Superior(4) EXCEPT !.times[CIST].hello = 0]
TooOld    == [Foreign EXCEPT !.times[CIST].age = 6]

RegionBpdu == <<{Superior(3), Agreeing}, {Superior(4), Inferior}>>
BoundaryBpdu == <<{Foreign, Superior(3), Agreeing}, {SettledRoot}>>
SilenceBpdu == <<{NoHello, Legacy, Notice}, {Superior(3), Notice}>>
GuardBpdu == <<{Superior(4)}, {SettledRoot, Superior(4), Nearer}, {Superior(3)}>>

RegionBudget == [tick |-> 1, link |-> 1, env |-> 3, lose |-> 0, admin |-> 3]
GuardBudget == [tick |-> NoBound, link |-> 0, env |-> 3, lose |-> 0, admin |-> 1]
ClockBudget == [tick |-> NoBound, link |-> 0, env |-> 2, lose |-> 0, admin |-> 1]
=============================================================================
