--------------------------- MODULE StpdMachineTypes ---------------------------
(* The state machines keep the types: first those of a port (PPM, BDM, PRX,  *)
(* PTX, PTI), then those of a tree (PST, TCM, PRS, PIM, PRT).                *)
EXTENDS StpdProps, TLAPS

-----------------------------------------------------------------------------
(* What an action that leaves variables alone keeps.                         *)

LEMMA KeptTypes ==
  /\ PortTypes /\ UNCHANGED commVars => PortTypes'
  /\ TreeTypes /\ UNCHANGED treeVars => TreeTypes'
  /\ BridgeTypes /\ UNCHANGED bridgeVars => BridgeTypes'
  /\ DbTypes /\ UNCHANGED dbVars => DbTypes'
  /\ NetTypes /\ UNCHANGED rx /\ UNCHANGED envVars => NetTypes'
BY DEF PortTypes, TreeTypes, BridgeTypes, DbTypes, NetTypes, commVars, treeVars, bridgeVars,
       dbVars, envVars

\* An entry of a table with a row per tree and a column per port is replaced.
LEMMA TreeEntryType ==
  ASSUME NEW S, NEW f \in [Tree -> [Port -> S]], NEW t \in Tree, NEW p \in Port, NEW x \in S
  PROVE  [f EXCEPT ![t][p] = x] \in [Tree -> [Port -> S]]
OBVIOUS

\* One timer of a port is given a value, for all trees or for one.
LEMMA CtmrType ==
  ASSUME NEW f \in [Port -> PortTimers], NEW p \in Port, NEW n \in Nat
  PROVE  /\ [f EXCEPT ![p].mdelayWhile = n] \in [Port -> PortTimers]
         /\ [f EXCEPT ![p].helloWhen = n] \in [Port -> PortTimers]
         /\ [f EXCEPT ![p].edgeDelayWhile = n] \in [Port -> PortTimers]
BY DEF PortTimers

LEMMA TxCountType ==
  ASSUME NEW f \in [Port -> PortTimers], NEW p \in Port, NEW n \in 0..TxHoldCount
  PROVE  [f EXCEPT ![p].txCount = n] \in [Port -> PortTimers]
BY DEF PortTimers

LEMMA TmrType ==
  ASSUME NEW f \in [Tree -> [Port -> TreeTimers]], NEW t \in Tree, NEW p \in Port, NEW n \in Nat
  PROVE  /\ [f EXCEPT ![t][p].rcvdInfoWhile = n] \in [Tree -> [Port -> TreeTimers]]
         /\ [f EXCEPT ![t][p].tcWhile = n] \in [Tree -> [Port -> TreeTimers]]
BY DEF TreeTimers

\* Flags of a port are set and cleared, for all trees or for one.
LEMMA SetCommType ==
  ASSUME PortTypes, NEW p \in Port, NEW set \in SUBSET CommBit, NEW clr
  PROVE  SetComm(p, set, clr) \in [Port -> SUBSET CommBit]
BY DEF PortTypes, SetComm

LEMMA SetBitsType ==
  ASSUME TreeTypes, NEW t \in Tree, NEW p \in Port, NEW set \in SUBSET TreeBit, NEW clr
  PROVE  SetBits(t, p, set, clr) \in [Tree -> [Port -> SUBSET TreeBit]]
BY DEF TreeTypes, SetBits

\* A timer is counted down, and not below zero.
LEMMA DownType == \A n \in Nat : Down(n) \in Nat /\ Down(n) <= n
BY DEF Down

LEMMA PortsAreNumbers == Port \subseteq Nat /\ CIST \in Tree /\ Msti \subseteq Tree
BY ConstantsAssumption DEF Tree

-----------------------------------------------------------------------------
LEMMA PpmTypes ==
  ASSUME TypeOK, NEW p \in Port, PpmSm(p)
  PROVE  TypeOK'
<1>1. PortTypes
  BY DEF TypeOK
<1>2. TreeTypes' /\ BridgeTypes' /\ DbTypes' /\ NetTypes'
  BY KeptTypes DEF TypeOK, PpmSm, PpmCheckingRstp, PpmSelectingStp, PpmSensing, PpmReturn
<1>3. CASE PpmCheckingRstp(p)
  <2>1. PortTypes'
    BY <1>1, <1>3 DEF PortTypes, PortMachines, PortTimers, PpmCheckingRstp, PpmState, MigrateTime,
       SetComm, CommBit
  <2> QED
    BY <1>2, <2>1 DEF TypeOK
<1>4. CASE PpmSelectingStp(p)
  <2>1. PortTypes'
    BY <1>1, <1>4 DEF PortTypes, PortMachines, PortTimers, PpmSelectingStp, PpmState, MigrateTime,
       SetComm
  <2> QED
    BY <1>2, <2>1 DEF TypeOK
<1>5. CASE PpmSensing(p)
  <2>1. PortTypes'
    BY <1>1, <1>5 DEF PortTypes, PortMachines, PpmSensing, PpmState, SetComm
  <2> QED
    BY <1>2, <2>1 DEF TypeOK
<1>6. CASE PpmReturn(p)
  <2>1. PortTypes'
    BY <1>1, <1>6, KeptTypes DEF PpmReturn
  <2> QED
    BY <1>2, <2>1 DEF TypeOK
<1> QED
  BY <1>3, <1>4, <1>5, <1>6 DEF PpmSm

LEMMA BdmTypes ==
  ASSUME TypeOK, NEW p \in Port, BdmSm(p)
  PROVE  TypeOK'
<1>1. PortTypes
  BY DEF TypeOK
<1>2. TreeTypes' /\ BridgeTypes' /\ DbTypes' /\ NetTypes'
  BY KeptTypes DEF TypeOK, BdmSm, BdmEdge, BdmNotEdge, BdmReturn
<1>3. CASE BdmEdge(p)
  <2>1. PortTypes'
    BY <1>1, <1>3 DEF PortTypes, PortMachines, BdmEdge, BdmState, SetComm, CommBit
  <2> QED
    BY <1>2, <2>1 DEF TypeOK
<1>4. CASE BdmNotEdge(p)
  <2>1. PortTypes'
    BY <1>1, <1>4 DEF PortTypes, PortMachines, BdmNotEdge, BdmState, SetComm
  <2> QED
    BY <1>2, <2>1 DEF TypeOK
<1>5. CASE BdmReturn(p)
  <2>1. PortTypes'
    BY <1>1, <1>5, KeptTypes DEF BdmReturn
  <2> QED
    BY <1>2, <2>1 DEF TypeOK
<1> QED
  BY <1>3, <1>4, <1>5 DEF BdmSm

LEMMA PrxTypes ==
  ASSUME TypeOK, NEW p \in Port, PrxSm(p)
  PROVE  TypeOK'
<1>1. PortTypes /\ TreeTypes
  BY DEF TypeOK
<1>2. BridgeTypes' /\ DbTypes' /\ NetTypes'
  BY KeptTypes DEF TypeOK, PrxSm, PrxDiscard, PrxReceive, PrxReturn, PrxMsti
<1>3. CASE PrxDiscard(p)
  <2>1. PortTypes'
    BY <1>1, <1>3 DEF PortTypes, PortMachines, PortTimers, PrxDiscard, PrxState, MigrateTime,
       SetComm
  <2>2. bits' \in [Tree -> [Port -> SUBSET TreeBit]]
    BY <1>1, <1>3 DEF TreeTypes, PrxDiscard
  <2> QED
    BY <1>1, <1>2, <1>3, <2>1, <2>2 DEF TypeOK, TreeTypes, PrxDiscard
<1>4. CASE PrxReceive(p)
  <2>1. cbits' \in [Port -> SUBSET CommBit]
    BY <1>1, <1>4 DEF PortTypes, PrxReceive, SetComm, CommBit, VersionBit
  <2>2. csm' \in [Port -> PortMachines] /\ ctmr' \in [Port -> PortTimers]
    BY <1>1, <1>4 DEF PortTypes, PortMachines, PortTimers, PrxReceive, PrxState, MigrateTime
  <2>3. bits' \in [Tree -> [Port -> SUBSET TreeBit]]
    BY <1>1, <1>4 DEF TreeTypes, PrxReceive, TreeBit
  <2>4. TreeTypes'
    BY <1>1, <1>4, <2>3 DEF TreeTypes, PrxReceive
  <2> QED
    BY <1>2, <2>1, <2>2, <2>4 DEF TypeOK, PortTypes
<1>5. ASSUME NEW t \in Msti, PrxMsti(t, p)
      PROVE  TypeOK'
  <2>1. bits' \in [Tree -> [Port -> SUBSET TreeBit]]
    BY <1>1, <1>5 DEF TreeTypes, PrxMsti, SetBits
  <2>2. TreeTypes'
    BY <1>1, <1>5, <2>1 DEF TreeTypes, PrxMsti
  <2>3. PortTypes'
    BY <1>1, <1>5, KeptTypes DEF PrxMsti
  <2> QED
    BY <1>2, <2>2, <2>3 DEF TypeOK
<1>6. CASE PrxReturn(p)
  <2>1. PortTypes' /\ TreeTypes'
    BY <1>1, <1>6, KeptTypes DEF PrxReturn
  <2> QED
    BY <1>2, <2>1 DEF TypeOK
<1> QED
  BY <1>3, <1>4, <1>5, <1>6 DEF PrxSm
-----------------------------------------------------------------------------
(* The Port Timers machine and the steps of its TICK action.                 *)

LEMMA PtiStateTypes ==
  ASSUME TypeOK, NEW p \in Port, PtiOneSecond(p) \/ PtiTick(p) \/ PtiReturn(p)
  PROVE  TypeOK'
<1>1. PortTypes
  BY DEF TypeOK
<1>2. TreeTypes' /\ BridgeTypes' /\ DbTypes' /\ NetTypes'
  BY KeptTypes DEF TypeOK, PtiOneSecond, PtiTick, PtiReturn
<1>3. CASE PtiOneSecond(p)
  <2>1. PortTypes'
    BY <1>1, <1>3 DEF PortTypes, PortMachines, PtiOneSecond, PtiState, SetComm
  <2> QED
    BY <1>2, <2>1 DEF TypeOK
<1>4. CASE PtiTick(p)
  <2>1. ctmr[p].edgeDelayWhile \in Nat
    BY <1>1 DEF PortTypes, PortTimers
  <2>2. Down(ctmr[p].edgeDelayWhile) \in Nat
    BY <2>1, DownType
  <2>3. ctmr' \in [Port -> PortTimers]
    BY <1>1, <1>4, <2>2 DEF PortTypes, PortTimers, PtiTick
  <2>4. csm' \in [Port -> PortMachines] /\ cbits' \in [Port -> SUBSET CommBit]
    BY <1>1, <1>4 DEF PortTypes, PortMachines, PtiTick, PtiState, SetComm, CommBit
  <2> QED
    BY <1>2, <2>3, <2>4 DEF TypeOK, PortTypes
<1>5. CASE PtiReturn(p)
  <2>1. PortTypes'
    BY <1>1, <1>5, KeptTypes DEF PtiReturn
  <2> QED
    BY <1>2, <2>1 DEF TypeOK
<1> QED
  BY <1>3, <1>4, <1>5

LEMMA TickPortTypes ==
  ASSUME TypeOK, NEW p \in Port, TickHello(p) \/ TickMdelay(p)
  PROVE  TypeOK'
<1>1. PortTypes
  BY DEF TypeOK
<1>2. TreeTypes' /\ BridgeTypes' /\ DbTypes' /\ NetTypes'
  BY KeptTypes DEF TypeOK, TickHello, TickMdelay
<1>3. ctmr[p].helloWhen \in Nat /\ ctmr[p].mdelayWhile \in Nat
  BY <1>1 DEF PortTypes, PortTimers
<1>4. Down(ctmr[p].helloWhen) \in Nat /\ Down(ctmr[p].mdelayWhile) \in Nat
  BY <1>3, DownType
<1>5. ctmr' \in [Port -> PortTimers]
  BY <1>1, <1>4 DEF PortTypes, PortTimers, TickHello, TickMdelay
<1> QED
  BY <1>1, <1>2, <1>5 DEF TypeOK, PortTypes, TickHello, TickMdelay

LEMMA TickTreeTypes ==
  ASSUME TypeOK, NEW t \in Tree, NEW p \in Port, TickTree(t, p)
  PROVE  TypeOK'
<1>1. PortTypes /\ TreeTypes
  BY DEF TypeOK
<1>2. BridgeTypes' /\ DbTypes' /\ NetTypes'
  BY KeptTypes DEF TypeOK, TickTree
<1>3. ctmr' \in [Port -> PortTimers]
  <2>1. ctmr[p].txCount \in 0..TxHoldCount
    BY <1>1 DEF PortTypes, PortTimers
  <2>2. Down(ctmr[p].txCount) \in 0..TxHoldCount
    BY <2>1, DownType DEF TxHoldCount
  <2> QED
    BY <1>1, <2>2 DEF PortTypes, PortTimers, TickTree
<1>4. tmr' \in [Tree -> [Port -> TreeTimers]]
  <2> DEFINE r == [tmr[t][p] EXCEPT
                     !.tcWhile = Down(@), !.rrWhile = Down(@), !.rbWhile = Down(@),
                     !.fdWhile = IF FdRuns(t, p) THEN Down(@) ELSE @]
  <2>1. tmr \in [Tree -> [Port -> TreeTimers]] /\ tmr[t][p] \in TreeTimers
    BY <1>1 DEF TreeTypes
  <2>2. /\ Down(tmr[t][p].tcWhile) \in Nat /\ Down(tmr[t][p].rrWhile) \in Nat
        /\ Down(tmr[t][p].rbWhile) \in Nat /\ Down(tmr[t][p].fdWhile) \in Nat
    BY <2>1, DownType DEF TreeTimers
  <2>3. r \in TreeTimers
    BY <2>1, <2>2 DEF TreeTimers
  <2>4. tmr' = [tmr EXCEPT ![t][p] = r]
    BY Zenon DEF TickTree
  <2> HIDE DEF r
  <2> QED
    BY <2>1, <2>3, <2>4
<1>5. PortTypes' /\ TreeTypes'
  BY <1>1, <1>3, <1>4 DEF PortTypes, TreeTypes, TickTree
<1> QED
  BY <1>2, <1>5 DEF TypeOK

LEMMA TickInfoTypes ==
  ASSUME TypeOK, NEW t \in Tree, NEW p \in Port, TickInfo(t, p)
  PROVE  TypeOK'
<1>1. PortTypes /\ TreeTypes
  BY DEF TypeOK
<1>2. PortTypes' /\ BridgeTypes' /\ DbTypes' /\ NetTypes'
  BY KeptTypes DEF TypeOK, TickInfo
<1>3. bits' \in [Tree -> [Port -> SUBSET TreeBit]]
  BY <1>1 DEF TreeTypes, TickInfo, SetBits, TreeBit
<1>4. tmr' \in [Tree -> [Port -> TreeTimers]]
  <2>1. tmr \in [Tree -> [Port -> TreeTimers]] /\ tmr[t][p].rcvdInfoWhile \in Nat
    BY <1>1 DEF TreeTypes, TreeTimers
  <2>2. Down(tmr[t][p].rcvdInfoWhile) \in Nat
    BY <2>1, DownType
  <2>3. tmr' = [tmr EXCEPT ![t][p].rcvdInfoWhile = Down(tmr[t][p].rcvdInfoWhile)]
    BY <2>1 DEF TickInfo
  <2> QED
    BY <2>1, <2>2, <2>3, TmrType, Zenon
<1> QED
  BY <1>1, <1>2, <1>3, <1>4 DEF TypeOK, TreeTypes, TickInfo

LEMMA PtiTypes ==
  ASSUME TypeOK, NEW p \in Port, PtiSm(p)
  PROVE  TypeOK'
BY PtiStateTypes, TickPortTypes, TickTreeTypes, TickInfoTypes DEF PtiSm

-----------------------------------------------------------------------------
(* Transmission.  A BPDU is built from what the port holds.                  *)

LEMMA MstBpduType ==
  ASSUME TypeOK, NEW p \in Port
  PROVE  MstBpdu(p) \in Bpdu
<1>1. PortTypes /\ TreeTypes
  BY DEF TypeOK
<1>2. p \in Nat /\ CIST \in Tree /\ Msti \subseteq Tree /\ Region[Owner[p]] \in Nat
  BY PortsAreNumbers, ConstantsAssumption
<1>3. \A t \in Tree : /\ vec[t][p].dsnPri \in Vector /\ vec[t][p].dsnTimes \in Times
                      /\ vec[t][p].portTimes \in Times
  BY <1>1 DEF TreeTypes, PortVectors
<1>4. \A t \in Tree : TxTimes(t, p) \in Times
  BY <1>2, <1>3 DEF TxTimes, Times
<1>5. \A t \in Tree : TxRole(info[t][p].role) \in BpduRole
  BY <1>1 DEF TreeTypes, PortInfo, Role, TxRole, BpduRole
<1>6. \A t \in Tree : TxFlags(t, p) \in SUBSET BpduFlag
  BY DEF TxFlags, BpduFlag
<1> QED
  BY <1>2, <1>3, <1>4, <1>5, <1>6 DEF MstBpdu, Bpdu, BpduType

LEMMA ConfigBpduType ==
  ASSUME TypeOK, NEW p \in Port
  PROVE  ConfigBpdu(p) \in Bpdu
<1> DEFINE m == MstBpdu(p)
           id == vec[CIST][p].dsnPri.dsn
           fs == (m.flags[CIST] \cap {"tc"}) \cup (IF Comm(p, "tcAck") THEN {"tcAck"} ELSE {})
           c == [m EXCEPT !.type = "CFG", !.region = 0, !.trees = {}, !.role[CIST] = "MASTER",
                          !.pri[CIST].rgn = id, !.flags[CIST] = fs]
<1>1. m \in Bpdu /\ CIST \in Tree
  BY MstBpduType, PortsAreNumbers
<1>2. vec[CIST][p].dsnPri \in Vector
  BY <1>1 DEF TypeOK, TreeTypes, PortVectors
<1>3. id \in Nat
  BY <1>2 DEF Vector
<1>4. fs \in SUBSET BpduFlag
  BY DEF BpduFlag
<1>5. ConfigBpdu(p) = c
  BY DEF ConfigBpdu
<1> HIDE DEF m, id, fs
<1>6. /\ [m.role EXCEPT ![CIST] = "MASTER"] \in [Tree -> BpduRole]
      /\ [m.pri EXCEPT ![CIST].rgn = id] \in [Tree -> Vector]
      /\ [m.flags EXCEPT ![CIST] = fs] \in [Tree -> SUBSET BpduFlag]
  BY <1>1, <1>3, <1>4 DEF Bpdu, BpduRole, Vector
<1>7. c \in Bpdu
  BY <1>1, <1>6 DEF Bpdu, BpduType
<1> QED
  BY <1>5, <1>7

LEMMA TcnBpduType ==
  ASSUME TypeOK, NEW p \in Port
  PROVE  TcnBpdu(p) \in Bpdu
BY MstBpduType DEF TcnBpdu, Bpdu, BpduType

LEMMA SendType ==
  ASSUME TypeOK, NEW p \in Port, NEW bpdu \in Bpdu, Send(p, bpdu)
  PROVE  wire' \in [Port -> Seq(Bpdu)]
<1>1. wire \in [Port -> Seq(Bpdu)]
  BY DEF TypeOK, NetTypes
<1>2. CASE wire' = wire
  BY <1>1, <1>2
<1>3. CASE wire' # wire
  <2>1. Peer[p] \in Port /\ wire' = [wire EXCEPT ![Peer[p]] = Append(@, bpdu)]
    BY <1>3, ConstantsAssumption DEF Send
  <2>2. Append(wire[Peer[p]], bpdu) \in Seq(Bpdu)
    BY <1>1, <2>1
  <2> QED
    BY <1>1, <2>1, <2>2
<1> QED
  BY <1>2, <1>3

\* A BPDU leaves TRANSMIT_CONFIG, TRANSMIT_TCN and TRANSMIT_RSTP, which are
\* entered from IDLE, and only below the transmit hold count.
LEMMA TransmitsBelowHoldCount ==
  ASSUME TypeOK, NEW p \in Port,
         NEW s \in {"TRANSMIT_CONFIG", "TRANSMIT_TCN", "TRANSMIT_RSTP"}, PtxEnters(p, s)
  PROVE  ctmr[p].txCount + 1 \in 0..TxHoldCount
<1>1. ctmr[p].txCount \in 0..TxHoldCount
  BY DEF TypeOK, PortTypes, PortTimers
<1>2. PtxCond(p) = s
  BY DEF PtxEnters, Target, PtxGeneral, Stay
<1>3. PtxIdleCond(p) = s
  BY <1>2 DEF PtxCond, Stay
<1>4. ~(ctmr[p].txCount >= TxHoldCount)
  BY <1>3 DEF PtxIdleCond, Stay
<1> QED
  BY <1>1, <1>4 DEF TxHoldCount

LEMMA TransmittedTypes ==
  ASSUME TypeOK, NEW p \in Port,
         NEW s \in {"TRANSMIT_CONFIG", "TRANSMIT_TCN", "TRANSMIT_RSTP"},
         PtxEnters(p, s), Transmitted(p, s), NEW clr, cbits' = SetComm(p, {}, clr),
         wire' \in [Port -> Seq(Bpdu)]
  PROVE  TypeOK'
<1>1. PortTypes /\ NetTypes
  BY DEF TypeOK
<1>2. TreeTypes' /\ BridgeTypes' /\ DbTypes'
  BY KeptTypes DEF TypeOK, Transmitted
<1>3. cbits' \in [Port -> SUBSET CommBit]
  BY <1>1 DEF PortTypes, SetComm
<1>4. csm' \in [Port -> PortMachines]
  BY <1>1 DEF PortTypes, PortMachines, PtxState, Transmitted
<1>5. ctmr' \in [Port -> PortTimers]
  <2>1. ctmr \in [Port -> PortTimers] /\ ctmr[p].txCount + 1 \in 0..TxHoldCount
    BY <1>1, TransmitsBelowHoldCount DEF PortTypes
  <2>2. ctmr' = [ctmr EXCEPT ![p].txCount = ctmr[p].txCount + 1]
    BY <2>1 DEF Transmitted
  <2> QED
    BY <2>1, <2>2, TxCountType
<1>6. NetTypes'
  BY <1>1 DEF NetTypes, Transmitted
<1> QED
  BY <1>2, <1>3, <1>4, <1>5, <1>6 DEF TypeOK, PortTypes

LEMMA PtxQuietTypes ==
  ASSUME TypeOK, NEW p \in Port, PtxInit(p) \/ PtxIdle(p) \/ PtxPeriodic(p) \/ PtxReturn(p)
  PROVE  TypeOK'
<1>1. PortTypes
  BY DEF TypeOK
<1>2. TreeTypes' /\ BridgeTypes' /\ DbTypes' /\ NetTypes'
  BY KeptTypes DEF TypeOK, PtxInit, PtxIdle, PtxPeriodic, PtxReturn
<1>3. CASE PtxInit(p)
  <2>1. ctmr' \in [Port -> PortTimers]
    BY <1>1, <1>3, 0 \in 0..TxHoldCount, TxCountType DEF PortTypes, PtxInit, TxHoldCount
  <2>2. csm' \in [Port -> PortMachines] /\ cbits' \in [Port -> SUBSET CommBit]
    BY <1>1, <1>3 DEF PortTypes, PortMachines, PtxInit, PtxState, SetComm, CommBit
  <2> QED
    BY <1>2, <2>1, <2>2 DEF TypeOK, PortTypes
<1>4. CASE PtxIdle(p)
  <2>1. vec[CIST][p].portTimes.hello \in Nat
    BY PortsAreNumbers DEF TypeOK, TreeTypes, PortVectors, Times
  <2>2. PortTypes'
    BY <1>1, <1>4, <2>1 DEF PortTypes, PortMachines, PortTimers, PtxIdle, PtxState
  <2> QED
    BY <1>2, <2>2 DEF TypeOK
<1>5. CASE PtxPeriodic(p)
  <2>1. {NewInfo(t) : t \in {u \in Tree : Refreshed(u, p)}} \in SUBSET CommBit
    BY DEF NewInfo, CommBit
  <2>2. cbits' \in [Port -> SUBSET CommBit]
    BY <1>1, <1>5, <2>1, SetCommType, Zenon DEF PtxPeriodic
  <2>3. csm' \in [Port -> PortMachines] /\ ctmr' = ctmr
    BY <1>1, <1>5 DEF PortTypes, PortMachines, PtxPeriodic, PtxState
  <2> QED
    BY <1>1, <1>2, <2>2, <2>3 DEF TypeOK, PortTypes
<1>6. CASE PtxReturn(p)
  <2>1. PortTypes'
    BY <1>1, <1>6, KeptTypes DEF PtxReturn
  <2> QED
    BY <1>2, <2>1 DEF TypeOK
<1> QED
  BY <1>3, <1>4, <1>5, <1>6

LEMMA PtxTypes ==
  ASSUME TypeOK, NEW p \in Port, PtxSm(p)
  PROVE  TypeOK'
<1>1. wire \in [Port -> Seq(Bpdu)]
  BY DEF TypeOK, NetTypes
<1>2. CASE PtxInit(p) \/ PtxIdle(p) \/ PtxPeriodic(p) \/ PtxReturn(p)
  BY <1>2, PtxQuietTypes
<1>3. CASE PtxConfig(p)
  <2>1. wire' \in [Port -> Seq(Bpdu)]
    BY <1>3, ConfigBpduType, SendType DEF PtxConfig
  <2> QED
    BY <1>3, <2>1, TransmittedTypes DEF PtxConfig
<1>4. CASE PtxTcn(p)
  <2>1. wire' \in [Port -> Seq(Bpdu)]
    BY <1>4, TcnBpduType, SendType DEF PtxTcn
  <2> QED
    BY <1>4, <2>1, TransmittedTypes DEF PtxTcn
<1>5. CASE PtxRstp(p)
  <2>1. wire' \in [Port -> Seq(Bpdu)]
    BY <1>1, <1>5, MstBpduType, SendType DEF PtxRstp
  <2> QED
    BY <1>5, <2>1, TransmittedTypes DEF PtxRstp
<1> QED
  BY <1>2, <1>3, <1>4, <1>5 DEF PtxSm

-----------------------------------------------------------------------------
\* Fields of the records of a tree's ports.
LEMMA FsmType ==
  ASSUME NEW f \in [Tree -> [Port -> TreeMachines]], NEW t \in Tree, NEW p \in Port, NEW s
  PROVE  /\ s \in PimState => [f EXCEPT ![t][p].pim = s] \in [Tree -> [Port -> TreeMachines]]
         /\ s \in PrtState => [f EXCEPT ![t][p].prt = s] \in [Tree -> [Port -> TreeMachines]]
         /\ s \in PstState => [f EXCEPT ![t][p].pst = s] \in [Tree -> [Port -> TreeMachines]]
         /\ s \in TcmState => [f EXCEPT ![t][p].tcm = s] \in [Tree -> [Port -> TreeMachines]]
BY DEF TreeMachines

LEMMA InfoType ==
  ASSUME NEW f \in [Tree -> [Port -> PortInfo]], NEW t \in Tree, NEW p \in Port, NEW x
  PROVE  /\ x \in InfoIs => [f EXCEPT ![t][p].infoIs = x] \in [Tree -> [Port -> PortInfo]]
         /\ x \in RcvdInfo => [f EXCEPT ![t][p].rcvdInfo = x] \in [Tree -> [Port -> PortInfo]]
         /\ x \in Role => [f EXCEPT ![t][p].role = x] \in [Tree -> [Port -> PortInfo]]
BY DEF PortInfo

LEMMA OwnerType == \A p \in Port : Owner[p] \in Bridge
BY ConstantsAssumption

\* A message joins the queue of a bridge.
LEMMA EnqueuedType ==
  ASSUME NEW f \in [Bridge -> Seq(Tree)], NEW b \in Bridge, NEW t \in Tree
  PROVE  [f EXCEPT ![b] = Enqueued(@, t)] \in [Bridge -> Seq(Tree)]
<1>1. Enqueued(f[b], t) \in Seq(Tree)
  BY DEF Enqueued
<1>2. [f EXCEPT ![b] = Enqueued(@, t)] = [f EXCEPT ![b] = Enqueued(f[b], t)]
  OBVIOUS
<1> QED
  BY <1>1, <1>2

-----------------------------------------------------------------------------
(* Port State Transition                                                     *)

LEMMA PstMoveTypes ==
  ASSUME TypeOK, NEW t \in Tree, NEW p \in Port,
         NEW s \in {"DISCARDING", "LEARNING", "FORWARDING"}, NEW c \in {"Blk", "Lrn", "Fwd"},
         NEW set \in SUBSET TreeBit, NEW clr, PstMoves(t, p, s, set, clr), Queue(t, p, c)
  PROVE  TypeOK'
<1>1. TreeTypes /\ DbTypes
  BY DEF TypeOK
<1>2. PortTypes' /\ BridgeTypes' /\ NetTypes'
  BY KeptTypes DEF TypeOK, PstMoves
<1>3. fsm' \in [Tree -> [Port -> TreeMachines]]
  <2>1. fsm \in [Tree -> [Port -> TreeMachines]] /\ s \in PstState
    BY <1>1 DEF TreeTypes, PstState
  <2>2. fsm' = [fsm EXCEPT ![t][p].pst = s]
    BY DEF PstMoves
  <2> QED
    BY <2>1, <2>2, FsmType, Zenon
<1>4. bits' \in [Tree -> [Port -> SUBSET TreeBit]]
  BY <1>1, SetBitsType, Zenon DEF PstMoves
<1>5. TreeTypes'
  BY <1>1, <1>3, <1>4 DEF TreeTypes, PstMoves
<1>6. pend' \in [Tree -> [Port -> {"none", "Blk", "Lrn", "Fwd"}]]
  BY <1>1 DEF DbTypes, Queue
<1>7. treeQ' \in [Bridge -> Seq(Tree)]
  BY <1>1, OwnerType, EnqueuedType, Zenon DEF DbTypes, Queue
<1>8. DbTypes'
  BY <1>1, <1>6, <1>7, Zenon DEF DbTypes, Queue
<1> QED
  BY <1>2, <1>5, <1>8 DEF TypeOK

LEMMA PstTypes ==
  ASSUME TypeOK, NEW t \in Tree, NEW p \in Port, PstSm(t, p)
  PROVE  TypeOK'
<1>1. CASE PstDiscarding(t, p)
  BY <1>1, PstMoveTypes, {} \in SUBSET TreeBit DEF PstDiscarding
<1>2. CASE PstLearning(t, p)
  BY <1>2, PstMoveTypes, {"learning"} \in SUBSET TreeBit DEF PstLearning, TreeBit
<1>3. CASE PstForwarding(t, p)
  BY <1>3, PstMoveTypes, {"forwarding"} \in SUBSET TreeBit DEF PstForwarding, TreeBit
<1>4. CASE PstReturn(t, p)
  BY <1>4, KeptTypes DEF PstReturn, TypeOK
<1> QED
  BY <1>1, <1>2, <1>3, <1>4 DEF PstSm

-----------------------------------------------------------------------------
(* Topology Change                                                           *)

LEMMA NewTcWhileType ==
  ASSUME TypeOK, NEW t \in Tree, NEW p \in Port
  PROVE  NewTcWhile(t, p) \in Nat
<1>1. tmr[t][p].tcWhile \in Nat
  BY DEF TypeOK, TreeTypes, TreeTimers
<1>2. vec[CIST][p].portTimes.hello \in Nat
  BY PortsAreNumbers DEF TypeOK, TreeTypes, PortVectors, Times
<1>3. RootTimes(CIST, p) \in Times
  BY PortsAreNumbers, OwnerType DEF TypeOK, BridgeTypes, RootRecord, RootTimes
<1> QED
  BY <1>1, <1>2, <1>3 DEF NewTcWhile, Times

LEMMA FlushTypes ==
  ASSUME DbTypes, NEW t \in Tree, NEW p \in Port, Flush(t, p)
  PROVE  DbTypes'
<1>1. CASE Comm(p, "operEdge")
  BY <1>1, KeptTypes DEF Flush
<1>2. CASE ~Comm(p, "operEdge")
  <2>1. /\ flushReq' = [flushReq EXCEPT ![t][p] = TRUE]
        /\ treeQ' = [treeQ EXCEPT ![Owner[p]] = Enqueued(@, t)]
        /\ UNCHANGED <<pend, db, blockAll>>
    BY <1>2 DEF Flush
  <2>2. flushReq \in [Tree -> [Port -> BOOLEAN]] /\ treeQ \in [Bridge -> Seq(Tree)]
    BY DEF DbTypes
  <2>3. flushReq' \in [Tree -> [Port -> BOOLEAN]]
    BY <2>1, <2>2, TreeEntryType, TRUE \in BOOLEAN, Zenon
  <2>4. treeQ' \in [Bridge -> Seq(Tree)]
    BY <2>1, <2>2, OwnerType, EnqueuedType, Zenon
  <2> QED
    BY <2>1, <2>3, <2>4, Zenon DEF DbTypes
<1> QED
  BY <1>1, <1>2

\* Every action sets the state, at most tcWhile and some flags, and may flush.
LEMMA TcmMoveTypes ==
  ASSUME TypeOK, NEW t \in Tree, NEW p \in Port, NEW s \in TcmState, TcmTo(t, p, s), TcmKeeps,
         UNCHANGED cbits \/ cbits' \in [Port -> SUBSET CommBit],
         UNCHANGED bits \/ bits' \in [Tree -> [Port -> SUBSET TreeBit]],
         UNCHANGED tmr \/ tmr' \in [Tree -> [Port -> TreeTimers]],
         UNCHANGED dbVars \/ Flush(t, p)
  PROVE  TypeOK'
<1>1. PortTypes /\ TreeTypes /\ DbTypes
  BY DEF TypeOK
<1>2. BridgeTypes' /\ NetTypes'
  BY KeptTypes DEF TypeOK, TcmKeeps
<1>3. fsm' \in [Tree -> [Port -> TreeMachines]]
  BY <1>1, FsmType, Zenon DEF TreeTypes, TcmTo
<1>4. TreeTypes' /\ PortTypes'
  BY <1>1, <1>3 DEF TreeTypes, PortTypes, TcmKeeps
<1>5. DbTypes'
  BY <1>1, FlushTypes, KeptTypes
<1> QED
  BY <1>2, <1>4, <1>5 DEF TypeOK

LEMMA TcmTypes ==
  ASSUME TypeOK, NEW t \in Tree, NEW p \in Port, TcmSm(t, p)
  PROVE  TypeOK'
<1>1. PortTypes /\ TreeTypes
  BY DEF TypeOK
<1>2. {} \in SUBSET CommBit /\ {"tcAck"} \in SUBSET CommBit /\ {NewInfo(t)} \in SUBSET CommBit
      /\ NewTcInfo(t, p) \in SUBSET CommBit /\ {} \in SUBSET TreeBit
      /\ {"tcProp"} \in SUBSET TreeBit
  BY DEF NewInfo, NewTcInfo, CommBit, TreeBit
<1>3. \A n \in Nat : [tmr EXCEPT ![t][p].tcWhile = n] \in [Tree -> [Port -> TreeTimers]]
  BY <1>1, TmrType, Zenon DEF TreeTypes
<1>4. /\ [tmr EXCEPT ![t][p].tcWhile = 0] \in [Tree -> [Port -> TreeTimers]]
      /\ [tmr EXCEPT ![t][p].tcWhile = NewTcWhile(t, p)] \in [Tree -> [Port -> TreeTimers]]
  BY <1>3, NewTcWhileType, 0 \in Nat, Zenon
<1>5. CASE TcmInactive(t, p)
  <2>1. cbits' = cbits \/ cbits' \in [Port -> SUBSET CommBit]
    BY <1>1, <1>2, <1>5, SetCommType, Zenon DEF TcmInactive
  <2> QED
    BY <1>4, <1>5, <2>1, TcmMoveTypes, "INACTIVE" \in TcmState, Zenon DEF TcmInactive, TcmState
<1>6. CASE TcmLearning(t, p)
  <2>1. cbits' = cbits \/ cbits' \in [Port -> SUBSET CommBit]
    BY <1>1, <1>2, <1>6, SetCommType, Zenon DEF TcmLearning
  <2>2. bits' \in [Tree -> [Port -> SUBSET TreeBit]]
    BY <1>1, <1>2, <1>6, SetBitsType, Zenon DEF TcmLearning
  <2> QED
    BY <1>6, <2>1, <2>2, TcmMoveTypes, "LEARNING" \in TcmState, Zenon DEF TcmLearning, TcmState
<1>7. CASE TcmDetected(t, p)
  <2>1. cbits' \in [Port -> SUBSET CommBit]
    BY <1>1, <1>2, <1>7, SetCommType, Zenon DEF TcmDetected
  <2> QED
    BY <1>4, <1>7, <2>1, TcmMoveTypes, "DETECTED" \in TcmState, Zenon DEF TcmDetected, TcmState
<1>8. CASE TcmActive(t, p)
  BY <1>8, TcmMoveTypes, "ACTIVE" \in TcmState, Zenon DEF TcmActive, TcmState
<1>9. CASE TcmNotifiedTcn(t, p)
  <2>1. cbits' \in [Port -> SUBSET CommBit]
    BY <1>1, <1>2, <1>9, SetCommType, Zenon DEF TcmNotifiedTcn
  <2> QED
    BY <1>4, <1>9, <2>1, TcmMoveTypes, "NOTIFIED_TCN" \in TcmState, Zenon
       DEF TcmNotifiedTcn, TcmState
<1>10. CASE TcmNotifiedTc(t, p)
  <2>1. cbits' = cbits \/ cbits' \in [Port -> SUBSET CommBit]
    BY <1>1, <1>2, <1>10, SetCommType, Zenon DEF TcmNotifiedTc
  <2>2. bits' \in [Tree -> [Port -> SUBSET TreeBit]]
    BY <1>1, <1>2, <1>10, SetBitsType, Zenon DEF TcmNotifiedTc
  <2> QED
    BY <1>10, <2>1, <2>2, TcmMoveTypes, "NOTIFIED_TC" \in TcmState, Zenon
       DEF TcmNotifiedTc, TcmState
<1>11. CASE TcmPropagating(t, p)
  <2>1. cbits' \in [Port -> SUBSET CommBit]
    BY <1>1, <1>2, <1>11, SetCommType, Zenon DEF TcmPropagating
  <2>2. bits' \in [Tree -> [Port -> SUBSET TreeBit]]
    BY <1>1, <1>2, <1>11, SetBitsType, Zenon DEF TcmPropagating
  <2> QED
    BY <1>4, <1>11, <2>1, <2>2, TcmMoveTypes, "PROPAGATING" \in TcmState, Zenon
       DEF TcmPropagating, TcmState
<1>12. CASE TcmAcknowledged(t, p)
  <2>1. cbits' \in [Port -> SUBSET CommBit]
    BY <1>1, <1>2, <1>12, SetCommType, Zenon DEF TcmAcknowledged
  <2> QED
    BY <1>4, <1>12, <2>1, TcmMoveTypes, "ACKNOWLEDGED" \in TcmState, Zenon
       DEF TcmAcknowledged, TcmState
<1>13. CASE TcmReturn(t, p)
  BY <1>13, KeptTypes DEF TcmReturn, TypeOK
<1>14. CASE TcProp(t, p)
  <2>1. bits' \in [Tree -> [Port -> SUBSET TreeBit]]
    BY <1>1, <1>2, <1>14, SetBitsType, Zenon DEF TcProp
  <2>2. PortTypes' /\ BridgeTypes' /\ DbTypes' /\ NetTypes'
    BY <1>14, KeptTypes DEF TypeOK, TcProp
  <2> QED
    BY <1>1, <1>14, <2>1, <2>2 DEF TypeOK, TreeTypes, TcProp
<1> QED
  BY <1>5, <1>6, <1>7, <1>8, <1>9, <1>10, <1>11, <1>12, <1>13, <1>14 DEF TcmSm

-----------------------------------------------------------------------------
(* Port Role Selection                                                       *)

LEMMA BridgeVectorTypes ==
  ASSUME NEW t \in Tree, NEW b \in Bridge
  PROVE  /\ BridgeId(t, b) \in Nat
         /\ BridgePriority(t, b) \in Vector
         /\ BridgeTimes(t) \in Times
<1>1. BridgePri[t][b] \in Nat /\ Mac[b] \in Nat /\ MaxAge \in Nat /\ FwdDelay \in Nat
      /\ MaxHops \in Nat
  BY ConstantsAssumption
<1>2. BridgeId(t, b) \in Nat
  BY <1>1 DEF BridgeId, MacSpace
<1>3. BridgePriority(t, b) \in Vector
  BY <1>2 DEF BridgePriority, Vector
<1>4. BridgeTimes(t) \in Times
  BY <1>1 DEF BridgeTimes, NoTimes, Times
<1> QED
  BY <1>2, <1>3, <1>4

LEMMA PortIdType == \A p \in Port : PortId(p) \in Nat
<1>1. \A p \in Port : PortPri[p] \in Nat /\ p \in Nat
  BY ConstantsAssumption
<1> QED
  BY <1>1 DEF PortId, PortSpace

LEMMA RootPathPriType ==
  ASSUME TypeOK, NEW t \in Tree, NEW q \in Port
  PROVE  RootPathPri(t, q) \in Vector
<1>1. vec[t][q].portPri \in Vector
  BY DEF TypeOK, TreeTypes, PortVectors
<1>2. ExtCost[q] \in Nat /\ IntCost[t][q] \in Nat
  BY ConstantsAssumption
<1>3. BridgeId(t, Owner[q]) \in Nat
  BY OwnerType, BridgeVectorTypes
<1>4. vec[t][q].portPri.ext + ExtCost[q] \in Nat /\ vec[t][q].portPri.int + IntCost[t][q] \in Nat
  BY <1>1, <1>2 DEF Vector
<1> QED
  BY <1>1, <1>3, <1>4 DEF RootPathPri, Vector

LEMMA NewRootPortType ==
  ASSUME NEW t \in Tree, NEW b \in Bridge
  PROVE  NewRootPort(t, b) \in Port \cup {NoPort}
<1>1. CASE BestPorts(t, b) = {}
  BY <1>1 DEF NewRootPort
<1>2. CASE BestPorts(t, b) # {}
  <2>1. NewRootPort(t, b) \in BestPorts(t, b)
    BY <1>2, Zenon DEF NewRootPort
  <2> QED
    BY <2>1 DEF BestPorts, RootCandidates, PortsOf
<1> QED
  BY <1>1, <1>2

LEMMA NewRootTimesType ==
  ASSUME TypeOK, NEW t \in Tree, NEW b \in Bridge, NEW q \in Port \cup {NoPort}
  PROVE  NewRootTimes(t, b, q) \in Times
<1>1. BridgeTimes(t) \in Times /\ root[t][b].times \in Times
  BY BridgeVectorTypes DEF TypeOK, BridgeTypes, RootRecord
<1>2. CASE q = NoPort
  BY <1>1, <1>2 DEF NewRootTimes
<1>3. CASE q # NoPort
  <2>1. vec[t][q].portTimes \in Times
    BY <1>3 DEF TypeOK, TreeTypes, PortVectors
  <2>2. Dec(vec[t][q].portTimes.hops) \in Nat
    BY <2>1 DEF Dec, Times
  <2> QED
    BY <1>1, <1>3, <2>1, <2>2 DEF NewRootTimes, Times
<1> QED
  BY <1>2, <1>3

LEMMA NewRootType ==
  ASSUME TypeOK, NEW t \in Tree, NEW b \in Bridge
  PROVE  NewRoot(t, b) \in RootRecord
<1>1. NewRootPort(t, b) \in Port \cup {NoPort}
  BY NewRootPortType
<1>2. NewRootTimes(t, b, NewRootPort(t, b)) \in Times
  BY <1>1, NewRootTimesType
<1>3. NewRootPort(t, b) # NoPort => RootPathPri(t, NewRootPort(t, b)) \in Vector
  BY <1>1, RootPathPriType
<1>4. BridgePriority(t, b) \in Vector
  BY BridgeVectorTypes
<1> QED
  BY <1>1, <1>2, <1>3, <1>4 DEF NewRoot, RootRecord

LEMMA DsnPriType ==
  ASSUME NEW t \in Tree, NEW q \in Port, NEW new \in RootRecord
  PROVE  DsnPri(t, q, new) \in Vector
<1>1. BridgeId(t, Owner[q]) \in Nat /\ PortId(q) \in Nat
  BY OwnerType, BridgeVectorTypes, PortIdType
<1>2. new.pri \in Vector
  BY DEF RootRecord
<1> QED
  BY <1>1, <1>2 DEF DsnPri, Vector

LEMMA RoleForType ==
  ASSUME NEW t \in Tree, NEW q \in Port, NEW new \in RootRecord
  PROVE  RoleFor(t, q, new) \in Role
<1>1. ReceivedRole(t, q, new) \in Role
  BY DEF ReceivedRole, Role
<1>2. \A r \in DOMAIN CistToMsti : CistToMsti[r] \in Role
  BY DEF CistToMsti, Role
<1>3. {"DISABLED", "UNKNOWN", "ALTERNATE", "DESIGNATED"} \subseteq Role
  BY DEF Role
<1> QED
  BY <1>1, <1>2, <1>3 DEF RoleFor

LEMMA SelectedRoleType ==
  ASSUME NEW x \in PortInfo, NEW r \in Role
  PROVE  [x EXCEPT !.selectedRole = r] \in PortInfo
BY DEF PortInfo

LEMMA DesignatedVectorType ==
  ASSUME NEW x \in PortVectors, NEW v \in Vector, NEW w \in Times
  PROVE  [x EXCEPT !.dsnPri = v, !.dsnTimes = w] \in PortVectors
BY DEF PortVectors

LEMMA PrsInitTreeTypes ==
  ASSUME TypeOK, NEW t \in Tree, NEW p \in Port, PrsInitTree(t, p)
  PROVE  TypeOK'
<1>1. TreeTypes /\ BridgeTypes
  BY DEF TypeOK
<1>2. PortTypes' /\ DbTypes' /\ NetTypes'
  BY KeptTypes DEF TypeOK, PrsInitTree
<1>3. info' \in [Tree -> [Port -> PortInfo]]
  <2>1. \A q \in Port : [info[t][q] EXCEPT !.selectedRole = "DISABLED"] \in PortInfo
    <3>1. "DISABLED" \in Role /\ \A q \in Port : info[t][q] \in PortInfo
      BY <1>1 DEF TreeTypes, Role
    <3> QED
      BY <3>1, SelectedRoleType, Zenon
  <2> QED
    BY <1>1, <2>1 DEF TreeTypes, PrsInitTree
<1>4. prs' \in [Tree -> [Bridge -> PrsState]]
  BY <1>1, OwnerType DEF BridgeTypes, PrsState, PrsInitTree
<1> QED
  BY <1>1, <1>2, <1>3, <1>4 DEF TypeOK, TreeTypes, BridgeTypes, PrsInitTree

LEMMA PrsRoleSelectionTypes ==
  ASSUME TypeOK, NEW t \in Tree, NEW p \in Port, PrsRoleSelection(t, p)
  PROVE  TypeOK'
<1> DEFINE b == Owner[p]
           new == NewRoot(t, b)
<1>1. TreeTypes /\ BridgeTypes
  BY DEF TypeOK
<1>2. PortTypes' /\ DbTypes' /\ NetTypes'
  BY KeptTypes DEF TypeOK, PrsRoleSelection
<1>3. b \in Bridge /\ new \in RootRecord
  BY OwnerType, NewRootType
<1>4. root' = [root EXCEPT ![t][b] = new]
  BY DEF PrsRoleSelection
<1>5. \E n \in {new} : bits' = [u \in Tree |-> [q \in Port |->
                 IF ~(Owner[q] = b) THEN bits[u][q]
                 ELSE IF u = t THEN Selected(t, q, n)
                 ELSE IF t = CIST /\ SyncsMaster(b, n) THEN SyncedMaster(q, bits[u][q])
                 ELSE bits[u][q]]]
  BY Zenon DEF PrsRoleSelection
<1>6. vec' = [vec EXCEPT ![t] = [q \in Port |->
                IF Owner[q] = b THEN [@[q] EXCEPT !.dsnPri = DsnPri(t, q, new),
                                                  !.dsnTimes = new.times]
                ELSE @[q]]]
  BY DEF PrsRoleSelection
<1>7. info' = [info EXCEPT ![t] = [q \in Port |->
                 IF Owner[q] = b /\ RoleFor(t, q, new) # "UNKNOWN"
                 THEN [@[q] EXCEPT !.selectedRole = RoleFor(t, q, new)] ELSE @[q]]]
  BY DEF PrsRoleSelection
<1> HIDE DEF b, new
<1>8. root' \in [Tree -> [Bridge -> RootRecord]]
  BY <1>1, <1>3, <1>4 DEF BridgeTypes
<1>9. prs' \in [Tree -> [Bridge -> PrsState]]
  BY <1>1, OwnerType DEF BridgeTypes, PrsState, PrsRoleSelection
<1>10. bits' \in [Tree -> [Port -> SUBSET TreeBit]]
  <2>1. \A u \in Tree, q \in Port : /\ bits[u][q] \in SUBSET TreeBit
                                    /\ SyncedMaster(q, bits[u][q]) \in SUBSET TreeBit
                                    /\ Selected(u, q, new) \in SUBSET TreeBit
    BY <1>1 DEF TreeTypes, SyncedMaster, Selected, TreeBit
  <2> QED
    BY <1>5, <2>1
<1>11. vec' \in [Tree -> [Port -> PortVectors]]
  <2>1. \A q \in Port : DsnPri(t, q, new) \in Vector
    BY <1>3, DsnPriType
  <2>2. new.times \in Times
    BY <1>3 DEF RootRecord
  <2>3. \A q \in Port : [vec[t][q] EXCEPT !.dsnPri = DsnPri(t, q, new), !.dsnTimes = new.times]
                          \in PortVectors
    <3>1. \A q \in Port : vec[t][q] \in PortVectors
      BY <1>1 DEF TreeTypes
    <3> QED
      BY <2>1, <2>2, <3>1, DesignatedVectorType, Zenon
  <2> QED
    BY <1>1, <1>6, <2>3 DEF TreeTypes
<1>12. info' \in [Tree -> [Port -> PortInfo]]
  <2>1. \A q \in Port : RoleFor(t, q, new) \in Role
    BY <1>3, RoleForType
  <2>2. \A q \in Port : [info[t][q] EXCEPT !.selectedRole = RoleFor(t, q, new)] \in PortInfo
    BY <1>1, <2>1, SelectedRoleType DEF TreeTypes
  <2> QED
    BY <1>1, <1>7, <2>2 DEF TreeTypes
<1>13. TreeTypes' /\ BridgeTypes'
  BY <1>1, <1>8, <1>9, <1>10, <1>11, <1>12 DEF TreeTypes, BridgeTypes, PrsRoleSelection
<1> QED
  BY <1>2, <1>13 DEF TypeOK

LEMMA PrsTypes ==
  ASSUME TypeOK, NEW t \in Tree, NEW p \in Port, PrsSm(t, p)
  PROVE  TypeOK'
<1>1. CASE PrsInitTree(t, p)
  BY <1>1, PrsInitTreeTypes
<1>2. CASE PrsRoleSelection(t, p)
  BY <1>2, PrsRoleSelectionTypes
<1>3. CASE PrsReturn(t, p)
  BY <1>3, KeptTypes DEF PrsReturn, TypeOK
<1> QED
  BY <1>1, <1>2, <1>3 DEF PrsSm

-----------------------------------------------------------------------------
(* Port Information: what is computed from the message and the port.         *)

LEMMA MessageTypes ==
  ASSUME TypeOK, NEW t \in Tree, NEW p \in Port
  PROVE  /\ MsgPri(t, p) \in Vector
         /\ MsgTimes(t, p) \in Times
         /\ OldRootTimes(t, p) \in Times
<1>1. /\ rx.pri[t] \in Vector /\ rx.times[t] \in Times /\ rx.times[CIST] \in Times
      /\ MaxHops \in Nat
  BY PortsAreNumbers, ConstantsAssumption DEF TypeOK, NetTypes, Bpdu
<1>2. MsgPri(t, p) \in Vector
  BY <1>1 DEF MsgPri, Vector
<1>3. MsgTimes(t, p) \in Times
  BY <1>1 DEF MsgTimes, NoTimes, Times
<1>4. OldRootTimes(t, p) \in Times
  BY <1>1, <1>3 DEF OldRootTimes, Times
<1> QED
  BY <1>2, <1>3, <1>4

LEMMA ClassifiedType ==
  ASSUME NEW t \in Tree, NEW p \in Port
  PROVE  Classified(t, p) \in RcvdInfo
<1>1. DesignatedMsg(t, p) \in RcvdInfo
  BY DEF DesignatedMsg, RcvdInfo
<1>2. {"OTHER", "SUPERIOR_DESIGNATED", "INFERIOR_ROOT_ALTERNATE"} \subseteq RcvdInfo
  BY DEF RcvdInfo
<1> QED
  BY <1>1, <1>2 DEF Classified

LEMMA RecordedTypes ==
  ASSUME TypeOK, NEW t \in Tree, NEW p \in Port
  PROVE  /\ RecordedTimes(t, p) \in Times
         /\ UpdatedTimes(t, p) \in Times
<1>1. /\ vec[t][p].msgTimes \in Times /\ vec[t][p].portTimes \in Times
      /\ vec[t][p].dsnTimes \in Times
  BY DEF TypeOK, TreeTypes, PortVectors
<1>2. root[CIST][Owner[p]].times \in Times
  BY PortsAreNumbers, OwnerType DEF TypeOK, BridgeTypes, RootRecord
<1>3. HelloTime \in Nat
  BY ConstantsAssumption DEF HelloMaxSec
<1>4. RecordedTimes(t, p) \in Times
  BY <1>1 DEF RecordedTimes, Times, HelloMaxSec
<1>5. UpdatedTimes(t, p) \in Times
  BY <1>1, <1>2, <1>3 DEF UpdatedTimes, RootTimes, Times
<1> QED
  BY <1>4, <1>5

LEMMA InfoWhileType ==
  ASSUME TypeOK, NEW t \in Tree, NEW p \in Port, NEW cist \in Times, NEW mine \in Times,
         NEW w \in InfoWhile(t, p, cist, mine)
  PROVE  w \in Nat
<1>1. HoldTime \subseteq Nat
  BY ConstantsAssumption DEF HelloMaxSec
<1>2. tmr[CIST][p].rcvdInfoWhile \in Nat
  BY PortsAreNumbers DEF TypeOK, TreeTypes, TreeTimers
<1>3. 3 * cist.hello \in Nat
  BY DEF Times
<1> QED
  BY <1>1, <1>2, <1>3 DEF InfoWhile

\* The record functions add flags of a tree's port and take some away.
LEMMA RecordFlagTypes ==
  ASSUME NEW t, NEW u, NEW p, NEW fs \in SUBSET TreeBit, NEW gs \in SUBSET TreeBit
  PROVE  /\ RecordProposal(t, u, p, fs) \in SUBSET TreeBit
         /\ SetTcFlags(t, u, p, fs) \in SUBSET TreeBit
         /\ RecordAgreement(t, u, p, fs, gs) \in SUBSET TreeBit
         /\ RecordDispute(t, u, p, fs) \in SUBSET TreeBit
<1>1. RecordProposal(t, u, p, fs) \in SUBSET TreeBit
  BY DEF RecordProposal, TreeBit
<1>2. SetTcFlags(t, u, p, fs) \in SUBSET TreeBit
  BY DEF SetTcFlags, TreeBit
<1>3. RecordAgreement(t, u, p, fs, gs) \in SUBSET TreeBit
  BY DEF RecordAgreement, TreeBit
<1>4. RecordDispute(t, u, p, fs) \in SUBSET TreeBit
  BY DEF RecordDispute, TreeBit
<1> QED
  BY <1>1, <1>2, <1>3, <1>4

\* The flags of a port in every tree.
LEMMA PortFlagsType ==
  ASSUME TreeTypes, NEW p \in Port, NEW g \in [Tree -> SUBSET TreeBit],
         bits' = [u \in Tree |-> [bits[u] EXCEPT ![p] = g[u]]]
  PROVE  bits' \in [Tree -> [Port -> SUBSET TreeBit]]
BY DEF TreeTypes

LEMMA CommFlagTypes ==
  ASSUME PortTypes, NEW t, NEW p \in Port
  PROVE  /\ SetComm(p, {NewInfo(t)}, {}) \in [Port -> SUBSET CommBit]
         /\ SetComm(p, RcvdTcAckBits(t), {}) \in [Port -> SUBSET CommBit]
         /\ InfoInternal(p, RcvdTcAckBits(t)) => cbits' \in [Port -> SUBSET CommBit]
<1>1. /\ {NewInfo(t)} \in SUBSET CommBit /\ RcvdTcAckBits(t) \in SUBSET CommBit
      /\ RcvdTcAckBits(t) \cup {"infoInternal"} \in SUBSET CommBit
  BY DEF NewInfo, RcvdTcAckBits, CommBit
<1>2. InfoInternal(p, RcvdTcAckBits(t)) => cbits' \in [Port -> SUBSET CommBit]
  <2>1. /\ SetComm(p, RcvdTcAckBits(t) \cup {"infoInternal"}, {}) \in [Port -> SUBSET CommBit]
        /\ SetComm(p, RcvdTcAckBits(t), {"infoInternal"}) \in [Port -> SUBSET CommBit]
    BY <1>1, SetCommType, Zenon
  <2> QED
    BY <2>1 DEF InfoInternal
<1> QED
  BY <1>1, <1>2, SetCommType, Zenon

-----------------------------------------------------------------------------
\* Every action sets the state and some of the port's records.
LEMMA PimMoveTypes ==
  ASSUME TypeOK, NEW t \in Tree, NEW p \in Port, NEW s \in PimState, PimTo(t, p, s), PimKeeps,
         UNCHANGED cbits \/ cbits' \in [Port -> SUBSET CommBit],
         UNCHANGED bits \/ bits' \in [Tree -> [Port -> SUBSET TreeBit]],
         UNCHANGED tmr \/ tmr' \in [Tree -> [Port -> TreeTimers]],
         UNCHANGED info \/ info' \in [Tree -> [Port -> PortInfo]],
         UNCHANGED vec \/ vec' \in [Tree -> [Port -> PortVectors]]
  PROVE  TypeOK'
<1>1. PortTypes /\ TreeTypes
  BY DEF TypeOK
<1>2. BridgeTypes' /\ DbTypes' /\ NetTypes'
  BY KeptTypes DEF TypeOK, PimKeeps
<1>3. fsm' \in [Tree -> [Port -> TreeMachines]]
  BY <1>1, FsmType, Zenon DEF TreeTypes, PimTo
<1>4. TreeTypes'
  BY <1>1, <1>3 DEF TreeTypes
<1>5. PortTypes'
  BY <1>1 DEF PortTypes, PimKeeps
<1> QED
  BY <1>2, <1>4, <1>5 DEF TypeOK

LEMMA PimInfoIsTypes ==
  ASSUME TypeOK, NEW t \in Tree, NEW p \in Port, NEW s \in {"DISABLED", "AGED", "MINE", "RECEIVED"},
         info' = [info EXCEPT ![t][p].infoIs = s]
  PROVE  info' \in [Tree -> [Port -> PortInfo]]
<1>1. s \in InfoIs /\ info \in [Tree -> [Port -> PortInfo]]
  BY DEF InfoIs, TypeOK, TreeTypes
<1> QED
  BY <1>1, InfoType, Zenon

LEMMA PimDisabledTypes ==
  ASSUME TypeOK, NEW t \in Tree, NEW p \in Port, PimDisabled(t, p)
  PROVE  TypeOK'
<1>1. TreeTypes /\ {"reselect"} \in SUBSET TreeBit
  BY DEF TypeOK, TreeBit
<1>2. bits' \in [Tree -> [Port -> SUBSET TreeBit]]
  BY <1>1, SetBitsType, Zenon DEF PimDisabled
<1>3. tmr' \in [Tree -> [Port -> TreeTimers]]
  BY <1>1, TmrType, 0 \in Nat, Zenon DEF TreeTypes, PimDisabled
<1>4. info' \in [Tree -> [Port -> PortInfo]]
  BY PimInfoIsTypes DEF PimDisabled
<1> QED
  BY <1>2, <1>3, <1>4, PimMoveTypes, "DISABLED" \in PimState, Zenon DEF PimDisabled, PimState

LEMMA PimAgedTypes ==
  ASSUME TypeOK, NEW t \in Tree, NEW p \in Port, PimAged(t, p)
  PROVE  TypeOK'
<1>1. TreeTypes /\ {"reselect"} \in SUBSET TreeBit
  BY DEF TypeOK, TreeBit
<1>2. bits' \in [Tree -> [Port -> SUBSET TreeBit]]
  BY <1>1, SetBitsType, Zenon DEF PimAged
<1>3. info' \in [Tree -> [Port -> PortInfo]]
  BY PimInfoIsTypes DEF PimAged
<1> QED
  BY <1>2, <1>3, PimMoveTypes, "AGED" \in PimState, Zenon DEF PimAged, PimState

LEMMA PimUpdateTypes ==
  ASSUME TypeOK, NEW t \in Tree, NEW p \in Port, PimUpdate(t, p)
  PROVE  TypeOK'
<1>1. PortTypes /\ TreeTypes /\ {} \in SUBSET TreeBit
  BY DEF TypeOK
<1>2. bits' \in [Tree -> [Port -> SUBSET TreeBit]]
  BY <1>1, SetBitsType, Zenon DEF PimUpdate
<1>3. info' \in [Tree -> [Port -> PortInfo]]
  BY PimInfoIsTypes DEF PimUpdate
<1>4. cbits' \in [Port -> SUBSET CommBit]
  BY <1>1, CommFlagTypes, Zenon DEF PimUpdate
<1>5. vec' \in [Tree -> [Port -> PortVectors]]
  <2>1. vec[t][p] \in PortVectors /\ UpdatedTimes(t, p) \in Times
    BY <1>1, RecordedTypes DEF TreeTypes
  <2>2. [vec[t][p] EXCEPT !.portPri = vec[t][p].dsnPri, !.portTimes = UpdatedTimes(t, p)]
          \in PortVectors
    BY <2>1 DEF PortVectors
  <2>3. vec' = [vec EXCEPT ![t][p] = [vec[t][p] EXCEPT !.portPri = vec[t][p].dsnPri,
                                                       !.portTimes = UpdatedTimes(t, p)]]
    BY <1>1 DEF TreeTypes, PimUpdate
  <2> QED
    BY <1>1, <2>2, <2>3, TreeEntryType, Zenon DEF TreeTypes
<1> QED
  BY <1>2, <1>3, <1>4, <1>5, PimMoveTypes, "UPDATE" \in PimState, Zenon DEF PimUpdate, PimState

LEMMA MsgVectorType ==
  ASSUME NEW f \in [Tree -> [Port -> PortVectors]], NEW t \in Tree, NEW p \in Port,
         NEW v \in Vector, NEW w \in Times
  PROVE  [f EXCEPT ![t][p].msgPri = v, ![t][p].msgTimes = w] \in [Tree -> [Port -> PortVectors]]
<1> DEFINE x == [f[t][p] EXCEPT !.msgPri = v, !.msgTimes = w]
<1>1. x \in PortVectors
  <2>1. f[t][p] \in PortVectors
    OBVIOUS
  <2> QED
    BY <2>1 DEF PortVectors
<1>2. [f EXCEPT ![t][p].msgPri = v, ![t][p].msgTimes = w]
        = [f EXCEPT ![t][p] = x]
  OBVIOUS
<1> HIDE DEF x
<1>3. [f EXCEPT ![t][p] = x] \in [Tree -> [Port -> PortVectors]]
  BY <1>1
<1> QED
  BY <1>2, <1>3

LEMMA PimReceiveTypes ==
  ASSUME TypeOK, NEW t \in Tree, NEW p \in Port, PimReceive(t, p)
  PROVE  TypeOK'
<1>1. PortTypes /\ TreeTypes
  BY DEF TypeOK
<1>2. cbits' \in [Port -> SUBSET CommBit]
  <2>1. PICK set \in {{"rcvdTcn"}, {"rcvdSelfSentPkt"}, {}}, clr \in {{"rcvdSelfSentPkt"}, {}} :
          cbits' = SetComm(p, set, clr)
    BY Zenon DEF PimReceive
  <2>2. set \in SUBSET CommBit
    BY DEF CommBit
  <2> QED
    BY <1>1, <2>1, <2>2, SetCommType, Zenon
<1>3. bits' = bits \/ bits' \in [Tree -> [Port -> SUBSET TreeBit]]
  <2>1. \/ bits' = bits
        \/ bits' = [u \in Tree |-> IF u = CIST THEN bits[u]
                                   ELSE [bits[u] EXCEPT ![p] = @ \cup {"rcvdTc"}]]
    BY DEF PimReceive
  <2>2. \A u \in Tree : /\ bits[u] \in [Port -> SUBSET TreeBit]
                        /\ [bits[u] EXCEPT ![p] = @ \cup {"rcvdTc"}] \in [Port -> SUBSET TreeBit]
    BY <1>1 DEF TreeTypes, TreeBit
  <2> QED
    BY <2>1, <2>2
<1>4. info' \in [Tree -> [Port -> PortInfo]]
  BY <1>1, ClassifiedType, InfoType, Zenon DEF TreeTypes, PimReceive
<1>5. vec' = vec \/ vec' \in [Tree -> [Port -> PortVectors]]
  <2>1. MsgPri(t, p) \in Vector /\ MsgTimes(t, p) \in Times /\ OldRootTimes(t, p) \in Times
    BY MessageTypes
  <2>2. \A w \in Times : [vec EXCEPT ![t][p].msgPri = MsgPri(t, p), ![t][p].msgTimes = w]
                           \in [Tree -> [Port -> PortVectors]]
    BY <1>1, <2>1, MsgVectorType DEF TreeTypes
  <2>3. CASE vec' = vec
    BY <2>3
  <2>4. CASE vec' # vec
    <3>1. PICK w \in Times :
            vec' = [vec EXCEPT ![t][p].msgPri = MsgPri(t, p), ![t][p].msgTimes = w]
      BY <2>1, <2>4 DEF PimReceive
    <3> QED
      BY <2>2, <3>1, Zenon
  <2> QED
    BY <2>3, <2>4
<1> QED
  BY <1>2, <1>3, <1>4, <1>5, PimMoveTypes, "RECEIVE" \in PimState, Zenon DEF PimReceive, PimState

\* The flags a handler leaves behind, in every tree.
LEMMA PimSuperiorTypes ==
  ASSUME TypeOK, NEW t \in Tree, NEW p \in Port, PimSuperior(t, p)
  PROVE  TypeOK'
<1> DEFINE fs(u) == IF u = t THEN bits[u][p] \ {"agreed", "proposing"} ELSE bits[u][p]
           g == [u \in Tree |-> SetTcFlags(t, u, p, RecordProposal(t, u, p, fs(u)))]
<1>1. PortTypes /\ TreeTypes
  BY DEF TypeOK
<1>2. \A u \in Tree : fs(u) \in SUBSET TreeBit
  BY <1>1 DEF TreeTypes
<1>3. g \in [Tree -> SUBSET TreeBit]
  <2> HIDE DEF fs
  <2> QED
    BY <1>2, RecordFlagTypes, Zenon
<1>4. bits' = [u \in Tree |-> [bits[u] EXCEPT ![p] = g[u]]]
  BY DEF PimSuperior, PortBits
<1> HIDE DEF g
<1>5. bits' \in [Tree -> [Port -> SUBSET TreeBit]]
  BY <1>1, <1>3, <1>4, PortFlagsType
<1>6. cbits' \in [Port -> SUBSET CommBit]
  BY <1>1, CommFlagTypes, Zenon DEF PimSuperior
<1> QED
  BY <1>5, <1>6, PimMoveTypes, "SUPERIOR_DESIGNATED" \in PimState, Zenon DEF PimSuperior, PimState

LEMMA PimRepeatedTypes ==
  ASSUME TypeOK, NEW t \in Tree, NEW p \in Port, PimRepeated(t, p)
  PROVE  TypeOK'
<1> DEFINE fsT == RecordProposal(t, t, p, bits[t][p])
           gsT == fsT \ (IF Agrees(t, p) THEN {"proposing"} ELSE {})
           fs(u) == SetTcFlags(t, u, p, RecordProposal(t, u, p, bits[u][p]))
           g == [u \in Tree |-> RecordAgreement(t, u, p, fs(u), gsT)
                                  \ (IF u = t THEN {"rcvdMsg"} ELSE {})]
<1>1. PortTypes /\ TreeTypes /\ \A u \in Tree : bits[u][p] \in SUBSET TreeBit
  BY DEF TypeOK, TreeTypes
<1>2. \A u \in Tree : fs(u) \in SUBSET TreeBit
  BY <1>1, RecordFlagTypes, Zenon
<1>3. fsT \in SUBSET TreeBit
  BY <1>1, RecordFlagTypes, Zenon
<1>4. gsT \in SUBSET TreeBit
  <2> HIDE DEF fsT
  <2> QED
    BY <1>3
<1>5. g \in [Tree -> SUBSET TreeBit]
  <2> HIDE DEF fs, gsT
  <2>1. \A u \in Tree : RecordAgreement(t, u, p, fs(u), gsT) \in SUBSET TreeBit
    BY <1>2, <1>4, RecordFlagTypes, Zenon
  <2> QED
    BY <2>1
<1>6. bits' = [u \in Tree |-> [bits[u] EXCEPT ![p] = g[u]]]
  BY DEF PimRepeated, PortBits
<1> HIDE DEF g
<1>7. bits' \in [Tree -> [Port -> SUBSET TreeBit]]
  BY <1>1, <1>5, <1>6, PortFlagsType
<1>8. cbits' \in [Port -> SUBSET CommBit]
  BY <1>1, CommFlagTypes, Zenon DEF PimRepeated
<1>9. tmr' \in [Tree -> [Port -> TreeTimers]]
  <2>1. vec[CIST][p].portTimes \in Times /\ vec[t][p].portTimes \in Times
    BY <1>1, PortsAreNumbers DEF TreeTypes, PortVectors
  <2>2. PICK w \in InfoWhile(t, p, vec[CIST][p].portTimes, vec[t][p].portTimes) :
          tmr' = [tmr EXCEPT ![t][p].rcvdInfoWhile = w]
    BY DEF PimRepeated
  <2>3. w \in Nat
    BY <2>1, InfoWhileType
  <2> QED
    BY <1>1, <2>2, <2>3, TmrType, Zenon DEF TreeTypes
<1> QED
  BY <1>7, <1>8, <1>9, PimMoveTypes, "REPEATED_DESIGNATED" \in PimState, Zenon
     DEF PimRepeated, PimState

LEMMA PimInferiorTypes ==
  ASSUME TypeOK, NEW t \in Tree, NEW p \in Port, PimInferior(t, p)
  PROVE  TypeOK'
<1> DEFINE g == [u \in Tree |-> RecordDispute(t, u, p, bits[u][p])
                                  \ (IF u = t THEN {"rcvdMsg"} ELSE {})]
<1>1. TreeTypes /\ \A u \in Tree : bits[u][p] \in SUBSET TreeBit
  BY DEF TypeOK, TreeTypes
<1>2. \A u \in Tree : RecordDispute(t, u, p, bits[u][p]) \in SUBSET TreeBit
  BY <1>1, RecordFlagTypes, Zenon
<1>3. g \in [Tree -> SUBSET TreeBit]
  BY <1>2
<1>4. bits' = [u \in Tree |-> [bits[u] EXCEPT ![p] = g[u]]]
  BY DEF PimInferior, PortBits
<1> HIDE DEF g
<1>5. bits' \in [Tree -> [Port -> SUBSET TreeBit]]
  BY <1>1, <1>3, <1>4, PortFlagsType
<1> QED
  BY <1>5, PimMoveTypes, "INFERIOR_DESIGNATED" \in PimState, Zenon DEF PimInferior, PimState

LEMMA PimNotDesignatedTypes ==
  ASSUME TypeOK, NEW t \in Tree, NEW p \in Port, PimNotDesignated(t, p)
  PROVE  TypeOK'
<1> DEFINE gsT == bits[t][p] \ (IF Agrees(t, p) THEN {"proposing"} ELSE {})
           fs(u) == SetTcFlags(t, u, p, RecordAgreement(t, u, p, bits[u][p], gsT))
           g == [u \in Tree |-> fs(u) \ (IF u = t THEN {"rcvdMsg"} ELSE {})]
<1>1. PortTypes /\ TreeTypes /\ \A u \in Tree : bits[u][p] \in SUBSET TreeBit
  BY DEF TypeOK, TreeTypes
<1>2. gsT \in SUBSET TreeBit
  BY <1>1
<1>3. \A u \in Tree : fs(u) \in SUBSET TreeBit
  <2> HIDE DEF gsT
  <2> QED
    BY <1>1, <1>2, RecordFlagTypes, Zenon
<1>4. g \in [Tree -> SUBSET TreeBit]
  <2> HIDE DEF fs
  <2> QED
    BY <1>3
<1>5. bits' = [u \in Tree |-> [bits[u] EXCEPT ![p] = g[u]]]
  BY DEF PimNotDesignated, PortBits
<1> HIDE DEF g
<1>6. bits' \in [Tree -> [Port -> SUBSET TreeBit]]
  BY <1>1, <1>4, <1>5, PortFlagsType
<1>7. cbits' \in [Port -> SUBSET CommBit]
  BY <1>1, CommFlagTypes, Zenon DEF PimNotDesignated
<1> QED
  BY <1>6, <1>7, PimMoveTypes, "NOT_DESIGNATED" \in PimState, Zenon DEF PimNotDesignated, PimState

LEMMA PimRecordTypes ==
  ASSUME TypeOK, NEW t \in Tree, NEW p \in Port, PimRecord(t, p)
  PROVE  TypeOK'
<1> DEFINE mine == RecordedTimes(t, p)
           cist == IF t = CIST THEN mine ELSE vec[CIST][p].portTimes
           fsT == IF BetterOrSame(t, p, "RECEIVED") THEN bits[t][p] ELSE bits[t][p] \ {"agree"}
           agreedT == RecordAgreement(t, t, p, fsT, fsT)
           clear == {"selected"} \cup (IF "agreed" \in agreedT THEN {} ELSE {"synced"})
                      \cup (IF t = CIST THEN {} ELSE {"rcvdMsg"})
           g == [u \in Tree |-> IF u = t THEN (agreedT \ clear) \cup {"reselect"}
                                ELSE RecordAgreement(t, u, p, bits[u][p], agreedT)]
<1>1. PortTypes /\ TreeTypes /\ \A u \in Tree : bits[u][p] \in SUBSET TreeBit
  BY DEF TypeOK, TreeTypes
<1>2. BridgeTypes' /\ DbTypes' /\ NetTypes' /\ PortTypes'
  BY KeptTypes DEF TypeOK, PimRecord, PimKeeps, commVars
<1>3. bits' = [u \in Tree |-> [bits[u] EXCEPT ![p] = g[u]]]
  BY DEF PimRecord, PortBits
<1>4. g \in [Tree -> SUBSET TreeBit]
  <2>1. fsT \in SUBSET TreeBit
    BY <1>1
  <2> HIDE DEF fsT
  <2>2. agreedT \in SUBSET TreeBit
    BY <2>1, RecordFlagTypes, Zenon
  <2> HIDE DEF agreedT
  <2>3. \A u \in Tree : RecordAgreement(t, u, p, bits[u][p], agreedT) \in SUBSET TreeBit
    BY <1>1, <2>2, RecordFlagTypes, Zenon
  <2>4. (agreedT \ clear) \cup {"reselect"} \in SUBSET TreeBit
    BY <2>2 DEF TreeBit
  <2> HIDE DEF clear
  <2> QED
    BY <2>3, <2>4
<1> HIDE DEF g
<1>5. bits' \in [Tree -> [Port -> SUBSET TreeBit]]
  BY <1>1, <1>3, <1>4, PortFlagsType
<1>6. mine \in Times /\ cist \in Times
  <2>1. vec[CIST][p].portTimes \in Times
    BY <1>1, PortsAreNumbers DEF TreeTypes, PortVectors
  <2> QED
    BY <2>1, RecordedTypes
<1>7. PICK w \in InfoWhile(t, p, cist, mine) : tmr' = [tmr EXCEPT ![t][p].rcvdInfoWhile = w]
  BY DEF PimRecord
<1>8. vec' = [vec EXCEPT ![t][p] = [vec[t][p] EXCEPT !.portPri = vec[t][p].msgPri,
                                                     !.portTimes = mine]]
  BY <1>1 DEF TreeTypes, PimRecord
<1> HIDE DEF mine, cist
<1>9. tmr' \in [Tree -> [Port -> TreeTimers]]
  <2>1. w \in Nat
    BY <1>6, InfoWhileType
  <2> QED
    BY <1>1, <1>7, <2>1, TmrType, Zenon DEF TreeTypes
<1>10. vec' \in [Tree -> [Port -> PortVectors]]
  <2>1. [vec[t][p] EXCEPT !.portPri = vec[t][p].msgPri, !.portTimes = mine] \in PortVectors
    <3>1. vec[t][p] \in PortVectors
      BY <1>1 DEF TreeTypes
    <3> QED
      BY <1>6, <3>1 DEF PortVectors
  <2> QED
    BY <1>1, <1>8, <2>1, TreeEntryType, Zenon DEF TreeTypes
<1>11. info' \in [Tree -> [Port -> PortInfo]]
  BY PimInfoIsTypes DEF PimRecord
<1>12. TreeTypes'
  BY <1>1, <1>5, <1>9, <1>10, <1>11 DEF TreeTypes, PimRecord
<1> QED
  BY <1>2, <1>12 DEF TypeOK

\* The steps that change flags of one tree, or nothing.
LEMMA PimFlagStepTypes ==
  ASSUME TypeOK, NEW t \in Tree, NEW p \in Port, SyncMsti(t, p) \/ PimDone(p)
  PROVE  TypeOK'
<1>1. TreeTypes /\ {"reselect"} \in SUBSET TreeBit /\ {} \in SUBSET TreeBit
  BY DEF TypeOK, TreeBit
<1>2. PortTypes' /\ BridgeTypes' /\ DbTypes' /\ NetTypes'
  BY KeptTypes DEF TypeOK, SyncMsti, PimDone
<1>3. bits' \in [Tree -> [Port -> SUBSET TreeBit]]
  <2>1. CASE SyncMsti(t, p)
    BY <1>1, <2>1, SetBitsType, Zenon DEF SyncMsti
  <2>2. CASE PimDone(p)
    <3>1. bits' = SetBits(CIST, p, {}, {"rcvdMsg"}) /\ CIST \in Tree
      BY <2>2, PortsAreNumbers DEF PimDone
    <3> QED
      BY <1>1, <3>1, SetBitsType, Zenon
  <2> QED
    BY <2>1, <2>2
<1> QED
  BY <1>1, <1>2, <1>3 DEF TypeOK, TreeTypes, SyncMsti, PimDone

LEMMA PimTypes ==
  ASSUME TypeOK, NEW t \in Tree, NEW p \in Port, PimSm(t, p)
  PROVE  TypeOK'
<1>1. CASE PimCurrent(t, p)
  BY <1>1, PimMoveTypes, "CURRENT" \in PimState, Zenon DEF PimCurrent, PimState
<1>2. CASE PimOther(t, p)
  <2>1. TreeTypes /\ {} \in SUBSET TreeBit
    BY DEF TypeOK
  <2>2. bits' \in [Tree -> [Port -> SUBSET TreeBit]]
    BY <1>2, <2>1, SetBitsType, Zenon DEF PimOther
  <2> QED
    BY <1>2, <2>2, PimMoveTypes, "OTHER" \in PimState, Zenon DEF PimOther, PimState
<1>3. CASE PimReturn(t, p) \/ PimAgedRest(p) \/ PimSelected(p)
  BY <1>3, KeptTypes DEF PimReturn, PimAgedRest, PimSelected, TypeOK
<1>4. CASE SyncMsti(t, p) \/ PimDone(p)
  BY <1>4, PimFlagStepTypes
<1> QED
  BY <1>1, <1>2, <1>3, <1>4, PimDisabledTypes, PimAgedTypes, PimUpdateTypes, PimReceiveTypes,
     PimSuperiorTypes, PimRepeatedTypes, PimInferiorTypes, PimNotDesignatedTypes,
     PimRecordTypes DEF PimSm

-----------------------------------------------------------------------------
(* Port Role Transitions                                                     *)

LEMMA DelayTypes ==
  ASSUME TypeOK, NEW p \in Port
  PROVE  /\ RootTimes(CIST, p).fwd \in Nat /\ RootTimes(CIST, p).maxAge \in Nat
         /\ ForwardDelay(p) \in Nat /\ 2 * HelloTime \in Nat
<1>1. RootTimes(CIST, p) \in Times
  BY PortsAreNumbers, OwnerType DEF TypeOK, BridgeTypes, RootRecord, RootTimes
<1>2. HelloTime \in Nat
  BY ConstantsAssumption DEF HelloMaxSec
<1> QED
  BY <1>1, <1>2 DEF ForwardDelay, Times

\* The timers a role change sets.
LEMMA RoleTimersType ==
  ASSUME NEW x \in TreeTimers, NEW m \in Nat, NEW n \in Nat
  PROVE  /\ [x EXCEPT !.rrWhile = m, !.fdWhile = n, !.rbWhile = 0] \in TreeTimers
         /\ [x EXCEPT !.fdWhile = n, !.rrWhile = 0] \in TreeTimers
         /\ [x EXCEPT !.rbWhile = n] \in TreeTimers
         /\ [x EXCEPT !.rrWhile = n] \in TreeTimers
         /\ [x EXCEPT !.fdWhile = n] \in TreeTimers
BY DEF TreeTimers

LEMMA TimersType ==
  ASSUME TreeTypes, NEW t \in Tree, NEW p \in Port, NEW x \in TreeTimers, Timers(t, p, x)
  PROVE  tmr' \in [Tree -> [Port -> TreeTimers]]
BY TreeEntryType, Zenon DEF TreeTypes, Timers

LEMMA WholeTreeType ==
  ASSUME TreeTypes, NEW t \in Tree, NEW p \in Port, NEW flag \in TreeBit
  PROVE  WholeTree(t, p, flag) \in [Tree -> [Port -> SUBSET TreeBit]]
BY DEF TreeTypes, WholeTree

\* Every action sets the state and some flags and timers.
LEMMA PrtMoveTypes ==
  ASSUME TypeOK, NEW t \in Tree, NEW p \in Port, NEW s \in PrtState, NEW calls,
         PrtTo(t, p, s, calls),
         UNCHANGED cbits \/ cbits' \in [Port -> SUBSET CommBit],
         UNCHANGED ctmr \/ ctmr' \in [Port -> PortTimers],
         UNCHANGED bits \/ bits' \in [Tree -> [Port -> SUBSET TreeBit]],
         UNCHANGED tmr \/ tmr' \in [Tree -> [Port -> TreeTimers]],
         UNCHANGED info \/ info' \in [Tree -> [Port -> PortInfo]]
  PROVE  TypeOK'
<1>1. PortTypes /\ TreeTypes
  BY DEF TypeOK
<1>2. BridgeTypes' /\ DbTypes' /\ NetTypes'
  BY KeptTypes DEF TypeOK, PrtTo
<1>3. fsm' \in [Tree -> [Port -> TreeMachines]]
  <2>1. fsm' = [fsm EXCEPT ![t][p].prt = s] /\ fsm \in [Tree -> [Port -> TreeMachines]]
    BY <1>1 DEF TreeTypes, PrtTo
  <2> QED
    BY <2>1, FsmType, Zenon
<1>4. TreeTypes'
  BY <1>1, <1>3 DEF TreeTypes, PrtTo
<1>5. PortTypes'
  BY <1>1 DEF PortTypes, PrtTo
<1> QED
  BY <1>2, <1>4, <1>5 DEF TypeOK

LEMMA TakesRoleType ==
  ASSUME TypeOK, NEW t \in Tree, NEW p \in Port, TakesRole(t, p)
  PROVE  info' \in [Tree -> [Port -> PortInfo]]
<1>1. info \in [Tree -> [Port -> PortInfo]] /\ info[t][p].selectedRole \in Role
  BY DEF TypeOK, TreeTypes, PortInfo
<1> QED
  BY <1>1, InfoType, Zenon DEF TakesRole

\* The states a port enters when its role changes.
LEMMA PrtRoleTypes ==
  ASSUME TypeOK, NEW t \in Tree, NEW p \in Port,
         \/ PrtInitPort(t, p) \/ PrtDisablePort(t, p) \/ PrtBlockPort(t, p)
         \/ PrtMasterPort(t, p) \/ PrtDesignatedPort(t, p) \/ PrtRootPort(t, p)
  PROVE  TypeOK'
<1>1. TreeTypes /\ tmr[t][p] \in TreeTimers
  BY DEF TypeOK, TreeTypes
<1>2. {"sync", "reRoot"} \in SUBSET TreeBit /\ {} \in SUBSET TreeBit
  BY DEF TreeBit
<1>3. /\ {"INIT_PORT", "DISABLE_PORT", "BLOCK_PORT"} \subseteq PrtState
      /\ {"MASTER_PORT", "DESIGNATED_PORT", "ROOT_PORT"} \subseteq PrtState
  BY DEF PrtState
<1>4. RootTimes(CIST, p).fwd \in Nat /\ RootTimes(CIST, p).maxAge \in Nat
  BY DelayTypes
<1>5. CASE PrtInitPort(t, p)
  <2>1. bits' \in [Tree -> [Port -> SUBSET TreeBit]]
    BY <1>1, <1>2, <1>5, SetBitsType, Zenon DEF PrtInitPort, Flags
  <2>2. info' \in [Tree -> [Port -> PortInfo]]
    <3>1. "DISABLED" \in Role /\ info \in [Tree -> [Port -> PortInfo]]
      BY <1>1 DEF Role, TreeTypes
    <3> QED
      BY <1>5, <3>1, InfoType, Zenon DEF PrtInitPort
  <2>3. [tmr[t][p] EXCEPT !.rrWhile = RootTimes(CIST, p).fwd,
                          !.fdWhile = RootTimes(CIST, p).maxAge, !.rbWhile = 0] \in TreeTimers
    BY <1>1, <1>4, RoleTimersType, Zenon
  <2>4. tmr' \in [Tree -> [Port -> TreeTimers]]
    BY <1>1, <1>5, <2>3, TimersType, Zenon DEF PrtInitPort
  <2> QED
    BY <1>3, <1>5, <2>1, <2>2, <2>4, PrtMoveTypes DEF PrtInitPort
<1>6. CASE PrtDisablePort(t, p) \/ PrtBlockPort(t, p)
  <2>1. PICK s \in {"DISABLE_PORT", "BLOCK_PORT"} : PrtStops(t, p, s)
    BY <1>6 DEF PrtDisablePort, PrtBlockPort
  <2>2. bits' \in [Tree -> [Port -> SUBSET TreeBit]]
    BY <1>1, <1>2, <2>1, SetBitsType, Zenon DEF PrtStops, Flags
  <2>3. info' \in [Tree -> [Port -> PortInfo]]
    BY <2>1, TakesRoleType DEF PrtStops
  <2> QED
    BY <1>3, <2>1, <2>2, <2>3, PrtMoveTypes DEF PrtStops
<1>7. CASE PrtMasterPort(t, p) \/ PrtDesignatedPort(t, p)
  <2>1. info' \in [Tree -> [Port -> PortInfo]]
    BY <1>7, TakesRoleType DEF PrtMasterPort, PrtDesignatedPort
  <2> QED
    BY <1>3, <1>7, <2>1, PrtMoveTypes DEF PrtMasterPort, PrtDesignatedPort
<1>8. CASE PrtRootPort(t, p)
  <2>1. info' \in [Tree -> [Port -> PortInfo]]
    BY <1>8, TakesRoleType DEF PrtRootPort
  <2>2. [tmr[t][p] EXCEPT !.rrWhile = RootTimes(CIST, p).fwd] \in TreeTimers
    BY <1>1, <1>4, RoleTimersType, Zenon
  <2>3. tmr' \in [Tree -> [Port -> TreeTimers]]
    BY <1>1, <1>8, <2>2, TimersType, Zenon DEF PrtRootPort
  <2> QED
    BY <1>3, <1>8, <2>1, <2>3, PrtMoveTypes DEF PrtRootPort
<1> QED
  BY <1>5, <1>6, <1>7, <1>8

\* The states of a port that rests, and the handshakes that only set flags.
LEMMA PrtRestTypes ==
  ASSUME TypeOK, NEW t \in Tree, NEW p \in Port,
         PrtDisabledPort(t, p) \/ PrtAlternatePort(t, p) \/ PrtBackupPort(t, p)
  PROVE  TypeOK'
<1>1. TreeTypes /\ tmr[t][p] \in TreeTimers
  BY DEF TypeOK, TreeTypes
<1>2. {"synced"} \in SUBSET TreeBit
      /\ {"DISABLED_PORT", "ALTERNATE_PORT", "BACKUP_PORT"} \subseteq PrtState
  BY DEF TreeBit, PrtState
<1>3. CASE PrtDisabledPort(t, p) \/ PrtAlternatePort(t, p)
  <2>1. PICK s \in {"DISABLED_PORT", "ALTERNATE_PORT"}, n \in Nat : PrtRests(t, p, s, n)
    BY <1>3, DelayTypes DEF PrtDisabledPort, PrtAlternatePort
  <2>2. bits' \in [Tree -> [Port -> SUBSET TreeBit]]
    BY <1>1, <1>2, <2>1, SetBitsType, Zenon DEF PrtRests, Flags
  <2>3. [tmr[t][p] EXCEPT !.fdWhile = n, !.rrWhile = 0] \in TreeTimers
    BY <1>1, RoleTimersType, Zenon
  <2>4. tmr' \in [Tree -> [Port -> TreeTimers]]
    BY <1>1, <2>1, <2>3, TimersType, Zenon DEF PrtRests
  <2> QED
    BY <1>2, <2>1, <2>2, <2>4, PrtMoveTypes DEF PrtRests
<1>4. CASE PrtBackupPort(t, p)
  <2>1. [tmr[t][p] EXCEPT !.rbWhile = 2 * HelloTime] \in TreeTimers
    BY <1>1, DelayTypes, RoleTimersType, Zenon
  <2>2. tmr' \in [Tree -> [Port -> TreeTimers]]
    BY <1>1, <1>4, <2>1, TimersType, Zenon DEF PrtBackupPort
  <2> QED
    BY <1>2, <1>4, <2>2, PrtMoveTypes DEF PrtBackupPort
<1> QED
  BY <1>3, <1>4

LEMMA PrtHandshakeTypes ==
  ASSUME TypeOK, NEW t \in Tree, NEW p \in Port,
         \/ PrtPropose(t, p) \/ PrtProposed(t, p) \/ PrtAgreed(t, p) \/ PrtAlternateAgreed(t, p)
         \/ PrtMasterAgreed(t, p) \/ PrtSynced(t, p) \/ PrtRootSynced(t, p)
  PROVE  TypeOK'
<1>1. PortTypes /\ TreeTypes /\ tmr[t][p] \in TreeTimers
  BY DEF TypeOK, TreeTypes
<1>2. /\ {"proposing"} \in SUBSET TreeBit /\ {"agree"} \in SUBSET TreeBit
      /\ {"synced"} \in SUBSET TreeBit /\ "sync" \in TreeBit
  BY DEF TreeBit
<1>3. /\ {"DESIGNATED_PROPOSE", "MASTER_PROPOSED", "ROOT_PROPOSED", "ALTERNATE_PROPOSED"}
           \subseteq PrtState
      /\ {"ROOT_AGREED", "DESIGNATED_AGREED", "ALTERNATE_AGREED", "MASTER_AGREED"}
           \subseteq PrtState
      /\ {"MASTER_SYNCED", "DESIGNATED_SYNCED", "ROOT_SYNCED"} \subseteq PrtState
  BY DEF PrtState
<1>4. SetComm(p, {NewInfo(t)}, {}) \in [Port -> SUBSET CommBit]
  BY <1>1, CommFlagTypes, Zenon
<1>5. CASE PrtPropose(t, p)
  <2>1. bits' \in [Tree -> [Port -> SUBSET TreeBit]]
    BY <1>1, <1>2, <1>5, SetBitsType, Zenon DEF PrtPropose, Flags
  <2>2. PICK n \in Nat : ctmr' = ctmr \/ ctmr' = [ctmr EXCEPT ![p].edgeDelayWhile = n]
    BY <1>5, DelayTypes DEF PrtPropose, MigrateTime
  <2>3. [ctmr EXCEPT ![p].edgeDelayWhile = n] \in [Port -> PortTimers]
    BY <1>1, CtmrType DEF PortTypes
  <2> QED
    BY <1>3, <1>4, <1>5, <2>1, <2>2, <2>3, PrtMoveTypes DEF PrtPropose
<1>6. CASE PrtProposed(t, p)
  <2>1. PICK s \in {"MASTER_PROPOSED", "ROOT_PROPOSED", "ALTERNATE_PROPOSED"} :
          PrtTo(t, p, s, <<>>)
    BY <1>6 DEF PrtProposed
  <2>2. WholeTree(t, p, "sync") \in [Tree -> [Port -> SUBSET TreeBit]]
    BY <1>1, <1>2, WholeTreeType
  <2>3. bits' \in [Tree -> [Port -> SUBSET TreeBit]]
    BY <1>6, <2>2 DEF PrtProposed
  <2> QED
    BY <1>3, <1>6, <2>1, <2>3, PrtMoveTypes DEF PrtProposed
<1>7. CASE PrtAgreed(t, p)
  <2>1. PICK s \in {"ROOT_AGREED", "DESIGNATED_AGREED"} :
          PrtTo(t, p, s, <<Call("PTX", CIST, p)>>)
    BY <1>7 DEF PrtAgreed
  <2>2. bits' \in [Tree -> [Port -> SUBSET TreeBit]]
    BY <1>1, <1>2, <1>7, SetBitsType, Zenon DEF PrtAgreed, Flags
  <2> QED
    BY <1>3, <1>4, <1>7, <2>1, <2>2, PrtMoveTypes DEF PrtAgreed
<1>8. CASE PrtAlternateAgreed(t, p)
  <2>1. bits' \in [Tree -> [Port -> SUBSET TreeBit]]
    BY <1>1, <1>2, <1>8, SetBitsType, Zenon DEF PrtAlternateAgreed, Flags
  <2> QED
    BY <1>3, <1>4, <1>8, <2>1, PrtMoveTypes DEF PrtAlternateAgreed
<1>9. CASE PrtMasterAgreed(t, p)
  <2>1. bits' \in [Tree -> [Port -> SUBSET TreeBit]]
    BY <1>1, <1>2, <1>9, SetBitsType, Zenon DEF PrtMasterAgreed, Flags
  <2> QED
    BY <1>3, <1>9, <2>1, PrtMoveTypes DEF PrtMasterAgreed
<1>10. CASE PrtSynced(t, p)
  <2>1. PICK s \in {"MASTER_SYNCED", "DESIGNATED_SYNCED"} : PrtTo(t, p, s, <<>>)
    BY <1>10 DEF PrtSynced
  <2>2. bits' \in [Tree -> [Port -> SUBSET TreeBit]]
    BY <1>1, <1>2, <1>10, SetBitsType, Zenon DEF PrtSynced, Flags
  <2>3. [tmr[t][p] EXCEPT !.rrWhile = 0] \in TreeTimers
    BY <1>1, RoleTimersType, 0 \in Nat, Zenon
  <2>4. tmr' \in [Tree -> [Port -> TreeTimers]]
    BY <1>1, <1>10, <2>3, TimersType, Zenon DEF PrtSynced
  <2> QED
    BY <1>3, <1>10, <2>1, <2>2, <2>4, PrtMoveTypes DEF PrtSynced
<1>11. CASE PrtRootSynced(t, p)
  <2>1. bits' \in [Tree -> [Port -> SUBSET TreeBit]]
    BY <1>1, <1>2, <1>11, SetBitsType, Zenon DEF PrtRootSynced, Flags
  <2> QED
    BY <1>3, <1>11, <2>1, PrtMoveTypes DEF PrtRootSynced
<1> QED
  BY <1>5, <1>6, <1>7, <1>8, <1>9, <1>10, <1>11

\* The states in which a port turns learn and forward on and off.
LEMMA PrtProgressTypes ==
  ASSUME TypeOK, NEW t \in Tree, NEW p \in Port,
         \/ PrtReRoot(t, p) \/ PrtRetired(t, p) \/ PrtLearn(t, p) \/ PrtForward(t, p)
         \/ PrtRootForward(t, p) \/ PrtDiscard(t, p)
  PROVE  TypeOK'
<1>1. TreeTypes /\ tmr[t][p] \in TreeTimers
  BY DEF TypeOK, TreeTypes
<1>2. /\ "reRoot" \in TreeBit /\ {} \in SUBSET TreeBit /\ {"learn"} \in SUBSET TreeBit
      /\ {"forward"} \in SUBSET TreeBit /\ {"forward", "agreed"} \in SUBSET TreeBit
  BY DEF TreeBit
<1>3. /\ {"REROOT", "MASTER_RETIRED", "DESIGNATED_RETIRED", "REROOTED"} \subseteq PrtState
      /\ {"MASTER_LEARN", "ROOT_LEARN", "DESIGNATED_LEARN"} \subseteq PrtState
      /\ {"MASTER_FORWARD", "DESIGNATED_FORWARD", "ROOT_FORWARD"} \subseteq PrtState
      /\ {"MASTER_DISCARD", "DESIGNATED_DISCARD"} \subseteq PrtState
  BY DEF PrtState
<1>4. /\ [tmr[t][p] EXCEPT !.fdWhile = ForwardDelay(p)] \in TreeTimers
      /\ [tmr[t][p] EXCEPT !.fdWhile = 0] \in TreeTimers
  BY <1>1, DelayTypes, RoleTimersType, 0 \in Nat, Zenon
<1>5. CASE PrtReRoot(t, p)
  <2>1. bits' \in [Tree -> [Port -> SUBSET TreeBit]]
    BY <1>1, <1>2, <1>5, WholeTreeType DEF PrtReRoot
  <2> QED
    BY <1>3, <1>5, <2>1, PrtMoveTypes DEF PrtReRoot
<1>6. CASE PrtRetired(t, p)
  <2>1. PICK s \in {"MASTER_RETIRED", "DESIGNATED_RETIRED", "REROOTED"} : PrtTo(t, p, s, <<>>)
    BY <1>6 DEF PrtRetired
  <2>2. bits' \in [Tree -> [Port -> SUBSET TreeBit]]
    BY <1>1, <1>2, <1>6, SetBitsType, Zenon DEF PrtRetired, Flags
  <2> QED
    BY <1>3, <1>6, <2>1, <2>2, PrtMoveTypes DEF PrtRetired
<1>7. CASE PrtLearn(t, p)
  <2>1. PICK s \in {"MASTER_LEARN", "ROOT_LEARN", "DESIGNATED_LEARN"} :
          PrtTo(t, p, s, Pst(t, p))
    BY <1>7 DEF PrtLearn
  <2>2. bits' \in [Tree -> [Port -> SUBSET TreeBit]]
    BY <1>1, <1>2, <1>7, SetBitsType, Zenon DEF PrtLearn, Flags
  <2>3. tmr' \in [Tree -> [Port -> TreeTimers]]
    BY <1>1, <1>4, <1>7, TimersType, Zenon DEF PrtLearn
  <2> QED
    BY <1>3, <1>7, <2>1, <2>2, <2>3, PrtMoveTypes DEF PrtLearn
<1>8. CASE PrtForward(t, p)
  <2>1. PICK s \in {"MASTER_FORWARD", "DESIGNATED_FORWARD"} : PrtTo(t, p, s, Pst(t, p))
    BY <1>8 DEF PrtForward
  <2>2. bits' \in [Tree -> [Port -> SUBSET TreeBit]]
    <3>1. /\ SetBits(t, p, {"forward", "agreed"}, {}) \in [Tree -> [Port -> SUBSET TreeBit]]
          /\ SetBits(t, p, {"forward"}, {"agreed"}) \in [Tree -> [Port -> SUBSET TreeBit]]
      BY <1>1, <1>2, SetBitsType, Zenon
    <3> QED
      BY <1>8, <3>1 DEF PrtForward, Flags
  <2>3. tmr' \in [Tree -> [Port -> TreeTimers]]
    BY <1>1, <1>4, <1>8, TimersType, Zenon DEF PrtForward
  <2> QED
    BY <1>3, <1>8, <2>1, <2>2, <2>3, PrtMoveTypes DEF PrtForward
<1>9. CASE PrtRootForward(t, p)
  <2>1. bits' \in [Tree -> [Port -> SUBSET TreeBit]]
    BY <1>1, <1>2, <1>9, SetBitsType, Zenon DEF PrtRootForward, Flags
  <2>2. tmr' \in [Tree -> [Port -> TreeTimers]]
    BY <1>1, <1>4, <1>9, TimersType, Zenon DEF PrtRootForward
  <2> QED
    BY <1>3, <1>9, <2>1, <2>2, PrtMoveTypes DEF PrtRootForward
<1>10. CASE PrtDiscard(t, p)
  <2>1. PICK s \in {"MASTER_DISCARD", "DESIGNATED_DISCARD"} : PrtTo(t, p, s, Pst(t, p))
    BY <1>10 DEF PrtDiscard
  <2>2. bits' \in [Tree -> [Port -> SUBSET TreeBit]]
    BY <1>1, <1>2, <1>10, SetBitsType, Zenon DEF PrtDiscard, Flags
  <2>3. tmr' \in [Tree -> [Port -> TreeTimers]]
    BY <1>1, <1>4, <1>10, TimersType, Zenon DEF PrtDiscard
  <2> QED
    BY <1>3, <1>10, <2>1, <2>2, <2>3, PrtMoveTypes DEF PrtDiscard
<1> QED
  BY <1>5, <1>6, <1>7, <1>8, <1>9, <1>10

LEMMA PrtTypes ==
  ASSUME TypeOK, NEW t \in Tree, NEW p \in Port, PrtSm(t, p)
  PROVE  TypeOK'
<1>1. CASE PrtReturn(t, p)
  BY <1>1, KeptTypes DEF PrtReturn, TypeOK
<1> QED
  BY <1>1, PrtRoleTypes, PrtRestTypes, PrtHandshakeTypes, PrtProgressTypes DEF PrtSm
==============================================================================
