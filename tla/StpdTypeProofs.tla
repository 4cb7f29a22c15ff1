---------------------------- MODULE StpdTypeProofs ----------------------------
(* TypeOK for every network: the initial records, the events, the queue's     *)
(* hand-over to the database, and the step of each machine (StpdMachineTypes) *)
(* keep it.  And ChangesQueued, which rests on less.                          *)
EXTENDS StpdMachineTypes

-----------------------------------------------------------------------------
(* Fresh records                                                             *)

LEMMA ZeroTypes == ZeroVector \in Vector /\ NoTimes \in Times
BY DEF ZeroVector, Vector, NoTimes, Times

LEMMA FreshPortTypes ==
  ASSUME NEW p \in Port
  PROVE  FreshComm(p) \in SUBSET CommBit /\ FreshCsm \in PortMachines /\ FreshCtmr \in PortTimers
<1>1. FreshComm(p) \in SUBSET CommBit
  BY DEF FreshComm, CommBit
<1>2. FreshCsm \in PortMachines
  BY DEF FreshCsm, PortMachines, PpmState, BdmState, PrxState, PtxState, PtiState
<1>3. FreshCtmr \in PortTimers
  BY DEF FreshCtmr, PortTimers, TxHoldCount
<1> QED
  BY <1>1, <1>2, <1>3

LEMMA FreshTreeTypes ==
  FreshFsm \in TreeMachines /\ FreshTmr \in TreeTimers /\ FreshInfo \in PortInfo
<1>1. FreshFsm \in TreeMachines
  BY DEF FreshFsm, TreeMachines, PimState, PrtState, PstState, TcmState
<1>2. FreshTmr \in TreeTimers
  BY DEF FreshTmr, TreeTimers
<1>3. FreshInfo \in PortInfo
  BY DEF FreshInfo, PortInfo, InfoIs, RcvdInfo, Role
<1> QED
  BY <1>1, <1>2, <1>3

LEMMA FreshVecType ==
  ASSUME NEW t \in Tree, NEW p \in Port
  PROVE  FreshVec(t, p) \in PortVectors
<1>1. BridgePriority(t, Owner[p]) \in Vector /\ PortId(p) \in Nat
  BY OwnerType, BridgeVectorTypes, PortIdType
<1>2. FreshPri(t, p) \in Vector
  BY <1>1, ZeroTypes DEF FreshPri, Vector
<1>3. FwdDelay \in Nat /\ HelloTime \in Nat
  BY ConstantsAssumption DEF HelloMaxSec
<1>4. /\ [NoTimes EXCEPT !.fwd = FwdDelay, !.hello = HelloTime] \in Times
      /\ [NoTimes EXCEPT !.fwd = FwdDelay] \in Times
  BY <1>3 DEF NoTimes, Times
<1> QED
  BY <1>2, <1>4, ZeroTypes DEF FreshVec, PortVectors

LEMMA FreshRootType ==
  ASSUME NEW t \in Tree, NEW b \in Bridge
  PROVE  FreshRoot(t, b) \in RootRecord
BY BridgeVectorTypes DEF FreshRoot, RootRecord

LEMMA NoBpduType == NoBpdu \in Bpdu
BY ZeroTypes DEF NoBpdu, Bpdu, BpduType, BpduRole

LEMMA InitTypes == Init => TypeOK
<1> SUFFICES ASSUME Init PROVE TypeOK
  OBVIOUS
<1>1. PortTypes
  BY FreshPortTypes DEF Init, PortTypes
<1>2. TreeTypes
  BY FreshTreeTypes, FreshVecType DEF Init, TreeTypes
<1>3. BridgeTypes
  <2>1. root \in [Tree -> [Bridge -> RootRecord]]
    BY FreshRootType DEF Init
  <2>2. prs \in [Tree -> [Bridge -> PrsState]]
    BY DEF Init, PrsState
  <2>3. [spanning |-> FALSE, begin |-> FALSE, preventTx |-> FALSE] \in Control
    BY DEF Control
  <2> QED
    BY <2>1, <2>2, <2>3 DEF Init, BridgeTypes
<1>4. DbTypes
  BY DEF Init, DbTypes
<1>5. NetTypes
  <2>1. left \in [EventKind -> Nat]
    BY ConstantsAssumption DEF Init
  <2> QED
    BY <2>1, NoBpduType DEF Init, NetTypes
<1> QED
  BY <1>1, <1>2, <1>3, <1>4, <1>5 DEF TypeOK

-----------------------------------------------------------------------------
(* Events                                                                    *)

LEMMA SpendType ==
  ASSUME NetTypes, NEW kind \in EventKind, Spend(kind)
  PROVE  left' \in [EventKind -> Nat]
BY DEF NetTypes, Spend

LEMMA StillDueType ==
  ASSUME NetTypes, NEW b
  PROVE  StillDue(b) \in SUBSET Bridge
BY DEF NetTypes, StillDue

\* Fields of a bridge's control record.
LEMMA ControlTypes ==
  ASSUME NEW f \in [Bridge -> Control], NEW b \in Bridge, NEW x \in BOOLEAN
  PROVE  /\ [f EXCEPT ![b].spanning = x] \in [Bridge -> Control]
         /\ [f EXCEPT ![b].begin = x] \in [Bridge -> Control]
         /\ [f EXCEPT ![b].preventTx = x] \in [Bridge -> Control]
BY DEF Control

LEMMA ControlStepTypes ==
  ASSUME BridgeTypes, UNCHANGED <<root, prs>>, ctl' = ctl \/ ctl' \in [Bridge -> Control]
  PROVE  BridgeTypes'
BY Zenon DEF BridgeTypes

LEMMA EnableTypes ==
  ASSUME TypeOK, NEW b \in Bridge, Enable(b)
  PROVE  TypeOK'
<1>1. PortTypes' /\ TreeTypes' /\ DbTypes'
  BY KeptTypes DEF TypeOK, Enable
<1>2. ctl' \in [Bridge -> Control]
  <2>1. [spanning |-> TRUE, begin |-> TRUE, preventTx |-> FALSE] \in Control
    BY DEF Control
  <2> QED
    BY <2>1 DEF TypeOK, BridgeTypes, Enable
<1>3. BridgeTypes'
  BY <1>2, ControlStepTypes DEF TypeOK, Enable
<1>4. NetTypes'
  BY SpendType, "admin" \in EventKind DEF TypeOK, NetTypes, Enable, EventKind
<1> QED
  BY <1>1, <1>3, <1>4 DEF TypeOK

LEMMA TickTypes ==
  ASSUME TypeOK, NEW b \in Bridge, Tick(b)
  PROVE  TypeOK'
<1>1. PortTypes' /\ TreeTypes' /\ BridgeTypes' /\ DbTypes'
  BY KeptTypes DEF TypeOK, Tick
<1>2. NetTypes'
  BY SpendType, StillDueType, "tick" \in EventKind DEF TypeOK, NetTypes, Tick, EventKind
<1> QED
  BY <1>1, <1>2 DEF TypeOK

LEMMA ClearTypes ==
  ASSUME TypeOK, NEW b \in Bridge, ClearProtocolData(b)
  PROVE  /\ PortTypes' /\ TreeTypes' /\ BridgeTypes'
         /\ pend' \in [Tree -> [Port -> {"none", "Blk", "Lrn", "Fwd"}]]
         /\ flushReq' \in [Tree -> [Port -> BOOLEAN]]
         /\ treeQ' \in [Bridge -> Seq(Tree)]
         /\ wire' \in [Port -> Seq(Bpdu)]
<1>1. PortTypes'
  BY FreshPortTypes DEF TypeOK, PortTypes, ClearProtocolData
<1>2. TreeTypes'
  BY FreshTreeTypes, FreshVecType DEF TypeOK, TreeTypes, ClearProtocolData, Renew
<1>3. BridgeTypes'
  <2>1. root' \in [Tree -> [Bridge -> RootRecord]]
    BY FreshRootType DEF TypeOK, BridgeTypes, ClearProtocolData
  <2>2. prs' \in [Tree -> [Bridge -> PrsState]]
    BY DEF TypeOK, BridgeTypes, PrsState, ClearProtocolData
  <2>3. ctl' \in [Bridge -> Control]
    BY ControlTypes, FALSE \in BOOLEAN, Zenon DEF TypeOK, BridgeTypes, ClearProtocolData
  <2> QED
    BY <2>1, <2>2, <2>3 DEF BridgeTypes
<1>4. pend' \in [Tree -> [Port -> {"none", "Blk", "Lrn", "Fwd"}]]
  BY DEF TypeOK, DbTypes, ClearProtocolData, Renew
<1>5. flushReq' \in [Tree -> [Port -> BOOLEAN]]
  BY FALSE \in BOOLEAN, Zenon DEF TypeOK, DbTypes, ClearProtocolData, Renew
<1>6. treeQ' \in [Bridge -> Seq(Tree)]
  <2>1. <<>> \in Seq(Tree)
    OBVIOUS
  <2>2. treeQ \in [Bridge -> Seq(Tree)] /\ treeQ' = [treeQ EXCEPT ![b] = <<>>]
    BY DEF TypeOK, DbTypes, ClearProtocolData
  <2> QED
    BY <2>1, <2>2, Zenon
<1>7. wire' \in [Port -> Seq(Bpdu)]
  <2>1. <<>> \in Seq(Bpdu)
    OBVIOUS
  <2>2. wire \in [Port -> Seq(Bpdu)]
    BY DEF TypeOK, NetTypes
  <2>3. \A p \in Port : (IF Owner[p] = b THEN <<>> ELSE wire[p]) \in Seq(Bpdu)
    BY <2>1, <2>2, Zenon
  <2>4. wire' = [p \in Port |-> IF Owner[p] = b THEN <<>> ELSE wire[p]]
    BY DEF ClearProtocolData
  <2> QED
    BY <2>3, <2>4, Zenon
<1> QED
  BY <1>1, <1>2, <1>3, <1>4, <1>5, <1>6, <1>7

LEMMA StoppedTypes ==
  ASSUME TypeOK, NEW b \in Bridge, Disable(b) \/ Reconfigure(b)
  PROVE  TypeOK'
<1>1. ClearProtocolData(b)
  BY DEF Disable, Reconfigure
<1>2. db' \in [Tree -> [Port -> {"Blocking", "Learning", "Forwarding"}]]
  BY DEF TypeOK, DbTypes, Disable, Reconfigure, Renew
<1>3. blockAll' = blockAll /\ rx' = rx /\ up' = up /\ due' = StillDue(b)
  BY DEF Disable, Reconfigure
<1>4. PortTypes' /\ TreeTypes' /\ BridgeTypes'
  BY <1>1, ClearTypes
<1>5. DbTypes'
  <2>1. blockAll' \in [Port -> BOOLEAN]
    BY <1>3, Zenon DEF TypeOK, DbTypes
  <2> QED
    BY <1>1, <1>2, <2>1, ClearTypes DEF DbTypes
<1>6. NetTypes'
  <2>1. left' \in [EventKind -> Nat]
    BY SpendType, "admin" \in EventKind DEF TypeOK, Disable, Reconfigure, EventKind
  <2>2. due' \in SUBSET Bridge
    BY <1>3, StillDueType DEF TypeOK
  <2>3. rx' \in Bpdu /\ up' \in [Port -> BOOLEAN]
    BY <1>3 DEF TypeOK, NetTypes
  <2>4. wire' \in [Port -> Seq(Bpdu)]
    BY <1>1, ClearTypes
  <2> QED
    BY <2>1, <2>2, <2>3, <2>4 DEF NetTypes
<1> QED
  BY <1>4, <1>5, <1>6 DEF TypeOK

LEMMA LinkUpTypes ==
  ASSUME TypeOK, NEW p \in Port, LinkUp(p)
  PROVE  TypeOK'
<1>1. PortTypes' /\ TreeTypes' /\ BridgeTypes'
  BY KeptTypes DEF TypeOK, LinkUp
<1>2. DbTypes'
  <2>1. UNCHANGED <<pend, flushReq, treeQ>>
    BY DEF LinkUp
  <2>2. db' \in [Tree -> [Port -> {"Blocking", "Learning", "Forwarding"}]]
    BY DEF TypeOK, DbTypes, LinkUp, NoStpLinkUp
  <2>3. blockAll' \in [Port -> BOOLEAN]
    BY FALSE \in BOOLEAN, Zenon DEF TypeOK, DbTypes, LinkUp, NoStpLinkUp
  <2> QED
    BY <2>1, <2>2, <2>3 DEF TypeOK, DbTypes
<1>3. NetTypes'
  <2>1. left' \in [EventKind -> Nat]
    BY SpendType, "link" \in EventKind DEF TypeOK, LinkUp, EventKind
  <2>2. up' \in [Port -> BOOLEAN]
    BY TRUE \in BOOLEAN, Zenon DEF TypeOK, NetTypes, LinkUp
  <2>3. UNCHANGED <<rx, wire, due>>
    BY DEF LinkUp
  <2> QED
    BY <2>1, <2>2, <2>3 DEF TypeOK, NetTypes
<1> QED
  BY <1>1, <1>2, <1>3 DEF TypeOK

LEMMA LinkDownTypes ==
  ASSUME TypeOK, NEW p \in Port, LinkDown(p)
  PROVE  TypeOK'
<1>1. TreeTypes'
  BY KeptTypes DEF TypeOK, LinkDown
<1>2. PortTypes'
  <2>1. SetComm(p, {}, {"portEnabled"}) \in [Port -> SUBSET CommBit]
    BY SetCommType DEF TypeOK
  <2>2. cbits' \in [Port -> SUBSET CommBit] /\ UNCHANGED <<csm, ctmr>>
    BY <2>1 DEF TypeOK, PortTypes, LinkDown
  <2> QED
    BY <2>2 DEF TypeOK, PortTypes
<1>3. BridgeTypes'
  <2>1. [ctl EXCEPT ![Owner[p]].preventTx = TRUE] \in [Bridge -> Control]
    BY OwnerType, ControlTypes, TRUE \in BOOLEAN, Zenon DEF TypeOK, BridgeTypes
  <2>2. ctl' = ctl \/ ctl' \in [Bridge -> Control]
    BY <2>1, Zenon DEF LinkDown
  <2> QED
    BY <2>2, ControlStepTypes DEF TypeOK, LinkDown
<1>4. DbTypes'
  <2>1. UNCHANGED <<pend, flushReq, treeQ, db>>
    BY DEF LinkDown
  <2>2. blockAll' \in [Port -> BOOLEAN]
    BY TRUE \in BOOLEAN, Zenon DEF TypeOK, DbTypes, LinkDown
  <2> QED
    BY <2>1, <2>2 DEF TypeOK, DbTypes
<1>5. NetTypes'
  <2>1. left' \in [EventKind -> Nat]
    BY SpendType, "link" \in EventKind DEF TypeOK, LinkDown, EventKind
  <2>2. up' \in [Port -> BOOLEAN]
    BY FALSE \in BOOLEAN, Zenon DEF TypeOK, NetTypes, LinkDown
  <2>3. UNCHANGED <<rx, wire, due>>
    BY DEF LinkDown
  <2> QED
    BY <2>1, <2>2, <2>3 DEF TypeOK, NetTypes
<1> QED
  BY <1>1, <1>2, <1>3, <1>4, <1>5 DEF TypeOK

\* A frame arrives, or is dropped.
LEMMA DeliverTypes ==
  ASSUME TypeOK, NEW p \in Port, NEW bpdu \in Bpdu, Deliver(p, bpdu)
  PROVE  /\ PortTypes' /\ TreeTypes' /\ BridgeTypes' /\ DbTypes'
         /\ rx' \in Bpdu /\ UNCHANGED <<up, due>>
<1>1. TreeTypes' /\ DbTypes' /\ UNCHANGED <<up, due>>
  BY KeptTypes DEF TypeOK, Deliver
<1>2. PortTypes'
  <2>1. SetComm(p, {"rcvdBPDU"}, {}) \in [Port -> SUBSET CommBit]
    BY SetCommType DEF TypeOK, CommBit
  <2>2. cbits' \in [Port -> SUBSET CommBit] /\ UNCHANGED <<csm, ctmr>>
    BY <2>1 DEF TypeOK, PortTypes, Deliver
  <2> QED
    BY <2>2 DEF TypeOK, PortTypes
<1>3. BridgeTypes'
  <2>1. [ctl EXCEPT ![Owner[p]].preventTx = TRUE] \in [Bridge -> Control]
    BY OwnerType, ControlTypes, TRUE \in BOOLEAN, Zenon DEF TypeOK, BridgeTypes
  <2>2. ctl' = ctl \/ ctl' \in [Bridge -> Control]
    BY <2>1, Zenon DEF Deliver
  <2> QED
    BY <2>2, ControlStepTypes DEF TypeOK, Deliver
<1>4. rx' \in Bpdu
  BY DEF TypeOK, NetTypes, Deliver
<1> QED
  BY <1>1, <1>2, <1>3, <1>4

\* The first frame leaves a wire.
LEMMA TakenTypes ==
  ASSUME TypeOK, NEW p \in Port, wire[p] # <<>>
  PROVE  /\ Head(wire[p]) \in Bpdu
         /\ [wire EXCEPT ![p] = Tail(@)] \in [Port -> Seq(Bpdu)]
<1>1. wire \in [Port -> Seq(Bpdu)] /\ wire[p] \in Seq(Bpdu)
  BY DEF TypeOK, NetTypes
<1>2. Head(wire[p]) \in Bpdu /\ Tail(wire[p]) \in Seq(Bpdu)
  BY <1>1
<1>3. [wire EXCEPT ![p] = Tail(wire[p])] \in [Port -> Seq(Bpdu)]
  BY <1>1, <1>2, Zenon
<1>4. [wire EXCEPT ![p] = Tail(@)] = [wire EXCEPT ![p] = Tail(wire[p])]
  BY Zenon
<1> QED
  BY <1>2, <1>3, <1>4

LEMMA ReceiveTypes ==
  ASSUME TypeOK, NEW p \in Port, Receive(p)
  PROVE  TypeOK'
<1>1. /\ Head(wire[p]) \in Bpdu
      /\ wire' \in [Port -> Seq(Bpdu)]
  BY TakenTypes DEF Receive
<1>2. /\ PortTypes' /\ TreeTypes' /\ BridgeTypes' /\ DbTypes'
      /\ rx' \in Bpdu /\ UNCHANGED <<up, due>>
  BY <1>1, DeliverTypes DEF Receive
<1>3. NetTypes'
  BY <1>1, <1>2 DEF TypeOK, NetTypes, Receive
<1> QED
  BY <1>2, <1>3 DEF TypeOK

LEMMA ReceiveForeignTypes ==
  ASSUME TypeOK, NEW p \in Port, ReceiveForeign(p)
  PROVE  TypeOK'
<1>1. PICK bpdu \in EnvBpdu[p] : Deliver(p, bpdu)
  BY DEF ReceiveForeign
<1>2. bpdu \in Bpdu
  BY <1>1, ConstantsAssumption
<1>3. /\ PortTypes' /\ TreeTypes' /\ BridgeTypes' /\ DbTypes'
      /\ rx' \in Bpdu /\ UNCHANGED <<up, due>>
  BY <1>1, <1>2, DeliverTypes
<1>4. left' \in [EventKind -> Nat]
  BY SpendType, "env" \in EventKind DEF TypeOK, ReceiveForeign, EventKind
<1>5. NetTypes'
  BY <1>3, <1>4 DEF TypeOK, NetTypes, ReceiveForeign
<1> QED
  BY <1>3, <1>5 DEF TypeOK

LEMMA LoseTypes ==
  ASSUME TypeOK, NEW p \in Port, Lose(p)
  PROVE  TypeOK'
<1>1. PortTypes' /\ TreeTypes' /\ BridgeTypes' /\ DbTypes'
  BY KeptTypes DEF TypeOK, Lose
<1>2. wire' \in [Port -> Seq(Bpdu)]
  BY TakenTypes DEF Lose
<1>3. left' \in [EventKind -> Nat]
  BY SpendType, "lose" \in EventKind DEF TypeOK, Lose, EventKind
<1>4. NetTypes'
  BY <1>2, <1>3 DEF TypeOK, NetTypes, Lose
<1> QED
  BY <1>1, <1>4 DEF TypeOK

-----------------------------------------------------------------------------
(* The steps of the events that are not state machines.                      *)

LEMMA ControlStepsTypes ==
  ASSUME TypeOK, NEW p \in Port, BeginDone(p) \/ PendingTx(p) \/ EnablePort(p)
  PROVE  TypeOK'
<1>1. TreeTypes' /\ DbTypes' /\ NetTypes'
  BY KeptTypes DEF TypeOK, BeginDone, PendingTx, EnablePort
<1>2. PortTypes'
  <2>1. SetComm(p, {"portEnabled"}, {}) \in [Port -> SUBSET CommBit]
    BY SetCommType DEF TypeOK, CommBit
  <2>2. cbits' \in [Port -> SUBSET CommBit] /\ UNCHANGED <<csm, ctmr>>
    BY <2>1 DEF TypeOK, PortTypes, BeginDone, PendingTx, EnablePort, commVars
  <2> QED
    BY <2>2 DEF TypeOK, PortTypes
<1>3. BridgeTypes'
  <2>1. /\ [ctl EXCEPT ![Owner[p]].preventTx = TRUE] \in [Bridge -> Control]
        /\ [ctl EXCEPT ![Owner[p]].preventTx = FALSE] \in [Bridge -> Control]
        /\ [ctl EXCEPT ![Owner[p]].begin = FALSE] \in [Bridge -> Control]
    BY OwnerType, ControlTypes, TRUE \in BOOLEAN, FALSE \in BOOLEAN, Zenon
       DEF TypeOK, BridgeTypes
  <2>2. ctl' = ctl \/ ctl' \in [Bridge -> Control]
    BY <2>1, Zenon DEF BeginDone, PendingTx, EnablePort
  <2> QED
    BY <2>2, ControlStepTypes DEF TypeOK, BeginDone, PendingTx, EnablePort
<1> QED
  BY <1>1, <1>2, <1>3 DEF TypeOK

LEMMA InformDBTypes ==
  ASSUME TypeOK, NEW p \in Port, InformDBStep(p)
  PROVE  TypeOK'
<1> DEFINE b == Owner[p]
<1>1. PortTypes' /\ TreeTypes' /\ BridgeTypes'
  BY KeptTypes DEF TypeOK, InformDBStep
<1>2. NetTypes'
  BY NoBpduType DEF TypeOK, NetTypes, InformDBStep, envVars
<1>3. db' \in [Tree -> [Port -> {"Blocking", "Learning", "Forwarding"}]]
  <2>1. \A t \in Tree, q \in Port :
          pend[t][q] # "none" => StateName[pend[t][q]] \in {"Blocking", "Learning", "Forwarding"}
    BY DEF TypeOK, DbTypes, StateName
  <2>2. \A t \in Tree, q \in Port : db[t][q] \in {"Blocking", "Learning", "Forwarding"}
    BY DEF TypeOK, DbTypes
  <2>3. db' = [t \in Tree |-> [q \in Port |->
                 IF Owner[q] = b /\ pend[t][q] # "none" THEN StateName[pend[t][q]]
                 ELSE db[t][q]]]
    BY DEF InformDBStep
  <2> QED
    BY <2>1, <2>2, <2>3
<1>4. blockAll' \in [Port -> BOOLEAN]
  <2>1. blockAll \in [Port -> BOOLEAN]
    BY DEF TypeOK, DbTypes
  <2>2. \A q \in Port :
          (IF Owner[q] # b \/ LastBlockWriter(b, q) = {} THEN blockAll[q]
           ELSE \A t \in LastBlockWriter(b, q) : pend[t][q] = "Blk") \in BOOLEAN
    BY <2>1, Zenon
  <2>3. blockAll' = [q \in Port |->
                 IF Owner[q] # b \/ LastBlockWriter(b, q) = {} THEN blockAll[q]
                 ELSE \A t \in LastBlockWriter(b, q) : pend[t][q] = "Blk"]
    BY DEF InformDBStep
  <2> QED
    BY <2>2, <2>3, Zenon
<1>5. pend' \in [Tree -> [Port -> {"none", "Blk", "Lrn", "Fwd"}]]
  BY DEF TypeOK, DbTypes, InformDBStep, Renew
<1>6. flushReq' \in [Tree -> [Port -> BOOLEAN]]
  <2>1. flushReq \in [Tree -> [Port -> BOOLEAN]]
    BY DEF TypeOK, DbTypes
  <2>2. Renew(flushReq, b, LAMBDA t, q : FALSE) \in [Tree -> [Port -> BOOLEAN]]
    BY <2>1, FALSE \in BOOLEAN, Zenon DEF Renew
  <2>3. flushReq' = flushReq \/ flushReq' = Renew(flushReq, b, LAMBDA t, q : FALSE)
    BY DEF InformDBStep
  <2> QED
    BY <2>1, <2>2, <2>3, Zenon
<1>7. treeQ' \in [Bridge -> Seq(Tree)]
  <2>1. treeQ \in [Bridge -> Seq(Tree)] /\ <<>> \in Seq(Tree)
    BY DEF TypeOK, DbTypes
  <2>2. [treeQ EXCEPT ![b] = <<>>] \in [Bridge -> Seq(Tree)]
    BY <2>1, Zenon
  <2>3. treeQ' = treeQ \/ treeQ' = [treeQ EXCEPT ![b] = <<>>]
    BY DEF InformDBStep
  <2> QED
    BY <2>1, <2>2, <2>3, Zenon
<1> QED
  BY <1>1, <1>2, <1>3, <1>4, <1>5, <1>6, <1>7 DEF TypeOK, DbTypes

-----------------------------------------------------------------------------
LEMMA StepKeepsTypes == TypeOK /\ [Next]_vars => TypeOK'
<1> SUFFICES ASSUME TypeOK, [Next]_vars PROVE TypeOK'
  OBVIOUS
<1>1. CASE RunStep
  <2>1. PICK t \in Tree, p \in Port : Runs(Head(stk).sm, t, p)
    BY <1>1 DEF RunStep
  <2>2. CASE PpmSm(p) \/ BdmSm(p) \/ PrxSm(p) \/ PtxSm(p) \/ PtiSm(p)
    BY <2>2, PpmTypes, BdmTypes, PrxTypes, PtxTypes, PtiTypes
  <2>3. CASE PstSm(t, p) \/ TcmSm(t, p) \/ PrsSm(t, p) \/ PimSm(t, p) \/ PrtSm(t, p)
    BY <2>3, PstTypes, TcmTypes, PrsTypes, PimTypes, PrtTypes
  <2>4. CASE BeginDone(p) \/ EnablePort(p) \/ PendingTx(p)
    BY <2>4, ControlStepsTypes
  <2>5. CASE InformDBStep(p)
    BY <2>5, InformDBTypes
  <2> QED
    BY <2>1, <2>2, <2>3, <2>4, <2>5 DEF Runs
<1>2. ASSUME NEW b \in Bridge, Enable(b) \/ Disable(b) \/ Reconfigure(b) \/ Tick(b)
      PROVE  TypeOK'
  BY <1>2, EnableTypes, StoppedTypes, TickTypes
<1>3. ASSUME NEW p \in Port,
             LinkUp(p) \/ LinkDown(p) \/ Receive(p) \/ ReceiveForeign(p) \/ Lose(p)
      PROVE  TypeOK'
  BY <1>3, LinkUpTypes, LinkDownTypes, ReceiveTypes, ReceiveForeignTypes, LoseTypes
<1>4. CASE UNCHANGED vars
  BY <1>4, KeptTypes DEF vars, TypeOK
<1> QED
  BY <1>1, <1>2, <1>3, <1>4 DEF Next, Event

\* Whatever the network and whatever BPDUs arrive, every variable but the call
\* stack keeps its type: no timer of mstp_ptiSm is counted below zero, mstp_ptxSm
\* never sends more than the hold count between two ticks, and the roles, states
\* and vectors the handlers compute are those their readers expect.
THEOREM TypesHold == Spec => []TypeOK
BY InitTypes, StepKeepsTypes, PTL DEF Spec

-----------------------------------------------------------------------------
(* The message queue: no state change and no flush is recorded without a     *)
(* message of its tree in MSTP_TREE_MSGS_QUEUE.                              *)

\* The part of the state the message queue consists of.
queueVars == <<pend, flushReq, treeQ>>

InQueue(t, b) == \E i \in DOMAIN treeQ[b] : treeQ[b][i] = t

QueueType ==
  /\ pend \in [Tree -> [Port -> {"none", "Blk", "Lrn", "Fwd"}]]
  /\ flushReq \in [Tree -> [Port -> BOOLEAN]]
  /\ treeQ \in [Bridge -> Seq(Tree)]

\* The inductive invariant: ChangesQueued with the types it rests on.
QueueInv ==
  /\ QueueType
  /\ \A t \in Tree, p \in Port :
       pend[t][p] # "none" \/ flushReq[t][p] => InQueue(t, Owner[p])

-----------------------------------------------------------------------------
(* Of the machines, only Port State Transition and Topology Change touch it. *)

LEMMA PortMachinesKeepQueue ==
  ASSUME NEW p \in Port,
         PpmSm(p) \/ BdmSm(p) \/ PrxSm(p) \/ PtxSm(p) \/ PtiSm(p)
  PROVE  UNCHANGED queueVars
<1>1. CASE PpmSm(p)
  BY <1>1 DEF PpmSm, PpmCheckingRstp, PpmSelectingStp, PpmSensing, PpmReturn, dbVars, queueVars
<1>2. CASE BdmSm(p)
  BY <1>2 DEF BdmSm, BdmEdge, BdmNotEdge, BdmReturn, dbVars, queueVars
<1>3. CASE PrxSm(p)
  BY <1>3 DEF PrxSm, PrxDiscard, PrxReceive, PrxMsti, PrxReturn, dbVars, queueVars
<1>4. CASE PtxSm(p)
  BY <1>4 DEF PtxSm, PtxInit, PtxIdle, PtxPeriodic, PtxConfig, PtxTcn, PtxRstp, PtxReturn,
              Transmitted, dbVars, queueVars
<1>5. CASE PtiSm(p)
  BY <1>5 DEF PtiSm, PtiOneSecond, PtiTick, PtiReturn, TickHello, TickMdelay, TickTree,
              TickInfo, dbVars, queueVars
<1> QED
  BY <1>1, <1>2, <1>3, <1>4, <1>5

LEMMA TreeMachinesKeepQueue ==
  ASSUME NEW t \in Tree, NEW p \in Port,
         PrsSm(t, p) \/ PimSm(t, p) \/ PrtSm(t, p)
  PROVE  UNCHANGED queueVars
<1>1. CASE PrsSm(t, p)
  BY <1>1 DEF PrsSm, PrsInitTree, PrsRoleSelection, PrsReturn, dbVars, queueVars
<1>2. CASE PimSm(t, p)
  BY <1>2 DEF PimSm, PimDisabled, PimAged, PimUpdate, PimCurrent, PimReceive, PimSuperior,
              PimRepeated, PimInferior, PimNotDesignated, PimOther, PimReturn, PimRecord,
              SyncMsti, PimAgedRest, PimSelected, PimDone, PimKeeps, dbVars, queueVars
<1>3. CASE PrtSm(t, p)
  BY <1>3 DEF PrtSm, PrtInitPort, PrtDisablePort, PrtDisabledPort, PrtBlockPort,
              PrtAlternatePort, PrtBackupPort, PrtMasterPort, PrtDesignatedPort, PrtRootPort,
              PrtPropose, PrtProposed, PrtAgreed, PrtAlternateAgreed, PrtMasterAgreed,
              PrtSynced, PrtRootSynced, PrtReRoot, PrtRetired, PrtLearn, PrtForward,
              PrtRootForward, PrtDiscard, PrtReturn, PrtTo, PrtStops, PrtRests, dbVars, queueVars
<1> QED
  BY <1>1, <1>2, <1>3

LEMMA EventsKeepQueue ==
  ASSUME NEW b \in Bridge, NEW p \in Port,
         \/ Enable(b) \/ Tick(b) \/ LinkUp(p) \/ LinkDown(p)
         \/ Receive(p) \/ ReceiveForeign(p) \/ Lose(p)
         \/ BeginDone(p) \/ EnablePort(p) \/ PendingTx(p)
  PROVE  UNCHANGED queueVars
BY DEF Enable, Tick, LinkUp, LinkDown, Receive, ReceiveForeign, Lose, BeginDone, EnablePort,
       PendingTx, Deliver, dbVars, queueVars

-----------------------------------------------------------------------------
(* A message joins the queue of its bridge.                                  *)

LEMMA EnqueuedHolds ==
  ASSUME NEW q \in Seq(Tree), NEW t \in Tree
  PROVE  /\ Enqueued(q, t) \in Seq(Tree)
         /\ \A u \in Tree :
              u = t \/ (\E i \in DOMAIN q : q[i] = u)
                => \E i \in DOMAIN Enqueued(q, t) : Enqueued(q, t)[i] = u
<1>1. CASE \E i \in DOMAIN q : q[i] = t
  BY <1>1 DEF Enqueued
<1>2. CASE ~ \E i \in DOMAIN q : q[i] = t
  <2>1. Enqueued(q, t) = Append(q, t)
    BY <1>2 DEF Enqueued
  <2>2. /\ Append(q, t) \in Seq(Tree)
        /\ Len(q) + 1 \in DOMAIN Append(q, t)
        /\ Append(q, t)[Len(q) + 1] = t
        /\ \A i \in DOMAIN q : i \in DOMAIN Append(q, t) /\ Append(q, t)[i] = q[i]
    OBVIOUS
  <2> QED
    BY <2>1, <2>2
<1> QED
  BY <1>1, <1>2

\* Changing one entry of a table with a row per tree and a column per port.
LEMMA EntryChanges ==
  ASSUME NEW S, NEW f \in [Tree -> [Port -> S]], NEW t \in Tree, NEW p \in Port, NEW x \in S
  PROVE  /\ [f EXCEPT ![t][p] = x] \in [Tree -> [Port -> S]]
         /\ \A u \in Tree, q \in Port :
              ~(u = t /\ q = p) => [f EXCEPT ![t][p] = x][u][q] = f[u][q]
OBVIOUS

\* A port's request goes with a message for its tree.
LEMMA RequestKeepsQueueInv ==
  ASSUME QueueInv, NEW t \in Tree, NEW p \in Port,
         NEW c \in {"none", "Blk", "Lrn", "Fwd"}, NEW f \in BOOLEAN,
         \/ pend' = [pend EXCEPT ![t][p] = c] /\ flushReq' = flushReq
         \/ flushReq' = [flushReq EXCEPT ![t][p] = f] /\ pend' = pend,
         treeQ' = [treeQ EXCEPT ![Owner[p]] = Enqueued(@, t)]
  PROVE  QueueInv'
<1> DEFINE b == Owner[p]
<1>1. /\ b \in Bridge
      /\ \A q \in Port : Owner[q] \in Bridge
  BY ConstantsAssumption
<1>2. treeQ[b] \in Seq(Tree) /\ treeQ'[b] = Enqueued(treeQ[b], t)
  BY <1>1 DEF QueueInv, QueueType
<1>3. QueueType'
  <2>1. treeQ' \in [Bridge -> Seq(Tree)]
    BY <1>1, <1>2, EnqueuedHolds DEF QueueInv, QueueType
  <2>2. pend' \in [Tree -> [Port -> {"none", "Blk", "Lrn", "Fwd"}]]
    <3>1. pend \in [Tree -> [Port -> {"none", "Blk", "Lrn", "Fwd"}]]
      BY DEF QueueInv, QueueType
    <3>2. [pend EXCEPT ![t][p] = c] \in [Tree -> [Port -> {"none", "Blk", "Lrn", "Fwd"}]]
      BY <3>1, EntryChanges, Zenon
    <3> QED
      BY <3>1, <3>2
  <2>3. flushReq' \in [Tree -> [Port -> BOOLEAN]]
    <3>1. flushReq \in [Tree -> [Port -> BOOLEAN]]
      BY DEF QueueInv, QueueType
    <3>2. [flushReq EXCEPT ![t][p] = f] \in [Tree -> [Port -> BOOLEAN]]
      BY <3>1, EntryChanges, Zenon
    <3> QED
      BY <3>1, <3>2, Zenon
  <2> QED
    BY <2>1, <2>2, <2>3 DEF QueueType
<1>4. \A u \in Tree :
        u = t \/ (\E i \in DOMAIN treeQ[b] : treeQ[b][i] = u)
          => \E i \in DOMAIN treeQ'[b] : treeQ'[b][i] = u
  <2>1. \A u \in Tree :
          u = t \/ (\E i \in DOMAIN treeQ[b] : treeQ[b][i] = u)
            => \E i \in DOMAIN Enqueued(treeQ[b], t) : Enqueued(treeQ[b], t)[i] = u
    BY <1>2, EnqueuedHolds
  <2> QED
    BY <2>1, <1>2
<1>5. ASSUME NEW u \in Tree, NEW q \in Port,
             pend'[u][q] # "none" \/ flushReq'[u][q]
      PROVE  InQueue(u, Owner[q])'
  <2>1. CASE u = t /\ q = p
    <3>1. \E i \in DOMAIN treeQ'[b] : treeQ'[b][i] = t
      BY <1>4
    <3> QED
      BY <3>1, <2>1 DEF InQueue
  <2>2. CASE ~(u = t /\ q = p)
    <3>1. pend'[u][q] = pend[u][q] /\ flushReq'[u][q] = flushReq[u][q]
      BY <2>2, EntryChanges DEF QueueInv, QueueType
    <3>2. \E i \in DOMAIN treeQ[Owner[q]] : treeQ[Owner[q]][i] = u
      BY <1>5, <3>1 DEF QueueInv, InQueue
    <3>3. CASE Owner[q] = b
      <4>1. \E i \in DOMAIN treeQ'[b] : treeQ'[b][i] = u
        BY <1>4, <3>2, <3>3
      <4> QED
        BY <4>1, <3>3 DEF InQueue
    <3>4. CASE Owner[q] # b
      <4>1. treeQ'[Owner[q]] = treeQ[Owner[q]]
        BY <1>1, <3>4 DEF QueueInv, QueueType
      <4> QED
        BY <4>1, <3>2 DEF InQueue
    <3> QED
      BY <3>3, <3>4
  <2> QED
    BY <2>1, <2>2
<1> QED
  BY <1>3, <1>5 DEF QueueInv

LEMMA PstKeepsQueueInv ==
  ASSUME QueueInv, NEW t \in Tree, NEW p \in Port, PstSm(t, p)
  PROVE  QueueInv'
<1>1. CASE \E c \in {"Blk", "Lrn", "Fwd"} : Queue(t, p, c)
  <2>1. PICK c \in {"Blk", "Lrn", "Fwd"} : Queue(t, p, c)
    BY <1>1
  <2> QED
    BY <2>1, RequestKeepsQueueInv, c \in {"none", "Blk", "Lrn", "Fwd"}, TRUE \in BOOLEAN DEF Queue
<1>2. CASE PstReturn(t, p)
  BY <1>2 DEF PstReturn, dbVars, QueueInv, QueueType, InQueue
<1> QED
  BY <1>1, <1>2 DEF PstSm, PstDiscarding, PstLearning, PstForwarding

LEMMA TcmKeepsQueueInv ==
  ASSUME QueueInv, NEW t \in Tree, NEW p \in Port, TcmSm(t, p)
  PROVE  QueueInv'
<1>1. CASE Flush(t, p)
  <2>1. CASE Comm(p, "operEdge")
    BY <1>1, <2>1 DEF Flush, dbVars, QueueInv, QueueType, InQueue
  <2>2. CASE ~Comm(p, "operEdge")
    <3>1. /\ flushReq' = [flushReq EXCEPT ![t][p] = TRUE]
          /\ treeQ' = [treeQ EXCEPT ![Owner[p]] = Enqueued(@, t)]
          /\ pend' = pend
      BY <1>1, <2>2 DEF Flush
    <3> QED
      BY <3>1, RequestKeepsQueueInv, "none" \in {"none", "Blk", "Lrn", "Fwd"}, TRUE \in BOOLEAN
  <2> QED
    BY <2>1, <2>2
<1>2. CASE UNCHANGED dbVars
  BY <1>2 DEF dbVars, QueueInv, QueueType, InQueue
<1> QED
  BY <1>1, <1>2 DEF TcmSm, TcmInactive, TcmLearning, TcmDetected, TcmActive, TcmNotifiedTcn,
     TcmNotifiedTc, TcmPropagating, TcmAcknowledged, TcmReturn, TcProp

-----------------------------------------------------------------------------
(* The messages leave the queue with everything that waits in them.          *)

\* After this, nothing of bridge b waits, and the other bridges have what they had.
Emptied(b) ==
  /\ pend' = Renew(pend, b, LAMBDA t, p : "none")
  /\ flushReq' = Renew(flushReq, b, LAMBDA t, p : FALSE)
  /\ treeQ' = [treeQ EXCEPT ![b] = <<>>]

LEMMA EmptiedKeepsQueueInv ==
  ASSUME QueueInv, NEW b \in Bridge, Emptied(b)
  PROVE  QueueInv'
<1>1. \A q \in Port : Owner[q] \in Bridge
  BY ConstantsAssumption
<1>2. /\ pend' = [t \in Tree |-> [p \in Port |-> IF Owner[p] = b THEN "none" ELSE pend[t][p]]]
      /\ flushReq' = [t \in Tree |-> [p \in Port |-> IF Owner[p] = b THEN FALSE ELSE flushReq[t][p]]]
  BY DEF Emptied, Renew
<1>3. QueueType'
  <2>1. pend' \in [Tree -> [Port -> {"none", "Blk", "Lrn", "Fwd"}]]
    BY <1>2 DEF QueueInv, QueueType
  <2>2. flushReq' \in [Tree -> [Port -> BOOLEAN]]
    <3>1. \A t \in Tree, p \in Port :
            (IF Owner[p] = b THEN FALSE ELSE flushReq[t][p]) \in BOOLEAN
      BY DEF QueueInv, QueueType
    <3> QED
      BY <1>2, <3>1, Zenon
  <2>3. treeQ' \in [Bridge -> Seq(Tree)]
    <3>1. <<>> \in Seq(Tree)
      OBVIOUS
    <3>2. treeQ \in [Bridge -> Seq(Tree)] /\ treeQ' = [treeQ EXCEPT ![b] = <<>>]
      BY DEF Emptied, QueueInv, QueueType
    <3> QED
      BY <3>1, <3>2, Zenon
  <2> QED
    BY <2>1, <2>2, <2>3 DEF QueueType
<1>4. ASSUME NEW u \in Tree, NEW q \in Port,
             pend'[u][q] # "none" \/ flushReq'[u][q]
      PROVE  InQueue(u, Owner[q])'
  <2>1. Owner[q] # b
    BY <1>2, <1>4
  <2>2. pend'[u][q] = pend[u][q] /\ flushReq'[u][q] = flushReq[u][q]
    BY <1>2, <2>1
  <2>3. treeQ'[Owner[q]] = treeQ[Owner[q]]
    BY <1>1, <2>1 DEF Emptied, QueueInv, QueueType
  <2> QED
    BY <1>4, <2>2, <2>3 DEF QueueInv, InQueue
<1> QED
  BY <1>3, <1>4 DEF QueueInv

LEMMA InformDBKeepsQueueInv ==
  ASSUME QueueInv, NEW p \in Port, InformDBStep(p)
  PROVE  QueueInv'
<1>1. Owner[p] \in Bridge /\ \A q \in Port : Owner[q] \in Bridge
  BY ConstantsAssumption
<1>2. CASE Head(stk).v = 1
  BY <1>1, <1>2, EmptiedKeepsQueueInv DEF InformDBStep, Emptied
<1>3. CASE Head(stk).v # 1
  <2>1. /\ pend' = [t \in Tree |-> [q \in Port |->
                      IF Owner[q] = Owner[p] THEN "none" ELSE pend[t][q]]]
        /\ flushReq' = flushReq
        /\ treeQ' = treeQ
    BY <1>3 DEF InformDBStep, Renew
  <2>2. QueueType'
    <3>1. pend' \in [Tree -> [Port -> {"none", "Blk", "Lrn", "Fwd"}]]
      BY <2>1 DEF QueueInv, QueueType
    <3> QED
      BY <2>1, <3>1 DEF QueueInv, QueueType
  <2>3. \A u \in Tree, q \in Port : pend'[u][q] # "none" => pend[u][q] # "none"
    BY <2>1
  <2> QED
    BY <2>1, <2>2, <2>3 DEF QueueInv, InQueue
<1> QED
  BY <1>2, <1>3

LEMMA DisableKeepsQueueInv ==
  ASSUME QueueInv, NEW b \in Bridge, Disable(b) \/ Reconfigure(b)
  PROVE  QueueInv'
BY EmptiedKeepsQueueInv DEF Disable, Reconfigure, ClearProtocolData, Emptied

-----------------------------------------------------------------------------
LEMMA InitQueueInv == Init => QueueInv
<1> SUFFICES ASSUME Init PROVE QueueInv
  OBVIOUS
<1>1. \A t \in Tree, p \in Port : pend[t][p] = "none" /\ flushReq[t][p] = FALSE
  BY DEF Init
<1>2. QueueType
  BY DEF Init, QueueType
<1> QED
  BY <1>1, <1>2 DEF QueueInv

LEMMA StepKeepsQueueInv == QueueInv /\ [Next]_vars => QueueInv'
<1> SUFFICES ASSUME QueueInv, [Next]_vars PROVE QueueInv'
  OBVIOUS
<1>1. UNCHANGED queueVars => QueueInv'
  BY DEF queueVars, QueueInv, QueueType, InQueue
<1>2. CASE RunStep
  <2>1. PICK t \in Tree, p \in Port : Runs(Head(stk).sm, t, p)
    BY <1>2 DEF RunStep
  <2>2. CASE PstSm(t, p)
    BY <2>2, PstKeepsQueueInv
  <2>3. CASE TcmSm(t, p)
    BY <2>3, TcmKeepsQueueInv
  <2>4. CASE InformDBStep(p)
    BY <2>4, InformDBKeepsQueueInv
  <2>5. CASE PpmSm(p) \/ BdmSm(p) \/ PrxSm(p) \/ PtxSm(p) \/ PtiSm(p)
    BY <2>5, <1>1, PortMachinesKeepQueue
  <2>6. CASE PrsSm(t, p) \/ PimSm(t, p) \/ PrtSm(t, p)
    BY <2>6, <1>1, TreeMachinesKeepQueue
  <2>7. CASE BeginDone(p) \/ EnablePort(p) \/ PendingTx(p)
    <3>1. Owner[p] \in Bridge
      BY ConstantsAssumption
    <3> QED
      BY <2>7, <3>1, <1>1, EventsKeepQueue
  <2> QED
    BY <2>1, <2>2, <2>3, <2>4, <2>5, <2>6, <2>7 DEF Runs
<1>3. ASSUME NEW b \in Bridge, Enable(b) \/ Disable(b) \/ Reconfigure(b) \/ Tick(b)
      PROVE  QueueInv'
  <2>1. CASE Disable(b) \/ Reconfigure(b)
    BY <2>1, DisableKeepsQueueInv
  <2>2. CASE Enable(b) \/ Tick(b)
    BY <2>2, <1>1 DEF Enable, Tick, dbVars, queueVars
  <2> QED
    BY <1>3, <2>1, <2>2
<1>4. ASSUME NEW p \in Port,
             LinkUp(p) \/ LinkDown(p) \/ Receive(p) \/ ReceiveForeign(p) \/ Lose(p)
      PROVE  QueueInv'
  <2>1. Owner[p] \in Bridge
    BY ConstantsAssumption
  <2> QED
    BY <1>4, <2>1, <1>1, EventsKeepQueue
<1>5. CASE UNCHANGED vars
  BY <1>5, <1>1 DEF vars, dbVars, queueVars
<1> QED
  BY <1>2, <1>3, <1>4, <1>5 DEF Next, Event

\* Every state change and every flush that is recorded waits in a message that
\* mstp_informDBOnPortStateChange will find, on any number of bridges, ports and
\* trees, whatever BPDUs arrive.
THEOREM ChangesAlwaysQueued == Spec => []ChangesQueued
<1>1. QueueInv => ChangesQueued
  BY DEF QueueInv, ChangesQueued, InQueue
<1> QED
  BY <1>1, InitQueueInv, StepKeepsQueueInv, PTL DEF Spec
=============================================================================
