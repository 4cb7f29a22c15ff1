--------------------------- MODULE StpdHandlerProofs ---------------------------
(* What the handlers of the machines preserve, for every network: the hello  *)
(* time a port works with is in range (HelloInRange), a Root Port agrees     *)
(* only to what its siblings are synchronised for (AgreementIsSafe), the     *)
(* switch is told what Port Role Transitions decided (Published), in the one *)
(* key a port has for all trees as well (BlockAllAgrees), and that lets only *)
(* ports with an active role pass traffic (OnlyActivePasses).                *)
EXTENDS StpdStackProofs

-----------------------------------------------------------------------------
(* HelloInRange                                                              *)

InRange(n) == n \in 1..HelloMaxSec

\* The inductive invariant.  A port that takes over the root's times in UPDATE
\* gets them from the bridge's root record, which got them from the Root Port.
RootHelloInRange ==
  \A b \in Bridge : root[CIST][b].port # NoPort => InRange(root[CIST][b].times.hello)
HelloInv == HelloInRange /\ RootHelloInRange

LEMMA HelloKept ==
  ASSUME HelloInv, UNCHANGED root,
         \A q \in Port : vec'[CIST][q].portTimes = vec[CIST][q].portTimes
  PROVE  HelloInv'
BY DEF HelloInv, HelloInRange, RootHelloInRange, InRange

-----------------------------------------------------------------------------
(* Only Port Information, Port Role Selection and a restart touch times.     *)

LEMMA PortMachinesKeepHello ==
  ASSUME HelloInv, NEW p \in Port,
         PpmSm(p) \/ BdmSm(p) \/ PrxSm(p) \/ PtxSm(p) \/ PtiSm(p)
  PROVE  HelloInv'
<1>1. UNCHANGED <<vec, root>>
  <2>1. CASE PpmSm(p)
    BY <2>1 DEF PpmSm, PpmCheckingRstp, PpmSelectingStp, PpmSensing, PpmReturn, treeVars,
                bridgeVars
  <2>2. CASE BdmSm(p)
    BY <2>2 DEF BdmSm, BdmEdge, BdmNotEdge, BdmReturn, treeVars, bridgeVars
  <2>3. CASE PrxSm(p)
    BY <2>3 DEF PrxSm, PrxDiscard, PrxReceive, PrxMsti, PrxReturn, treeVars, bridgeVars
  <2>4. CASE PtxSm(p)
    BY <2>4 DEF PtxSm, PtxInit, PtxIdle, PtxPeriodic, PtxConfig, PtxTcn, PtxRstp, PtxReturn,
                Transmitted, treeVars, bridgeVars
  <2>5. CASE PtiSm(p)
    BY <2>5 DEF PtiSm, PtiOneSecond, PtiTick, PtiReturn, TickHello, TickMdelay, TickTree,
                TickInfo, treeVars, bridgeVars
  <2> QED
    BY <2>1, <2>2, <2>3, <2>4, <2>5
<1> QED
  BY <1>1, HelloKept

LEMMA TreeMachinesKeepHello ==
  ASSUME HelloInv, NEW t \in Tree, NEW p \in Port, PstSm(t, p) \/ TcmSm(t, p) \/ PrtSm(t, p)
  PROVE  HelloInv'
<1>1. UNCHANGED <<vec, root>>
  <2>1. CASE PstSm(t, p)
    BY <2>1 DEF PstSm, PstDiscarding, PstLearning, PstForwarding, PstReturn, PstMoves, treeVars,
                bridgeVars
  <2>2. CASE TcmSm(t, p)
    BY <2>2 DEF TcmSm, TcmInactive, TcmLearning, TcmDetected, TcmActive, TcmNotifiedTcn,
                TcmNotifiedTc, TcmPropagating, TcmAcknowledged, TcmReturn, TcProp, TcmKeeps,
                treeVars, bridgeVars
  <2>3. CASE PrtSm(t, p)
    BY <2>3 DEF PrtSm, PrtInitPort, PrtDisablePort, PrtDisabledPort, PrtBlockPort,
                PrtAlternatePort, PrtBackupPort, PrtMasterPort, PrtDesignatedPort, PrtRootPort,
                PrtPropose, PrtProposed, PrtAgreed, PrtAlternateAgreed, PrtMasterAgreed,
                PrtSynced, PrtRootSynced, PrtReRoot, PrtRetired, PrtLearn, PrtForward,
                PrtRootForward, PrtDiscard, PrtReturn, PrtTo, PrtStops, PrtRests, treeVars,
                bridgeVars
  <2> QED
    BY <2>1, <2>2, <2>3
<1> QED
  BY <1>1, HelloKept

LEMMA EventsKeepHello ==
  ASSUME HelloInv, NEW b \in Bridge, NEW p \in Port,
         \/ Enable(b) \/ Tick(b) \/ LinkUp(p) \/ LinkDown(p)
         \/ Receive(p) \/ ReceiveForeign(p) \/ Lose(p)
         \/ BeginDone(p) \/ EnablePort(p) \/ PendingTx(p) \/ InformDBStep(p)
  PROVE  HelloInv'
<1>1. UNCHANGED <<vec, root>>
  BY DEF Enable, Tick, LinkUp, LinkDown, Receive, ReceiveForeign, Lose, BeginDone, EnablePort,
         PendingTx, InformDBStep, Deliver, treeVars, bridgeVars
<1> QED
  BY <1>1, HelloKept

\* What a restart leaves: the configured hello time, and no Root Port.
LEMMA FreshHello ==
  /\ \A p \in Port : InRange(FreshVec(CIST, p).portTimes.hello)
  /\ \A b \in Bridge : FreshRoot(CIST, b).port = NoPort
<1>1. InRange(HelloTime)
  BY ConstantsAssumption DEF InRange
<1>2. [NoTimes EXCEPT !.fwd = FwdDelay, !.hello = HelloTime].hello = HelloTime
  BY DEF NoTimes
<1>3. \A p \in Port : FreshVec(CIST, p).portTimes.hello = HelloTime
  BY <1>2 DEF FreshVec
<1> QED
  BY <1>1, <1>3 DEF FreshRoot

LEMMA ClearKeepsHello ==
  ASSUME HelloInv, NEW b \in Bridge, ClearProtocolData(b)
  PROVE  HelloInv'
<1>1. CIST \in Tree
  BY PortsAreNumbers
<1>2. HelloInRange'
  <2>1. ASSUME NEW q \in Port
        PROVE  vec'[CIST][q] = IF Owner[q] = b THEN FreshVec(CIST, q) ELSE vec[CIST][q]
    BY <1>1 DEF ClearProtocolData, Renew
  <2>2. ASSUME NEW q \in Port
        PROVE  InRange(vec'[CIST][q].portTimes.hello)
    BY <2>1, FreshHello DEF HelloInv, HelloInRange, InRange
  <2> QED
    BY <2>2 DEF HelloInRange, InRange
<1>3. RootHelloInRange'
  <2>1. root'[CIST] = [root[CIST] EXCEPT ![b] = FreshRoot(CIST, b)]
    BY <1>1 DEF ClearProtocolData
  <2>2. ASSUME NEW c \in Bridge, root'[CIST][c].port # NoPort
        PROVE  InRange(root'[CIST][c].times.hello)
    BY <2>1, <2>2, FreshHello DEF HelloInv, RootHelloInRange
  <2> QED
    BY <2>2 DEF RootHelloInRange
<1> QED
  BY <1>2, <1>3 DEF HelloInv

-----------------------------------------------------------------------------
(* Port Role Selection takes the root's times from the port it selects.      *)

LEMMA NewRootHello ==
  ASSUME TypeOK, HelloInv, NEW b \in Bridge, NewRoot(CIST, b).port # NoPort
  PROVE  InRange(NewRoot(CIST, b).times.hello)
<1> DEFINE q == NewRootPort(CIST, b)
<1>1. q \in Port /\ q # NoPort
  BY PortsAreNumbers, NewRootPortType DEF NewRoot
<1>2. NewRoot(CIST, b).times = NewRootTimes(CIST, b, q)
  BY DEF NewRoot
<1>3. vec[CIST][q].portTimes \in Times
  BY <1>1, PortsAreNumbers DEF TypeOK, TreeTypes, PortVectors
<1> HIDE DEF q
<1>4. NewRootTimes(CIST, b, q).hello = vec[CIST][q].portTimes.hello
  BY <1>1, <1>3 DEF NewRootTimes, Times
<1>5. InRange(vec[CIST][q].portTimes.hello)
  BY <1>1 DEF HelloInv, HelloInRange, InRange
<1> QED
  BY <1>2, <1>4, <1>5

LEMMA PrsKeepsHello ==
  ASSUME TypeOK, HelloInv, NEW t \in Tree, NEW p \in Port, PrsSm(t, p)
  PROVE  HelloInv'
<1> DEFINE b == Owner[p]
           new == NewRoot(t, b)
<1>1. CASE PrsInitTree(t, p)
  BY <1>1, HelloKept DEF PrsInitTree
<1>2. CASE PrsReturn(t, p)
  BY <1>2, HelloKept DEF PrsReturn, treeVars, bridgeVars
<1>3. CASE PrsRoleSelection(t, p)
  <2>1. /\ root' = [root EXCEPT ![t][b] = new]
        /\ vec' = [vec EXCEPT ![t] = [q \in Port |->
                     IF Owner[q] = b THEN [vec[t][q] EXCEPT !.dsnPri = DsnPri(t, q, new),
                                                            !.dsnTimes = new.times]
                     ELSE vec[t][q]]]
    BY <1>3 DEF PrsRoleSelection
  <2>2. /\ vec \in [Tree -> [Port -> PortVectors]]
        /\ root \in [Tree -> [Bridge -> RootRecord]]
        /\ CIST \in Tree /\ b \in Bridge
    BY PortsAreNumbers, OwnerType DEF TypeOK, TreeTypes, BridgeTypes
  <2>3. ASSUME NEW q \in Port
        PROVE  vec'[CIST][q].portTimes = vec[CIST][q].portTimes
    <3>1. vec[CIST][q] \in PortVectors
      BY <2>2
    <3>2. \A v, w : [vec[CIST][q] EXCEPT !.dsnPri = v, !.dsnTimes = w].portTimes
                      = vec[CIST][q].portTimes
      BY <3>1 DEF PortVectors
    <3>3. CASE t = CIST
      <4> HIDE DEF new
      <4>1. vec'[CIST][q] = IF Owner[q] = b
                            THEN [vec[CIST][q] EXCEPT !.dsnPri = DsnPri(CIST, q, new),
                                                      !.dsnTimes = new.times]
                            ELSE vec[CIST][q]
        BY <2>1, <2>2, <3>3
      <4> QED
        BY <3>2, <4>1
    <3>4. CASE t # CIST
      BY <2>1, <2>2, <3>4
    <3> QED
      BY <3>3, <3>4
  <2>4. HelloInRange'
    BY <2>3 DEF HelloInv, HelloInRange
  <2>5. RootHelloInRange'
    <3>1. ASSUME NEW c \in Bridge, root'[CIST][c].port # NoPort
          PROVE  InRange(root'[CIST][c].times.hello)
      <4>1. CASE t = CIST /\ c = b
        <5>1. root'[CIST][c] = NewRoot(CIST, b)
          BY <2>1, <2>2, <4>1
        <5> QED
          BY <2>2, <3>1, <5>1, NewRootHello
      <4>2. CASE ~(t = CIST /\ c = b)
        <5>1. root'[CIST][c] = root[CIST][c]
          BY <2>1, <2>2, <4>2
        <5> QED
          BY <3>1, <5>1 DEF HelloInv, RootHelloInRange
      <4> QED
        BY <4>1, <4>2
    <3> QED
      BY <3>1 DEF RootHelloInRange
  <2> QED
    BY <2>4, <2>5 DEF HelloInv
<1> QED
  BY <1>1, <1>2, <1>3 DEF PrsSm

-----------------------------------------------------------------------------
(* Port Information takes a port's times from the root, or from a BPDU.      *)

\* One port's record is replaced by one whose hello time is in range.
LEMMA PortHelloTaken ==
  ASSUME TypeOK, HelloInv, NEW t \in Tree, NEW p \in Port, NEW r,
         vec' = [vec EXCEPT ![t][p] = r], UNCHANGED root,
         t = CIST => InRange(r.portTimes.hello)
  PROVE  HelloInv'
<1>1. vec \in [Tree -> [Port -> PortVectors]] /\ CIST \in Tree
  BY PortsAreNumbers DEF TypeOK, TreeTypes
<1>2. ASSUME NEW q \in Port
      PROVE  InRange(vec'[CIST][q].portTimes.hello)
  <2>1. CASE t = CIST /\ q = p
    BY <1>1, <2>1
  <2>2. CASE ~(t = CIST /\ q = p)
    <3>1. vec'[CIST][q] = vec[CIST][q]
      BY <1>1, <2>2
    <3> QED
      BY <3>1 DEF HelloInv, HelloInRange, InRange
  <2> QED
    BY <2>1, <2>2
<1> QED
  BY <1>2 DEF HelloInv, HelloInRange, RootHelloInRange, InRange

LEMMA PimUpdateKeepsHello ==
  ASSUME TypeOK, HelloInv, NEW t \in Tree, NEW p \in Port, PimUpdate(t, p)
  PROVE  HelloInv'
<1> DEFINE r == [vec[t][p] EXCEPT !.portPri = vec[t][p].dsnPri,
                                  !.portTimes = UpdatedTimes(t, p)]
<1>1. vec[t][p] \in PortVectors /\ vec[t][p].dsnTimes \in Times
  BY DEF TypeOK, TreeTypes, PortVectors
<1>2. r.portTimes = UpdatedTimes(t, p)
  BY <1>1 DEF PortVectors
<1>3. ASSUME t = CIST
      PROVE  InRange(UpdatedTimes(t, p).hello)
  <2>1. InRange(HelloTime)
    BY ConstantsAssumption DEF InRange
  <2>2. Owner[p] \in Bridge
    BY OwnerType
  <2>3. UpdatedTimes(t, p).hello = IF root[CIST][Owner[p]].port # NoPort
                                   THEN root[CIST][Owner[p]].times.hello ELSE HelloTime
    BY <1>1, <1>3 DEF UpdatedTimes, RootTimes, Times
  <2> QED
    BY <2>1, <2>2, <2>3 DEF HelloInv, RootHelloInRange
<1>4. vec' = [vec EXCEPT ![t][p] = r] /\ UNCHANGED root
  BY DEF PimUpdate, PimKeeps, bridgeVars, TypeOK, TreeTypes
<1> HIDE DEF r
<1> QED
  BY <1>2, <1>3, <1>4, PortHelloTaken

LEMMA PimReceiveKeepsHello ==
  ASSUME TypeOK, HelloInv, NEW t \in Tree, NEW p \in Port, PimReceive(t, p)
  PROVE  HelloInv'
<1>1. UNCHANGED root
  BY DEF PimReceive, PimKeeps, bridgeVars
<1>2. vec \in [Tree -> [Port -> PortVectors]] /\ CIST \in Tree
  BY PortsAreNumbers DEF TypeOK, TreeTypes
<1>3. CASE vec' = vec
  BY <1>1, <1>3, HelloKept
<1>4. CASE vec' # vec
  <2>1. PICK w : vec' = [vec EXCEPT ![t][p].msgPri = MsgPri(t, p), ![t][p].msgTimes = w]
    BY <1>4 DEF PimReceive
  <2>2. ASSUME NEW q \in Port
        PROVE  vec'[CIST][q].portTimes = vec[CIST][q].portTimes
    <3>1. vec[CIST][q] \in PortVectors
      BY <1>2
    <3>2. CASE t = CIST /\ q = p
      <4>1. vec'[CIST][q] = [vec[CIST][q] EXCEPT !.msgPri = MsgPri(t, p), !.msgTimes = w]
        BY <1>2, <2>1, <3>2
      <4> QED
        BY <3>1, <4>1 DEF PortVectors
    <3>3. CASE ~(t = CIST /\ q = p)
      BY <1>2, <2>1, <3>3
    <3> QED
      BY <3>2, <3>3
  <2> QED
    BY <1>1, <2>2, HelloKept
<1> QED
  BY <1>3, <1>4

LEMMA PimRecordKeepsHello ==
  ASSUME TypeOK, HelloInv, NEW t \in Tree, NEW p \in Port, PimRecord(t, p)
  PROVE  HelloInv'
<1> DEFINE r == [vec[t][p] EXCEPT !.portPri = vec[t][p].msgPri,
                                  !.portTimes = RecordedTimes(t, p)]
<1>1. vec[t][p] \in PortVectors /\ vec[t][p].msgTimes \in Times
  BY DEF TypeOK, TreeTypes, PortVectors
<1>2. r.portTimes = RecordedTimes(t, p)
  BY <1>1 DEF PortVectors
<1>3. ASSUME t = CIST
      PROVE  InRange(RecordedTimes(t, p).hello)
  <2> DEFINE h == vec[t][p].msgTimes.hello
  <2>1. h \in Nat
    BY <1>1 DEF Times
  <2>2. RecordedTimes(t, p).hello
          = IF h < 1 THEN 1 ELSE IF h > HelloMaxSec THEN HelloMaxSec ELSE h
    BY <1>1, <1>3 DEF RecordedTimes, Times
  <2> HIDE DEF h
  <2> QED
    BY <2>1, <2>2 DEF InRange, HelloMaxSec
<1>4. vec' = [vec EXCEPT ![t][p] = r] /\ UNCHANGED root
  BY DEF PimRecord, PimKeeps, bridgeVars, TypeOK, TreeTypes
<1> HIDE DEF r
<1> QED
  BY <1>2, <1>3, <1>4, PortHelloTaken

LEMMA PimKeepsHello ==
  ASSUME TypeOK, HelloInv, NEW t \in Tree, NEW p \in Port, PimSm(t, p)
  PROVE  HelloInv'
<1>1. CASE PimUpdate(t, p) \/ PimReceive(t, p) \/ PimRecord(t, p)
  BY <1>1, PimUpdateKeepsHello, PimReceiveKeepsHello, PimRecordKeepsHello
<1>2. CASE UNCHANGED <<vec, root>>
  BY <1>2, HelloKept
<1> QED
  BY <1>1, <1>2 DEF PimSm, PimDisabled, PimAged, PimCurrent, PimSuperior, PimRepeated,
     PimInferior, PimNotDesignated, PimOther, PimReturn, SyncMsti, PimAgedRest, PimSelected,
     PimDone, PimKeeps, treeVars, bridgeVars

-----------------------------------------------------------------------------
LEMMA InitHelloInv == Init => HelloInv
<1> SUFFICES ASSUME Init PROVE HelloInv
  OBVIOUS
<1>1. CIST \in Tree
  BY PortsAreNumbers
<1>2. \A p \in Port : vec[CIST][p] = FreshVec(CIST, p)
  BY <1>1 DEF Init
<1>3. \A b \in Bridge : root[CIST][b] = FreshRoot(CIST, b)
  BY <1>1 DEF Init
<1> QED
  BY <1>2, <1>3, FreshHello DEF HelloInv, HelloInRange, RootHelloInRange, InRange

LEMMA StepKeepsHelloInv == TypeOK /\ HelloInv /\ [Next]_vars => HelloInv'
<1> SUFFICES ASSUME TypeOK, HelloInv, [Next]_vars PROVE HelloInv'
  OBVIOUS
<1>1. CASE RunStep
  <2>1. PICK t \in Tree, p \in Port : Runs(Head(stk).sm, t, p)
    BY <1>1 DEF RunStep
  <2>2. CASE PpmSm(p) \/ BdmSm(p) \/ PrxSm(p) \/ PtxSm(p) \/ PtiSm(p)
    BY <2>2, PortMachinesKeepHello
  <2>3. CASE PstSm(t, p) \/ TcmSm(t, p) \/ PrtSm(t, p)
    BY <2>3, TreeMachinesKeepHello
  <2>4. CASE PrsSm(t, p) \/ PimSm(t, p)
    BY <2>4, PrsKeepsHello, PimKeepsHello
  <2>5. CASE BeginDone(p) \/ EnablePort(p) \/ PendingTx(p) \/ InformDBStep(p)
    BY <2>5, OwnerType, EventsKeepHello
  <2> QED
    BY <2>1, <2>2, <2>3, <2>4, <2>5 DEF Runs
<1>2. ASSUME NEW b \in Bridge, Enable(b) \/ Disable(b) \/ Reconfigure(b) \/ Tick(b)
      PROVE  HelloInv'
  <2>1. CASE Disable(b) \/ Reconfigure(b)
    BY <2>1, ClearKeepsHello DEF Disable, Reconfigure
  <2>2. CASE Enable(b) \/ Tick(b)
    BY <2>2, HelloKept DEF Enable, Tick, treeVars, bridgeVars
  <2> QED
    BY <1>2, <2>1, <2>2
<1>3. ASSUME NEW p \in Port,
             LinkUp(p) \/ LinkDown(p) \/ Receive(p) \/ ReceiveForeign(p) \/ Lose(p)
      PROVE  HelloInv'
  BY <1>3, OwnerType, EventsKeepHello
<1>4. CASE UNCHANGED vars
  BY <1>4, HelloKept DEF vars, treeVars, bridgeVars
<1> QED
  BY <1>1, <1>2, <1>3, <1>4 DEF Next, Event

\* The hello time of a port is in range whatever hello times BPDUs carry, and
\* whichever way it comes to the port: configured, from a BPDU (mstp_recordTimes
\* clamps it) or from the Root Port by way of the bridge's root times.
THEOREM HelloAlwaysInRange == Spec => []HelloInRange
<1>1. HelloInv => HelloInRange
  BY DEF HelloInv
<1> QED
  BY <1>1, InitHelloInv, StepKeepsHelloInv, TypesHold, PTL DEF Spec

-----------------------------------------------------------------------------
(* AgreementIsSafe                                                           *)

\* No port of any tree comes to agree.
NoNewAgree == \A u \in Tree, q \in Port : "agree" \in bits'[u][q] => "agree" \in bits[u][q]

LEMMA FlagsAgree ==
  ASSUME TypeOK, NEW t \in Tree, NEW p \in Port, NEW set, NEW clr, "agree" \notin set,
         bits' = bits \/ bits' = SetBits(t, p, set, clr)
  PROVE  NoNewAgree
<1>1. bits \in [Tree -> [Port -> SUBSET TreeBit]]
  BY DEF TypeOK, TreeTypes
<1>2. CASE bits' = SetBits(t, p, set, clr)
  <2>1. bits'[t][p] = (bits[t][p] \ clr) \cup set
    BY <1>1, <1>2 DEF SetBits
  <2>2. \A u \in Tree, q \in Port : ~(u = t /\ q = p) => bits'[u][q] = bits[u][q]
    BY <1>1, <1>2 DEF SetBits
  <2>3. "agree" \in (bits[t][p] \ clr) \cup set => "agree" \in bits[t][p]
    OBVIOUS
  <2> QED
    BY <2>1, <2>2, <2>3, Zenon DEF NoNewAgree
<1> QED
  BY <1>2 DEF NoNewAgree

\* The port machines and the machines of a tree that know nothing of agreement.
LEMMA PortMachinesAgree ==
  ASSUME TypeOK, NEW p \in Port, PpmSm(p) \/ BdmSm(p) \/ PrxSm(p) \/ PtxSm(p) \/ PtiSm(p)
  PROVE  NoNewAgree
<1>1. CASE UNCHANGED bits
  BY <1>1 DEF NoNewAgree
<1>2. CASE PpmSm(p)
  BY <1>2, <1>1 DEF PpmSm, PpmCheckingRstp, PpmSelectingStp, PpmSensing, PpmReturn, treeVars
<1>3. CASE BdmSm(p)
  BY <1>3, <1>1 DEF BdmSm, BdmEdge, BdmNotEdge, BdmReturn, treeVars
<1>4. CASE PtxSm(p)
  BY <1>4, <1>1 DEF PtxSm, PtxInit, PtxIdle, PtxPeriodic, PtxConfig, PtxTcn, PtxRstp,
     PtxReturn, Transmitted, treeVars
<1>5. CASE PrxDiscard(p) \/ PrxReceive(p)
  <2>1. bits \in [Tree -> [Port -> SUBSET TreeBit]]
    BY DEF TypeOK, TreeTypes
  <2>2. CASE PrxDiscard(p)
    BY <2>1, <2>2 DEF PrxDiscard, NoNewAgree
  <2>3. CASE PrxReceive(p)
    BY <2>1, <2>3 DEF PrxReceive, NoNewAgree
  <2> QED
    BY <1>5, <2>2, <2>3
<1>6. CASE PrxReturn(p) \/ \E t \in Msti : PrxMsti(t, p)
  BY <1>6, <1>1, FlagsAgree, PortsAreNumbers DEF PrxReturn, PrxMsti, treeVars
<1>7. CASE PtiSm(p)
  BY <1>7, <1>1, FlagsAgree, "agree" \notin {"loopInconsistent"}
     DEF PtiSm, PtiOneSecond, PtiTick, PtiReturn, TickHello, TickMdelay, TickTree, TickInfo,
         treeVars
<1> QED
  BY <1>2, <1>3, <1>4, <1>5, <1>6, <1>7 DEF PrxSm

LEMMA TreeMachinesAgree ==
  ASSUME TypeOK, NEW t \in Tree, NEW p \in Port, PstSm(t, p) \/ TcmSm(t, p) \/ PrsSm(t, p)
  PROVE  NoNewAgree
<1>1. CASE UNCHANGED bits
  BY <1>1 DEF NoNewAgree
<1>2. CASE PstSm(t, p)
  BY <1>2, <1>1, FlagsAgree, "agree" \notin {"learning"}, "agree" \notin {"forwarding"}
     DEF PstSm, PstDiscarding, PstLearning, PstForwarding, PstReturn, PstMoves, treeVars
<1>3. CASE TcmSm(t, p)
  BY <1>3, <1>1, FlagsAgree, "agree" \notin {"tcProp"}
     DEF TcmSm, TcmInactive, TcmLearning, TcmDetected, TcmActive, TcmNotifiedTcn,
         TcmNotifiedTc, TcmPropagating, TcmAcknowledged, TcmReturn, TcProp, treeVars
<1>4. CASE PrsRoleSelection(t, p)
  <2>1. PICK new : bits' = [u \in Tree |-> [q \in Port |->
                        IF ~(Owner[q] = Owner[p]) THEN bits[u][q]
                        ELSE IF u = t THEN Selected(t, q, new)
                        ELSE IF t = CIST /\ SyncsMaster(Owner[p], new)
                        THEN SyncedMaster(q, bits[u][q])
                        ELSE bits[u][q]]]
    BY <1>4 DEF PrsRoleSelection
  <2> QED
    BY <2>1 DEF Selected, SyncedMaster, NoNewAgree
<1>5. CASE PrsInitTree(t, p) \/ PrsReturn(t, p)
  BY <1>5, <1>1 DEF PrsInitTree, PrsReturn, treeVars
<1> QED
  BY <1>2, <1>3, <1>4, <1>5 DEF PrsSm

\* A received message may take the agreement away; it never gives one.
LEMMA PimAgree ==
  ASSUME TypeOK, NEW t \in Tree, NEW p \in Port, PimSm(t, p)
  PROVE  NoNewAgree
<1>1. CASE UNCHANGED bits
  BY <1>1 DEF NoNewAgree
<1>2. CASE \/ PimDisabled(t, p) \/ PimAged(t, p) \/ PimUpdate(t, p) \/ PimOther(t, p)
           \/ SyncMsti(t, p) \/ (t = CIST /\ PimDone(p))
  BY <1>2, FlagsAgree, "agree" \notin {"reselect"}, "agree" \notin {}
     DEF PimDisabled, PimAged, PimUpdate, PimOther, SyncMsti, PimDone
<1>3. CASE \/ PimCurrent(t, p) \/ PimReturn(t, p)
           \/ (t = CIST /\ (PimAgedRest(p) \/ PimSelected(p)))
  BY <1>3, <1>1 DEF PimCurrent, PimReturn, PimAgedRest, PimSelected, treeVars
<1>4. \A u \in Tree : \A fs, fsT :
        /\ "agree" \in RecordProposal(t, u, p, fs) => "agree" \in fs
        /\ "agree" \in SetTcFlags(t, u, p, fs) => "agree" \in fs
        /\ "agree" \in RecordAgreement(t, u, p, fs, fsT) => "agree" \in fs
        /\ "agree" \in RecordDispute(t, u, p, fs) => "agree" \in fs
  BY DEF RecordProposal, SetTcFlags, RecordAgreement, RecordDispute
<1>5. CASE PimSuperior(t, p)
  BY <1>4, <1>5 DEF PimSuperior, PortBits, NoNewAgree, TypeOK, TreeTypes
<1>6. CASE PimRepeated(t, p)
  BY <1>4, <1>6 DEF PimRepeated, PortBits, NoNewAgree, TypeOK, TreeTypes
<1>7. CASE PimInferior(t, p)
  BY <1>4, <1>7 DEF PimInferior, PortBits, NoNewAgree, TypeOK, TreeTypes
<1>8. CASE PimNotDesignated(t, p)
  BY <1>4, <1>8 DEF PimNotDesignated, PortBits, NoNewAgree, TypeOK, TreeTypes
<1>9. CASE PimRecord(t, p)
  BY <1>4, <1>9 DEF PimRecord, PortBits, NoNewAgree, TypeOK, TreeTypes
<1>10. CASE PimReceive(t, p)
  BY <1>10 DEF PimReceive, NoNewAgree, TypeOK, TreeTypes
<1> QED
  BY <1>2, <1>3, <1>5, <1>6, <1>7, <1>8, <1>9, <1>10 DEF PimSm

\* ... nor does any action of Port Role Transitions, but the ones that agree.
LEMMA PrtOthersAgree ==
  ASSUME TypeOK, NEW t \in Tree, NEW p \in Port, PrtSm(t, p),
         ~PrtAgreed(t, p), ~PrtAlternateAgreed(t, p), ~PrtMasterAgreed(t, p)
  PROVE  NoNewAgree
<1>1. CASE UNCHANGED bits
  BY <1>1 DEF NoNewAgree
<1>2. CASE \/ PrtBackupPort(t, p) \/ PrtMasterPort(t, p) \/ PrtDesignatedPort(t, p)
           \/ PrtRootPort(t, p) \/ PrtReturn(t, p)
  BY <1>2, <1>1 DEF PrtBackupPort, PrtMasterPort, PrtDesignatedPort, PrtRootPort, PrtReturn,
     treeVars
<1>3. CASE \/ PrtInitPort(t, p) \/ PrtDisablePort(t, p) \/ PrtBlockPort(t, p)
           \/ PrtDisabledPort(t, p) \/ PrtAlternatePort(t, p) \/ PrtPropose(t, p)
  BY <1>3, FlagsAgree, "agree" \notin {"sync", "reRoot"}, "agree" \notin {},
     "agree" \notin {"synced"}, "agree" \notin {"proposing"}
     DEF PrtInitPort, PrtDisablePort, PrtBlockPort, PrtStops, PrtDisabledPort,
         PrtAlternatePort, PrtRests, PrtPropose, Flags
<1>4. CASE \/ PrtSynced(t, p) \/ PrtRootSynced(t, p) \/ PrtRetired(t, p) \/ PrtLearn(t, p)
           \/ PrtForward(t, p) \/ PrtRootForward(t, p) \/ PrtDiscard(t, p)
  BY <1>4, FlagsAgree, "agree" \notin {"synced"}, "agree" \notin {}, "agree" \notin {"learn"},
     "agree" \notin {"forward", "agreed"}, "agree" \notin {"forward"}
     DEF PrtSynced, PrtRootSynced, PrtRetired, PrtLearn, PrtForward, PrtRootForward,
         PrtDiscard, Flags
<1>5. CASE PrtProposed(t, p) \/ PrtReRoot(t, p)
  <2>1. bits \in [Tree -> [Port -> SUBSET TreeBit]]
    BY DEF TypeOK, TreeTypes
  <2>2. CASE PrtProposed(t, p)
    BY <2>1, <2>2 DEF PrtProposed, WholeTree, NoNewAgree
  <2>3. CASE PrtReRoot(t, p)
    BY <2>1, <2>3 DEF PrtReRoot, WholeTree, NoNewAgree
  <2> QED
    BY <1>5, <2>2, <2>3
<1> QED
  BY <1>2, <1>3, <1>4, <1>5 DEF PrtSm

\* The states in which a port comes to agree are entered by the conditions that
\* ask whether all ports are synchronised, never by the general condition.
LEMMA AgreesWhenSynced ==
  ASSUME TypeOK, NEW t \in Tree, NEW p \in Port, ~On(t, p, "agree"),
         \E s \in {"ROOT_AGREED", "DESIGNATED_AGREED", "ALTERNATE_AGREED", "MASTER_AGREED"} :
           PrtEnters(t, p, s)
  PROVE  AllSynced(t, p)
<1> DEFINE Agreed == {"ROOT_AGREED", "DESIGNATED_AGREED", "ALTERNATE_AGREED", "MASTER_AGREED"}
<1>1. PrtGeneral(t, p) \notin Agreed
  BY DEF PrtGeneral, RolePort, Stay
<1>2. PrtCond(t, p) \in Agreed
  BY <1>1 DEF PrtEnters, Target
<1>3. /\ PrtRootCond(t, p) \in Agreed => AllSynced(t, p)
      /\ PrtMasterCond(t, p) \in Agreed => AllSynced(t, p)
      /\ PrtDesignatedCond(t, p) \in Agreed => AllSynced(t, p)
      /\ PrtAlternateCond(t, p) \in Agreed => AllSynced(t, p)
      /\ PrtDisabledCond(t, p) \notin Agreed
  BY DEF PrtRootCond, PrtMasterCond, PrtDesignatedCond, PrtAlternateCond, PrtDisabledCond,
         Agreement, Advance, Stay
<1>4. fsm[t][p].prt \in PrtState
  BY DEF TypeOK, TreeTypes, TreeMachines
<1> QED
  BY <1>2, <1>3, <1>4 DEF PrtCond, PrtState, MasterStep, RootStep, DesignatedStep,
     AlternateStep, Stay

LEMMA AgreedSafely ==
  ASSUME TypeOK, NEW t \in Tree, NEW p \in Port,
         PrtAgreed(t, p) \/ PrtAlternateAgreed(t, p) \/ PrtMasterAgreed(t, p),
         NEW u \in Tree, NEW q \in Port, info[u][q].role = "ROOT",
         ~On(u, q, "agree"), "agree" \in bits'[u][q]
  PROVE  \A r \in Siblings(q) : On(u, r, "synced")
<1>1. PICK set, clr : bits' = SetBits(t, p, set, clr)
  BY DEF PrtAgreed, PrtAlternateAgreed, PrtMasterAgreed, Flags
<1>2. u = t /\ q = p
  BY <1>1 DEF TypeOK, TreeTypes, SetBits, On
<1>3. \E s \in {"ROOT_AGREED", "DESIGNATED_AGREED", "ALTERNATE_AGREED", "MASTER_AGREED"} :
        PrtEnters(t, p, s)
  BY DEF PrtAgreed, PrtAlternateAgreed, PrtMasterAgreed, PrtTo
<1>4. AllSynced(t, p)
  BY <1>2, <1>3, AgreesWhenSynced
<1> QED
  BY <1>2, <1>4 DEF AllSynced, MustBeSynced

LEMMA EventsAgree ==
  ASSUME TypeOK, NEW b \in Bridge, NEW p \in Port,
         \/ Enable(b) \/ Disable(b) \/ Reconfigure(b) \/ Tick(b)
         \/ LinkUp(p) \/ LinkDown(p) \/ Receive(p) \/ ReceiveForeign(p) \/ Lose(p)
         \/ BeginDone(p) \/ EnablePort(p) \/ PendingTx(p) \/ InformDBStep(p)
  PROVE  NoNewAgree
<1>1. CASE Disable(b) \/ Reconfigure(b)
  <2>1. bits' = [t \in Tree |-> [q \in Port |-> IF Owner[q] = b THEN {} ELSE bits[t][q]]]
    BY <1>1 DEF Disable, Reconfigure, ClearProtocolData, Renew
  <2> QED
    BY <2>1 DEF NoNewAgree
<1>2. CASE ~(Disable(b) \/ Reconfigure(b))
  <2>1. UNCHANGED bits
    BY <1>2 DEF Enable, Tick, LinkUp, LinkDown, Receive, ReceiveForeign, Lose, Deliver,
       BeginDone, EnablePort, PendingTx, InformDBStep, treeVars
  <2> QED
    BY <2>1 DEF NoNewAgree
<1> QED
  BY <1>1, <1>2

LEMMA StepAgreesSafely ==
  ASSUME TypeOK, Next, NEW t \in Tree, NEW p \in Port, info[t][p].role = "ROOT",
         ~On(t, p, "agree"), "agree" \in bits'[t][p]
  PROVE  \A q \in Siblings(p) : On(t, q, "synced")
<1>1. ~NoNewAgree
  BY DEF NoNewAgree, On
<1>2. \A q \in Port : Owner[q] \in Bridge
  BY OwnerType
<1>3. CASE Event
  BY <1>1, <1>2, <1>3, EventsAgree DEF Event
<1>4. CASE RunStep
  <2>1. PICK u \in Tree, q \in Port : Runs(Head(stk).sm, u, q)
    BY <1>4 DEF RunStep
  <2>2. PrtSm(u, q)
    BY <2>1, <1>1, <1>2, PortMachinesAgree, TreeMachinesAgree, PimAgree, EventsAgree DEF Runs
  <2>3. PrtAgreed(u, q) \/ PrtAlternateAgreed(u, q) \/ PrtMasterAgreed(u, q)
    BY <2>2, <1>1, PrtOthersAgree
  <2> QED
    BY <2>3, AgreedSafely
<1> QED
  BY <1>3, <1>4 DEF Next

\* On any network a Root Port that comes to agree to a proposal (mstp_prtSm,
\* ROOT_AGREED) finds every other port of its bridge synchronised: no handler
\* sets agree on another way, and no loop closes over the new Root Port.
THEOREM AgreementHolds == Spec => AgreementIsSafe
<1>1. TypeOK /\ [Next]_vars
        => [\A t \in Tree, p \in Port :
              /\ info[t][p].role = "ROOT" /\ Comm(p, "portEnabled")
              /\ ~On(t, p, "agree") /\ "agree" \in bits'[t][p]
              => \A q \in Siblings(p) :
                   On(t, q, "forwarding") => Comm(q, "operEdge") \/ On(t, q, "synced")]_vars
  BY StepAgreesSafely
<1> QED
  BY <1>1, TypesHold, PTL DEF Spec, AgreementIsSafe

-----------------------------------------------------------------------------
(* Port State Transition between the other machines.                         *)

\* What a port's state is made of: nothing but Port State Transition and Port
\* Role Transitions touches it, and they touch their own port's only.
PstBits == {"learn", "forward", "learning", "forwarding"}
SameState(u, q) ==
  /\ \A x \in PstBits : x \in bits'[u][q] <=> x \in bits[u][q]
  /\ fsm'[u][q].pst = fsm[u][q].pst /\ fsm'[u][q].prt = fsm[u][q].prt

\* one port's flags and machines change; the others' do not
LEMMA OneSet ==
  ASSUME TypeOK, NEW t \in Tree, NEW p \in Port, NEW set, NEW clr
  PROVE  bits' = SetBits(t, p, set, clr)
           => /\ bits'[t][p] = (bits[t][p] \ clr) \cup set
              /\ \A u \in Tree, q \in Port : ~(u = t /\ q = p) => bits'[u][q] = bits[u][q]
<1>1. bits \in [Tree -> [Port -> SUBSET TreeBit]]
  BY DEF TypeOK, TreeTypes
<1> QED
  BY <1>1 DEF SetBits

BitsStay == \A u \in Tree, q \in Port : \A x \in PstBits : x \in bits'[u][q] <=> x \in bits[u][q]
FsmStay == \A u \in Tree, q \in Port :
             fsm'[u][q].pst = fsm[u][q].pst /\ fsm'[u][q].prt = fsm[u][q].prt

LEMMA FlagsStay ==
  ASSUME TypeOK, NEW t \in Tree, NEW p \in Port, NEW set, NEW clr,
         set \cap PstBits = {}, clr \cap PstBits = {}, bits' = SetBits(t, p, set, clr)
  PROVE  BitsStay
<1>1. \A x \in PstBits : x \in (bits[t][p] \ clr) \cup set <=> x \in bits[t][p]
  OBVIOUS
<1>2. /\ bits'[t][p] = (bits[t][p] \ clr) \cup set
      /\ \A u \in Tree, q \in Port : ~(u = t /\ q = p) => bits'[u][q] = bits[u][q]
  BY OneSet
<1> QED
  BY <1>1, <1>2, Zenon DEF BitsStay

LEMMA FsmStays ==
  ASSUME TypeOK, NEW t \in Tree, NEW p \in Port, NEW s,
         fsm' = [fsm EXCEPT ![t][p].pim = s] \/ fsm' = [fsm EXCEPT ![t][p].tcm = s]
  PROVE  FsmStay
<1>1. fsm \in [Tree -> [Port -> TreeMachines]]
  BY DEF TypeOK, TreeTypes
<1>2. CASE fsm' = [fsm EXCEPT ![t][p].pim = s]
  BY <1>1, <1>2 DEF FsmStay, TreeMachines
<1>3. CASE fsm' = [fsm EXCEPT ![t][p].tcm = s]
  BY <1>1, <1>3 DEF FsmStay, TreeMachines
<1> QED
  BY <1>2, <1>3

LEMMA PstSet ==
  ASSUME TypeOK, NEW t \in Tree, NEW p \in Port, NEW s, NEW set, NEW clr,
         PstMoves(t, p, s, set, clr)
  PROVE  /\ fsm'[t][p].pst = s /\ fsm'[t][p].prt = fsm[t][p].prt
         /\ bits'[t][p] = (bits[t][p] \ clr) \cup set
         /\ \A u \in Tree, q \in Port : ~(u = t /\ q = p) => SameState(u, q)
<1>1. fsm \in [Tree -> [Port -> TreeMachines]]
  BY DEF TypeOK, TreeTypes
<1>2. fsm' = [fsm EXCEPT ![t][p].pst = s] /\ bits' = SetBits(t, p, set, clr)
  BY DEF PstMoves
<1>3. /\ fsm'[t][p].pst = s /\ fsm'[t][p].prt = fsm[t][p].prt
      /\ \A u \in Tree, q \in Port : ~(u = t /\ q = p) => fsm'[u][q] = fsm[u][q]
  BY <1>1, <1>2 DEF TreeMachines
<1> QED
  BY <1>2, <1>3, OneSet DEF SameState

LEMMA PrtSet ==
  ASSUME TypeOK, NEW t \in Tree, NEW p \in Port, NEW s, NEW calls, PrtTo(t, p, s, calls)
  PROVE  /\ fsm'[t][p].prt = s /\ fsm'[t][p].pst = fsm[t][p].pst
         /\ \A u \in Tree, q \in Port : ~(u = t /\ q = p) => fsm'[u][q] = fsm[u][q]
<1>1. fsm \in [Tree -> [Port -> TreeMachines]]
  BY DEF TypeOK, TreeTypes
<1>2. fsm' = [fsm EXCEPT ![t][p].prt = s]
  BY DEF PrtTo
<1> QED
  BY <1>1, <1>2 DEF TreeMachines

\* the flags of port p in every tree
LEMMA PortFlagsStay ==
  ASSUME TypeOK, NEW p \in Port, NEW g,
         \A u \in Tree : bits'[u] = [bits[u] EXCEPT ![p] = g[u]],
         \A u \in Tree : \A x \in PstBits : x \in g[u] <=> x \in bits[u][p]
  PROVE  BitsStay
<1>1. bits \in [Tree -> [Port -> SUBSET TreeBit]]
  BY DEF TypeOK, TreeTypes
<1>2. ASSUME NEW u \in Tree, NEW q \in Port
      PROVE  bits'[u][q] = IF q = p THEN g[u] ELSE bits[u][q]
  <2>1. bits[u] \in [Port -> SUBSET TreeBit] /\ bits'[u] = [bits[u] EXCEPT ![p] = g[u]]
    BY <1>1
  <2> QED
    BY <2>1
<1> QED
  BY <1>2, Zenon DEF BitsStay

\* The port machines do not know of it ...
LEMMA PortMachinesKeepStates ==
  ASSUME TypeOK, NEW p \in Port, PpmSm(p) \/ BdmSm(p) \/ PrxSm(p) \/ PtxSm(p) \/ PtiSm(p)
  PROVE  BitsStay /\ UNCHANGED <<fsm, pend, db, blockAll>>
<1>1. UNCHANGED bits => BitsStay
  BY DEF BitsStay
<1>2. CASE PpmSm(p)
  BY <1>2, <1>1 DEF PpmSm, PpmCheckingRstp, PpmSelectingStp, PpmSensing, PpmReturn, treeVars,
     dbVars
<1>3. CASE BdmSm(p)
  BY <1>3, <1>1 DEF BdmSm, BdmEdge, BdmNotEdge, BdmReturn, treeVars, dbVars
<1>4. CASE PtxSm(p)
  BY <1>4, <1>1 DEF PtxSm, PtxInit, PtxIdle, PtxPeriodic, PtxConfig, PtxTcn, PtxRstp,
     PtxReturn, Transmitted, treeVars, dbVars
<1>5. CASE PrxDiscard(p) \/ PrxReceive(p)
  <2>1. bits \in [Tree -> [Port -> SUBSET TreeBit]]
    BY DEF TypeOK, TreeTypes
  <2>2. CASE PrxDiscard(p)
    <3>1. BitsStay
      BY <2>1, <2>2 DEF PrxDiscard, BitsStay, PstBits
    <3> QED
      BY <2>2, <3>1 DEF PrxDiscard, dbVars
  <2>3. CASE PrxReceive(p)
    <3>1. BitsStay
      BY <2>1, <2>3 DEF PrxReceive, BitsStay, PstBits, GuardLift
    <3> QED
      BY <2>3, <3>1 DEF PrxReceive, dbVars
  <2> QED
    BY <1>5, <2>2, <2>3
<1>6. CASE PrxReturn(p)
  BY <1>6, <1>1 DEF PrxReturn, treeVars, dbVars
<1>7. CASE \E t \in Msti : PrxMsti(t, p)
  <2>1. PICK t \in Tree : PrxMsti(t, p)
    BY <1>7, PortsAreNumbers
  <2>2. GuardLift(p) \cap PstBits = {} /\ {} \cap PstBits = {}
    BY DEF GuardLift, PstBits
  <2>3. BitsStay
    BY <2>1, <2>2, FlagsStay DEF PrxMsti
  <2> QED
    BY <2>1, <2>3 DEF PrxMsti, dbVars
<1>8. CASE PtiSm(p)
  <2>1. {"loopInconsistent"} \cap PstBits = {} /\ {} \cap PstBits = {}
    BY DEF PstBits
  <2>2. ASSUME NEW t \in Tree, bits' = SetBits(t, p, {"loopInconsistent"}, {})
        PROVE  BitsStay
    BY <2>1, <2>2, FlagsStay
  <2> QED
    BY <1>8, <1>1, <2>2 DEF PtiSm, PtiOneSecond, PtiTick, PtiReturn, TickHello, TickMdelay,
       TickTree, TickInfo, treeVars, dbVars
<1> QED
  BY <1>2, <1>3, <1>4, <1>5, <1>6, <1>7, <1>8 DEF PrxSm

\* ... nor does Topology Change, Port Role Selection or Port Information.
LEMMA TcmKeepsStates ==
  ASSUME TypeOK, NEW t \in Tree, NEW p \in Port, TcmSm(t, p)
  PROVE  BitsStay /\ FsmStay /\ UNCHANGED <<pend, db, blockAll>>
<1>1. UNCHANGED bits => BitsStay
  BY DEF BitsStay
<1>2. UNCHANGED <<pend, db, blockAll>>
  BY DEF TcmSm, TcmInactive, TcmLearning, TcmDetected, TcmActive, TcmNotifiedTcn,
         TcmNotifiedTc, TcmPropagating, TcmAcknowledged, TcmReturn, TcProp, Flush, dbVars
<1>3. FsmStay
  <2>1. CASE \E s : TcmTo(t, p, s)
    BY <2>1, FsmStays DEF TcmTo
  <2>2. CASE TcmReturn(t, p) \/ TcProp(t, p)
    BY <2>2 DEF TcmReturn, TcProp, treeVars, FsmStay
  <2> QED
    BY <2>1, <2>2 DEF TcmSm, TcmInactive, TcmLearning, TcmDetected, TcmActive, TcmNotifiedTcn,
       TcmNotifiedTc, TcmPropagating, TcmAcknowledged
<1>4. BitsStay
  <2>1. {"rcvdTc", "tcProp"} \cap PstBits = {} /\ {"rcvdTc"} \cap PstBits = {}
        /\ {"tcProp"} \cap PstBits = {} /\ {} \cap PstBits = {}
    BY DEF PstBits
  <2>2. CASE TcmLearning(t, p) \/ TcmNotifiedTc(t, p) \/ TcmPropagating(t, p) \/ TcProp(t, p)
    BY <2>1, <2>2, FlagsStay DEF TcmLearning, TcmNotifiedTc, TcmPropagating, TcProp
  <2>3. CASE ~(TcmLearning(t, p) \/ TcmNotifiedTc(t, p) \/ TcmPropagating(t, p) \/ TcProp(t, p))
    BY <1>1, <2>3 DEF TcmSm, TcmInactive, TcmDetected, TcmActive, TcmNotifiedTcn,
       TcmAcknowledged, TcmReturn, treeVars
  <2> QED
    BY <2>2, <2>3
<1> QED
  BY <1>2, <1>3, <1>4

LEMMA PrsKeepsStates ==
  ASSUME TypeOK, NEW t \in Tree, NEW p \in Port, PrsSm(t, p)
  PROVE  BitsStay /\ FsmStay /\ UNCHANGED <<pend, db, blockAll>>
<1>1. UNCHANGED <<fsm, pend, db, blockAll>>
  BY DEF PrsSm, PrsInitTree, PrsRoleSelection, PrsReturn, treeVars, dbVars
<1>2. FsmStay
  BY <1>1 DEF FsmStay
<1>3. CASE UNCHANGED bits
  BY <1>1, <1>2, <1>3 DEF BitsStay
<1>4. CASE PrsRoleSelection(t, p)
  <2>1. PICK new : bits' = [u \in Tree |-> [q \in Port |->
                        IF ~(Owner[q] = Owner[p]) THEN bits[u][q]
                        ELSE IF u = t THEN Selected(t, q, new)
                        ELSE IF t = CIST /\ SyncsMaster(Owner[p], new)
                        THEN SyncedMaster(q, bits[u][q])
                        ELSE bits[u][q]]]
    BY <1>4 DEF PrsRoleSelection
  <2>2. \A q : \A x \in PstBits : x \in Selected(t, q, new) <=> x \in bits[t][q]
    BY DEF Selected, PstBits
  <2>3. \A q, fs : \A x \in PstBits : x \in SyncedMaster(q, fs) <=> x \in fs
    BY DEF SyncedMaster, PstBits
  <2>4. BitsStay
    BY <2>1, <2>2, <2>3 DEF BitsStay
  <2> QED
    BY <1>1, <1>2, <2>4
<1> QED
  BY <1>3, <1>4 DEF PrsSm, PrsInitTree, PrsReturn, treeVars

LEMMA PimKeepsStates ==
  ASSUME TypeOK, NEW t \in Tree, NEW p \in Port, PimSm(t, p)
  PROVE  BitsStay /\ FsmStay /\ UNCHANGED <<pend, db, blockAll>>
<1>1. UNCHANGED bits => BitsStay
  BY DEF BitsStay
<1>2. UNCHANGED <<pend, db, blockAll>>
  BY DEF PimSm, PimDisabled, PimAged, PimUpdate, PimCurrent, PimReceive, PimSuperior,
         PimRepeated, PimInferior, PimNotDesignated, PimOther, PimReturn, PimRecord,
         SyncMsti, PimAgedRest, PimSelected, PimDone, PimKeeps, dbVars
<1>3. FsmStay
  <2>1. CASE \E s : PimTo(t, p, s)
    BY <2>1, FsmStays DEF PimTo
  <2>2. CASE UNCHANGED fsm
    BY <2>2 DEF FsmStay
  <2> QED
    BY <2>1, <2>2 DEF PimSm, PimDisabled, PimAged, PimUpdate, PimCurrent, PimReceive,
       PimSuperior, PimRepeated, PimInferior, PimNotDesignated, PimOther, PimReturn, PimRecord,
       SyncMsti, PimAgedRest, PimSelected, PimDone, PimKeeps, treeVars
<1>4. BitsStay
  <2>1. CASE \E set, clr : /\ set \cap PstBits = {} /\ clr \cap PstBits = {}
                           /\ bits' = SetBits(t, p, set, clr)
    BY <2>1, FlagsStay
  <2>2. CASE \/ PimDisabled(t, p) \/ PimAged(t, p) \/ PimUpdate(t, p) \/ PimOther(t, p)
             \/ SyncMsti(t, p) \/ (t = CIST /\ PimDone(p))
    BY <2>1, <2>2 DEF PimDisabled, PimAged, PimUpdate, PimOther, SyncMsti, PimDone, PstBits
  <2>3. CASE \/ PimCurrent(t, p) \/ PimReturn(t, p)
             \/ (t = CIST /\ (PimAgedRest(p) \/ PimSelected(p)))
    BY <1>1, <2>3 DEF PimCurrent, PimReturn, PimAgedRest, PimSelected, treeVars
  <2>4. \A u \in Tree : \A fs, fsT : \A x \in PstBits :
          /\ x \in RecordProposal(t, u, p, fs) <=> x \in fs
          /\ x \in SetTcFlags(t, u, p, fs) <=> x \in fs
          /\ x \in RecordAgreement(t, u, p, fs, fsT) <=> x \in fs
          /\ x \in RecordDispute(t, u, p, fs) <=> x \in fs
    BY DEF RecordProposal, SetTcFlags, RecordAgreement, RecordDispute, PstBits
  <2>5. bits \in [Tree -> [Port -> SUBSET TreeBit]]
    BY DEF TypeOK, TreeTypes
  <2> DEFINE h(u) == IF u = t THEN bits[u][p] \ {"agreed", "proposing"} ELSE bits[u][p]
             fsT == RecordProposal(t, t, p, bits[t][p])
                      \ (IF Agrees(t, p) THEN {"proposing"} ELSE {})
             fsN == bits[t][p] \ (IF Agrees(t, p) THEN {"proposing"} ELSE {})
             rcvd(u) == IF u = t THEN {"rcvdMsg"} ELSE {}
             gS == [u \in Tree |-> SetTcFlags(t, u, p, RecordProposal(t, u, p, h(u)))]
             gR == [u \in Tree |->
                      RecordAgreement(t, u, p, SetTcFlags(t, u, p,
                                        RecordProposal(t, u, p, bits[u][p])), fsT) \ rcvd(u)]
             gI == [u \in Tree |-> RecordDispute(t, u, p, bits[u][p]) \ rcvd(u)]
             gN == [u \in Tree |->
                      SetTcFlags(t, u, p, RecordAgreement(t, u, p, bits[u][p], fsN)) \ rcvd(u)]
  <2>r. \A u : \A x \in PstBits : x \notin rcvd(u) /\ (x \in h(u) <=> x \in bits[u][p])
    BY DEF PstBits
  <2>g. \A u \in Tree : \A x \in PstBits :
          /\ x \in gS[u] <=> x \in bits[u][p]
          /\ x \in gR[u] <=> x \in bits[u][p]
          /\ x \in gI[u] <=> x \in bits[u][p]
          /\ x \in gN[u] <=> x \in bits[u][p]
    <3> HIDE DEF h, fsT, fsN, rcvd
    <3>1. ASSUME NEW u \in Tree, NEW x \in PstBits
          PROVE  /\ x \in gS[u] <=> x \in bits[u][p]
                 /\ x \in gR[u] <=> x \in bits[u][p]
                 /\ x \in gI[u] <=> x \in bits[u][p]
                 /\ x \in gN[u] <=> x \in bits[u][p]
      <4>1. x \in SetTcFlags(t, u, p, RecordProposal(t, u, p, h(u))) <=> x \in bits[u][p]
        BY <2>4, <2>r, Zenon
      <4>2. x \in RecordAgreement(t, u, p, SetTcFlags(t, u, p,
                    RecordProposal(t, u, p, bits[u][p])), fsT) <=> x \in bits[u][p]
        BY <2>4, Zenon
      <4>3. x \in RecordDispute(t, u, p, bits[u][p]) <=> x \in bits[u][p]
        BY <2>4, Zenon
      <4>4. x \in SetTcFlags(t, u, p, RecordAgreement(t, u, p, bits[u][p], fsN))
              <=> x \in bits[u][p]
        <5>1. \A fs : x \in RecordAgreement(t, u, p, fs, fsN) <=> x \in fs
          BY <2>4, Zenon
        <5>2. \A fs : x \in SetTcFlags(t, u, p, fs) <=> x \in fs
          BY <2>4, Zenon
        <5> QED
          BY <5>1, <5>2, Zenon
      <4>5. \A S : x \in S \ rcvd(u) <=> x \in S
        BY <2>r
      <4>6. x \in gS[u] <=> x \in bits[u][p]
        BY <4>1, Zenon
      <4>7. x \in gR[u] <=> x \in bits[u][p]
        BY <4>2, <4>5, Zenon
      <4>8. x \in gI[u] <=> x \in bits[u][p]
        BY <4>3, <4>5, Zenon
      <4>9. x \in gN[u] <=> x \in bits[u][p]
        BY <4>4, <4>5, Zenon
      <4> QED
        BY <4>6, <4>7, <4>8, <4>9
    <3> QED
      BY <3>1
  <2>b. /\ PimSuperior(t, p) => \A u \in Tree : bits'[u] = [bits[u] EXCEPT ![p] = gS[u]]
        /\ PimRepeated(t, p) => \A u \in Tree : bits'[u] = [bits[u] EXCEPT ![p] = gR[u]]
        /\ PimInferior(t, p) => \A u \in Tree : bits'[u] = [bits[u] EXCEPT ![p] = gI[u]]
        /\ PimNotDesignated(t, p) => \A u \in Tree : bits'[u] = [bits[u] EXCEPT ![p] = gN[u]]
    BY DEF PimSuperior, PimRepeated, PimInferior, PimNotDesignated, PortBits
  <2> HIDE DEF gS, gR, gI, gN
  <2>6. CASE \/ PimSuperior(t, p) \/ PimRepeated(t, p) \/ PimInferior(t, p)
             \/ PimNotDesignated(t, p)
    <3>1. \E g : /\ \A u \in Tree : bits'[u] = [bits[u] EXCEPT ![p] = g[u]]
                 /\ \A u \in Tree : \A x \in PstBits : x \in g[u] <=> x \in bits[u][p]
      BY <2>6, <2>g, <2>b, Zenon
    <3> QED
      BY <3>1, PortFlagsStay
  <2>10. CASE PimRecord(t, p)
    BY <2>4, <2>5, <2>10 DEF PimRecord, PortBits, BitsStay, PstBits
  <2>11. CASE PimReceive(t, p)
    BY <2>5, <2>11 DEF PimReceive, BitsStay, PstBits
  <2> QED
    BY <2>2, <2>3, <2>6, <2>10, <2>11 DEF PimSm
<1> QED
  BY <1>2, <1>3, <1>4

-----------------------------------------------------------------------------
(* The states of a port.                                                     *)

\* the function that runs next is Port State Transition of p, called just now
Called(t, p) ==
  /\ stk # <<>>
  /\ Head(stk).sm = "PST" /\ Head(stk).t = t /\ Head(stk).p = p /\ ~Head(stk).loop

\* the states of Port Role Transitions while the bridge is in BEGIN
PrtWaits == {"UNKNOWN", "INIT_PORT", "DISABLE_PORT", "DISABLED_PORT"}

\* What holds of a port and a tree at every moment.  The last conjunct is what
\* all the others are for: whoever sets or clears learn or forward calls Port
\* State Transition before anything else runs.
PortState(t, p) ==
  LET s == fsm[t][p].pst
  IN  /\ On(t, p, "forward") => On(t, p, "learn")
      /\ On(t, p, "learning") <=> s \in {"LEARNING", "FORWARDING"}
      /\ On(t, p, "forwarding") <=> s = "FORWARDING"
      /\ s = "DISCARDING" => ~On(t, p, "forward")
      /\ s = "FORWARDING" /\ On(t, p, "learn") => On(t, p, "forward")
      /\ Begin(p) => /\ ~On(t, p, "learn") /\ fsm[t][p].prt \in PrtWaits
                     /\ s \in {"UNKNOWN", "DISCARDING"}
      /\ ~Spanning(Owner[p]) => /\ ~On(t, p, "learn") /\ fsm[t][p].prt = "UNKNOWN"
                                /\ s = "UNKNOWN"
      /\ PstCond(t, p) = Stay \/ Called(t, p)
PstInv == \A t \in Tree, p \in Port : PortState(t, p)

LEMMA SameStateKept ==
  ASSUME NEW t \in Tree, NEW p \in Port, PortState(t, p), PstCond(t, p) = Stay, SameState(t, p),
         Begin(p)' => Begin(p), Spanning(Owner[p])' <=> Spanning(Owner[p])
  PROVE  PortState(t, p)'
<1>1. \A x \in PstBits : On(t, p, x)' <=> On(t, p, x)
  BY DEF SameState, On
<1>2. fsm'[t][p].pst = fsm[t][p].pst /\ fsm'[t][p].prt = fsm[t][p].prt
  BY DEF SameState
<1>3. PstCond(t, p)' = PstCond(t, p)
  BY <1>1, <1>2 DEF PstCond, PstBits
<1> QED
  BY <1>1, <1>2, <1>3 DEF PortState, PstBits

LEMMA PstKeepsPortState ==
  ASSUME TypeOK, NEW t \in Tree, NEW p \in Port, PstSm(t, p), PortState(t, p),
         Spanning(Owner[p])
  PROVE  PortState(t, p)'
<1> DEFINE s == fsm[t][p].pst
<1>0. ctl' = ctl
  BY MachinesKeepControl
<1>1. (Begin(p)' <=> Begin(p)) /\ Spanning(Owner[p])'
  BY <1>0 DEF Begin, Spanning
<1>2. fsm[t][p].pst \in PstState
  BY DEF TypeOK, TreeTypes, TreeMachines
<1>3. CASE PstReturn(t, p)
  <2>1. PstCond(t, p) = Stay
    BY <1>2, <1>3 DEF PstReturn, PstEnters, Target, PstGeneral, PstCond, PortState, PstState, Stay
  <2>2. SameState(t, p)
    BY <1>3 DEF PstReturn, treeVars, SameState
  <2> QED
    BY <1>1, <2>1, <2>2, SameStateKept
<1>4. CASE PstDiscarding(t, p)
  <2>1. ~On(t, p, "learn") /\ ~On(t, p, "forward")
    BY <1>2, <1>4 DEF PstDiscarding, PstEnters, Target, PstGeneral, PstCond, PortState, PstState,
       Stay
  <2>2. PstMoves(t, p, "DISCARDING", {}, {"learning", "forwarding"})
    BY <1>4 DEF PstDiscarding
  <2>3. fsm'[t][p].pst = "DISCARDING" /\ fsm'[t][p].prt = fsm[t][p].prt
    BY <2>2, PstSet
  <2>4. bits'[t][p] = (bits[t][p] \ {"learning", "forwarding"}) \cup {}
    BY <2>2, PstSet
  <2>5. /\ ~On(t, p, "learn")' /\ ~On(t, p, "forward")'
        /\ ~On(t, p, "learning")' /\ ~On(t, p, "forwarding")'
    BY <2>1, <2>4 DEF On
  <2>6. PstCond(t, p)' = Stay
    BY <2>3, <2>5 DEF PstCond
  <2> QED
    BY <1>1, <2>3, <2>5, <2>6 DEF PortState
<1>5. CASE PstLearning(t, p)
  <2>1. s = "DISCARDING" /\ On(t, p, "learn") /\ ~On(t, p, "forward") /\ ~Begin(p)
    BY <1>2, <1>5 DEF PstLearning, PstEnters, Target, PstGeneral, PstCond, PortState, PstState,
       Stay
  <2>2. PstMoves(t, p, "LEARNING", {"learning"}, {})
    BY <1>5 DEF PstLearning
  <2>3. fsm'[t][p].pst = "LEARNING"
    BY <2>2, PstSet
  <2>4. bits'[t][p] = (bits[t][p] \ {}) \cup {"learning"}
    BY <2>2, PstSet
  <2>5. /\ On(t, p, "learn")' /\ ~On(t, p, "forward")'
        /\ On(t, p, "learning")' /\ ~On(t, p, "forwarding")'
    BY <2>1, <2>4 DEF On, PortState
  <2>6. PstCond(t, p)' = Stay
    BY <2>3, <2>5 DEF PstCond
  <2> QED
    BY <1>1, <2>1, <2>3, <2>5, <2>6 DEF PortState
<1>6. CASE PstForwarding(t, p)
  <2>1. s = "LEARNING" /\ On(t, p, "forward") /\ On(t, p, "learn") /\ On(t, p, "learning")
        /\ ~Begin(p)
    BY <1>2, <1>6 DEF PstForwarding, PstEnters, Target, PstGeneral, PstCond, PortState, PstState,
       Stay
  <2>2. PstMoves(t, p, "FORWARDING", {"forwarding"}, {})
    BY <1>6 DEF PstForwarding
  <2>3. fsm'[t][p].pst = "FORWARDING"
    BY <2>2, PstSet
  <2>4. bits'[t][p] = (bits[t][p] \ {}) \cup {"forwarding"}
    BY <2>2, PstSet
  <2>5. /\ On(t, p, "learn")' /\ On(t, p, "forward")'
        /\ On(t, p, "learning")' /\ On(t, p, "forwarding")'
    BY <2>1, <2>4 DEF On
  <2>6. PstCond(t, p)' = Stay
    BY <2>3, <2>5 DEF PstCond
  <2> QED
    BY <1>1, <2>1, <2>3, <2>5, <2>6 DEF PortState
<1> QED
  BY <1>3, <1>4, <1>5, <1>6 DEF PstSm

\* When Port Role Transitions may let a port learn or forward.
LEMMA PrtAdvances ==
  ASSUME TypeOK, NEW t \in Tree, NEW p \in Port, NEW s, PrtEnters(t, p, s)
  PROVE  /\ s \in {"MASTER_LEARN", "ROOT_LEARN", "DESIGNATED_LEARN"} => ~On(t, p, "learn")
         /\ s \in {"MASTER_FORWARD", "ROOT_FORWARD", "DESIGNATED_FORWARD"} => On(t, p, "learn")
         /\ Begin(p) /\ fsm[t][p].prt \in PrtWaits => s \in PrtWaits \cup {Stay}
<1> DEFINE Learns == {"MASTER_LEARN", "ROOT_LEARN", "DESIGNATED_LEARN"}
           Forwards == {"MASTER_FORWARD", "ROOT_FORWARD", "DESIGNATED_FORWARD"}
           g == PrtGeneral(t, p)
           c == PrtCond(t, p)
<1>1. g \notin Learns \cup Forwards
  BY DEF PrtGeneral, RolePort, Stay
<1>2. s = g \/ s = c
  BY DEF PrtEnters, Target
<1>3. Begin(p) => g \in {"INIT_PORT", Stay}
  BY DEF PrtGeneral
<1>4. PrtDisabledCond(t, p) \in {"DISABLED_PORT", Stay}
  BY DEF PrtDisabledCond
<1>5. fsm[t][p].prt \in PrtWaits => c \in {"DISABLE_PORT", "DISABLED_PORT", Stay}
  BY <1>4 DEF PrtWaits, PrtCond, MasterStep, RootStep, AlternateStep, DesignatedStep
<1>6. /\ \A may, l, f : Advance(t, p, may, l, f) = l /\ l # f /\ l # Stay => ~On(t, p, "learn")
      /\ \A may, l, f : Advance(t, p, may, l, f) = f /\ l # f /\ f # Stay => On(t, p, "learn")
      /\ \A may, l, f : Advance(t, p, may, l, f) \in {l, f, Stay}
  BY DEF Advance
<1>7. PrtMasterCond(t, p) \in Learns => ~On(t, p, "learn")
  BY DEF PrtMasterCond, Advance, Stay
<1>8. PrtMasterCond(t, p) \in Forwards => On(t, p, "learn")
  BY DEF PrtMasterCond, Advance, Stay
<1>9. PrtRootCond(t, p) \in Learns => ~On(t, p, "learn")
  BY DEF PrtRootCond, Advance, Stay
<1>10. PrtRootCond(t, p) \in Forwards => On(t, p, "learn")
  BY DEF PrtRootCond, Advance, Stay
<1>11. PrtDesignatedCond(t, p) \in Learns => ~On(t, p, "learn")
  BY DEF PrtDesignatedCond, Advance, Stay
<1>12. PrtDesignatedCond(t, p) \in Forwards => On(t, p, "learn")
  BY DEF PrtDesignatedCond, Advance, Stay
<1>13. /\ PrtAlternateCond(t, p) \notin Learns \cup Forwards
       /\ PrtDisabledCond(t, p) \notin Learns \cup Forwards
  BY DEF PrtAlternateCond, PrtDisabledCond, Stay
<1>14. fsm[t][p].prt \in PrtState
  BY DEF TypeOK, TreeTypes, TreeMachines
<1>15. c \in Learns \cup Forwards
         => c \in {PrtMasterCond(t, p), PrtRootCond(t, p), PrtDesignatedCond(t, p)}
  BY ZenonT(30), <1>13, <1>14 DEF PrtCond, PrtState, MasterStep, RootStep, DesignatedStep, AlternateStep, Stay
<1>16. (c \in Learns => ~On(t, p, "learn")) /\ (c \in Forwards => On(t, p, "learn"))
  BY <1>7, <1>8, <1>9, <1>10, <1>11, <1>12, <1>15
<1>17. Begin(p) /\ fsm[t][p].prt \in PrtWaits => s \in PrtWaits \cup {Stay}
  BY <1>2, <1>3, <1>5 DEF PrtWaits
<1> QED
  BY <1>1, <1>2, <1>16, <1>17

LEMMA PstCalled ==
  ASSUME NEW b, stk \in Seq(Frames(b, FrameName)), stk # <<>>,
         NEW t \in Tree, NEW p \in PortsOf(b), NEW calls, NEW a, LoopIf(a, calls),
         calls = <<Call("PST", t, p)>> \/ calls = <<Call("PST", t, p), Call("TCM", t, p)>>
  PROVE  Called(t, p)'
<1> DEFINE S == Frames(b, FrameName)
           c == Call("PST", t, p)
           x == Call("TCM", t, p)
<1>1. c \in S /\ x \in S
  BY CallTypes, NewFramesAreFrames DEF FrameName, Callable, MachineName
<1>2. c.sm = "PST" /\ c.t = t /\ c.p = p /\ c.loop = FALSE
  BY DEF Call
<1>3. calls \in Seq(S) /\ Len(calls) >= 1 /\ calls[1] = c
  <2>1. calls = <<c>> \/ calls = <<c, x>>
    OBVIOUS
  <2> HIDE DEF S, c, x
  <2>2. CASE calls = <<c>>
    <3>1. <<c>> \in Seq(S) /\ Len(<<c>>) = 1 /\ <<c>>[1] = c
      BY <1>1
    <3> QED
      BY <2>2, <3>1
  <2>3. CASE calls = <<c, x>>
    <3>1. <<c, x>> \in Seq(S) /\ Len(<<c, x>>) = 2 /\ <<c, x>>[1] = c
      BY <1>1
    <3> QED
      BY <2>3, <3>1
  <2> QED
    BY <2>1, <2>2, <2>3
<1>4. Looping \in S
  <2>1. Head(stk) \in S
    OBVIOUS
  <2> QED
    BY <2>1 DEF Looping, Frames
<1>5. stk' = calls \o Tail(stk) \/ stk' = calls \o (<<Looping>> \o Tail(stk))
  <2>1. stk' = calls \o Tail(stk) \/ stk' = (calls \o <<Looping>>) \o Tail(stk)
    BY DEF LoopIf, Loop, Return, Looping
  <2> HIDE DEF S, c
  <2>2. (calls \o <<Looping>>) \o Tail(stk) = calls \o (<<Looping>> \o Tail(stk))
    BY <1>3, <1>4
  <2> QED
    BY <2>1, <2>2
<1>6. Tail(stk) \in Seq(S) /\ <<Looping>> \o Tail(stk) \in Seq(S)
  BY <1>4
<1> HIDE DEF S, c
<1>7. \A s \in Seq(S) : calls \o s # <<>> /\ Head(calls \o s) = c
  BY <1>3
<1> QED
  BY <1>2, <1>5, <1>6, <1>7 DEF Called

\* Port Role Transitions changes learn and forward in the actions that say so.
LEMMA PrtKeepsFlags ==
  ASSUME TypeOK, NEW t \in Tree, NEW p \in Port,
         \/ PrtDisabledPort(t, p) \/ PrtAlternatePort(t, p) \/ PrtBackupPort(t, p)
         \/ PrtMasterPort(t, p) \/ PrtDesignatedPort(t, p) \/ PrtRootPort(t, p)
         \/ PrtPropose(t, p) \/ PrtProposed(t, p) \/ PrtAgreed(t, p)
         \/ PrtAlternateAgreed(t, p) \/ PrtMasterAgreed(t, p) \/ PrtSynced(t, p)
         \/ PrtRootSynced(t, p) \/ PrtReRoot(t, p) \/ PrtRetired(t, p)
  PROVE  BitsStay /\ \E s \in PrtState : \E calls : s # Stay /\ PrtTo(t, p, s, calls)
<1>1. \E s \in PrtState : \E calls : s # Stay /\ PrtTo(t, p, s, calls)
  <2>1. \A s, calls : PrtTo(t, p, s, calls) /\ s \in PrtState
          => \E r \in PrtState : \E c : r # Stay /\ PrtTo(t, p, r, c)
    BY DEF PrtState, Stay
  <2>2. \A s, delay : PrtRests(t, p, s, delay) => PrtTo(t, p, s, <<>>)
    BY DEF PrtRests
  <2>3. CASE PrtDisabledPort(t, p) \/ PrtAlternatePort(t, p)
    BY <2>1, <2>2, <2>3 DEF PrtDisabledPort, PrtAlternatePort, PrtState
  <2>4. CASE \/ PrtBackupPort(t, p) \/ PrtMasterPort(t, p) \/ PrtDesignatedPort(t, p)
             \/ PrtRootPort(t, p) \/ PrtPropose(t, p) \/ PrtProposed(t, p)
    BY <2>1, <2>4 DEF PrtBackupPort, PrtMasterPort, PrtDesignatedPort, PrtRootPort, PrtPropose,
       PrtProposed, PrtState
  <2>5. CASE \/ PrtAgreed(t, p) \/ PrtAlternateAgreed(t, p) \/ PrtMasterAgreed(t, p)
             \/ PrtSynced(t, p) \/ PrtRootSynced(t, p) \/ PrtReRoot(t, p) \/ PrtRetired(t, p)
    BY <2>1, <2>5 DEF PrtAgreed, PrtAlternateAgreed, PrtMasterAgreed, PrtSynced,
       PrtRootSynced, PrtReRoot, PrtRetired, PrtState
  <2> QED
    BY <2>3, <2>4, <2>5
<1>2. CASE \/ PrtBackupPort(t, p) \/ PrtMasterPort(t, p) \/ PrtDesignatedPort(t, p)
           \/ PrtRootPort(t, p)
  BY <1>1, <1>2 DEF PrtBackupPort, PrtMasterPort, PrtDesignatedPort, PrtRootPort, BitsStay
<1>3. CASE PrtProposed(t, p) \/ PrtReRoot(t, p)
  <2>1. bits \in [Tree -> [Port -> SUBSET TreeBit]]
    BY DEF TypeOK, TreeTypes
  <2>2. CASE PrtProposed(t, p)
    BY <1>1, <2>1, <2>2 DEF PrtProposed, WholeTree, BitsStay, PstBits
  <2>3. CASE PrtReRoot(t, p)
    BY <1>1, <2>1, <2>3 DEF PrtReRoot, WholeTree, BitsStay, PstBits
  <2> QED
    BY <1>3, <2>2, <2>3
<1>4. CASE \/ PrtDisabledPort(t, p) \/ PrtAlternatePort(t, p) \/ PrtPropose(t, p)
           \/ PrtAgreed(t, p) \/ PrtAlternateAgreed(t, p) \/ PrtMasterAgreed(t, p)
           \/ PrtSynced(t, p) \/ PrtRootSynced(t, p) \/ PrtRetired(t, p)
  <2>1. PICK set, clr : /\ bits' = SetBits(t, p, set, clr)
                        /\ set \in {{}, {"synced"}, {"proposing"}, {"agree"}}
                        /\ clr \in {{}, {"sync"}, {"reRoot"}, {"sync", "reRoot"}, {"proposed"},
                                    {"proposed", "sync"}}
    BY <1>4 DEF PrtDisabledPort, PrtAlternatePort, PrtRests, PrtPropose, PrtAgreed,
       PrtAlternateAgreed, PrtMasterAgreed, PrtSynced, PrtRootSynced, PrtRetired, Flags
  <2>2. set \cap PstBits = {} /\ clr \cap PstBits = {}
    BY <2>1 DEF PstBits
  <2> QED
    BY <1>1, <2>1, <2>2, FlagsStay
<1> QED
  BY <1>2, <1>3, <1>4

LEMMA PrtKeepsPortState ==
  ASSUME TypeOK, NEW t \in Tree, NEW p \in Port, PortState(t, p), PstCond(t, p) = Stay,
         Spanning(Owner[p]), ctl' = ctl, BitsStay,
         NEW s \in PrtState, NEW calls, s # Stay, PrtTo(t, p, s, calls)
  PROVE  PortState(t, p)'
<1>1. (Begin(p)' <=> Begin(p)) /\ Spanning(Owner[p])'
  BY DEF Begin, Spanning
<1>2. fsm'[t][p].pst = fsm[t][p].pst /\ fsm'[t][p].prt = s
  BY PrtSet
<1>3. \A x \in PstBits : On(t, p, x)' <=> On(t, p, x)
  BY DEF BitsStay, On
<1>4. PstCond(t, p)' = PstCond(t, p)
  BY <1>2, <1>3 DEF PstCond, PstBits
<1>5. Begin(p) => s \in PrtWaits
  BY PrtAdvances DEF PrtTo, PortState
<1> QED
  BY <1>1, <1>2, <1>3, <1>4, <1>5 DEF PortState, PstBits

\* learn and forward are cleared: Port State Transition is called, but in BEGIN
LEMMA PrtBlocks ==
  ASSUME TypeOK, NEW t \in Tree, NEW p \in Port, PortState(t, p), PstCond(t, p) = Stay,
         Spanning(Owner[p]), ctl' = ctl, NEW set, NEW clr, bits' = SetBits(t, p, set, clr),
         "learn" \in clr, "forward" \in clr, set \cap PstBits = {},
         "learning" \notin clr, "forwarding" \notin clr,
         NEW s \in PrtState, NEW calls, s # Stay, PrtTo(t, p, s, calls),
         Begin(p) \/ Called(t, p)'
  PROVE  PortState(t, p)'
<1>1. (Begin(p)' <=> Begin(p)) /\ Spanning(Owner[p])'
  BY DEF Begin, Spanning
<1>2. fsm'[t][p].pst = fsm[t][p].pst /\ fsm'[t][p].prt = s
  BY PrtSet
<1>3. bits'[t][p] = (bits[t][p] \ clr) \cup set
  BY OneSet
<1>4. /\ ~On(t, p, "learn")' /\ ~On(t, p, "forward")'
      /\ On(t, p, "learning")' <=> On(t, p, "learning")
      /\ On(t, p, "forwarding")' <=> On(t, p, "forwarding")
  BY <1>3 DEF On, PstBits
<1>5. Begin(p) => s \in PrtWaits
  BY PrtAdvances DEF PrtTo, PortState
<1>6. Begin(p) => PstCond(t, p)' = Stay
  BY <1>2, <1>4 DEF PstCond, PortState
<1> QED
  BY <1>1, <1>2, <1>4, <1>5, <1>6 DEF PortState

\* learn, or forward after it, is set: Port State Transition is called
LEMMA PrtLetsPass ==
  ASSUME TypeOK, NEW t \in Tree, NEW p \in Port, PortState(t, p), PstCond(t, p) = Stay,
         Spanning(Owner[p]), ctl' = ctl, NEW set, NEW clr, bits' = SetBits(t, p, set, clr),
         clr \cap PstBits = {},
         \/ set \cap PstBits = {"learn"} /\ ~On(t, p, "learn")
         \/ set \cap PstBits = {"forward"} /\ On(t, p, "learn"),
         NEW s \in PrtState \ PrtWaits, NEW calls, s # Stay, PrtTo(t, p, s, calls),
         Called(t, p)'
  PROVE  PortState(t, p)'
<1>1. (Begin(p)' <=> Begin(p)) /\ Spanning(Owner[p])'
  BY DEF Begin, Spanning
<1>2. fsm'[t][p].pst = fsm[t][p].pst /\ fsm'[t][p].prt = s
  BY PrtSet
<1>3. bits'[t][p] = (bits[t][p] \ clr) \cup set
  BY OneSet
<1>4. ~Begin(p)
  BY PrtAdvances DEF PrtTo, PortState
<1>5. CASE set \cap PstBits = {"learn"} /\ ~On(t, p, "learn")
  <2>1. /\ On(t, p, "learn")' /\ (On(t, p, "forward")' <=> On(t, p, "forward"))
        /\ On(t, p, "learning")' <=> On(t, p, "learning")
        /\ On(t, p, "forwarding")' <=> On(t, p, "forwarding")
    BY <1>3, <1>5 DEF On, PstBits
  <2>2. fsm[t][p].pst # "FORWARDING"
    BY <1>5 DEF PortState, PstCond, Stay
  <2> QED
    BY <1>1, <1>2, <1>4, <1>5, <2>1, <2>2 DEF PortState
<1>6. CASE set \cap PstBits = {"forward"} /\ On(t, p, "learn")
  <2>1. /\ On(t, p, "learn")' /\ On(t, p, "forward")'
        /\ On(t, p, "learning")' <=> On(t, p, "learning")
        /\ On(t, p, "forwarding")' <=> On(t, p, "forwarding")
    BY <1>3, <1>6 DEF On, PstBits
  <2>2. fsm[t][p].pst # "DISCARDING"
    BY <1>6 DEF PortState, PstCond, Stay
  <2> QED
    BY <1>1, <1>2, <1>4, <1>6, <2>1, <2>2 DEF PortState
<1> QED
  BY <1>5, <1>6

\* Port Role Transitions leaves every port and tree in a known state.
LEMMA PrtKeepsPstInv ==
  ASSUME TypeOK, StackInv, PstInv, NEW t \in Tree, NEW p \in Port, stk # <<>>,
         Head(stk).sm = "PRT", Head(stk).p = p, PrtSm(t, p)
  PROVE  PstInv'
<1>1. PICK b \in Bridge : Spanning(b) /\ stk \in Seq(Frames(b, FrameName))
  BY DEF StackInv, StackType
<1>2. p \in PortsOf(b) /\ Owner[p] = b
  <2>1. Head(stk) \in Frames(b, FrameName)
    BY <1>1
  <2> QED
    BY <2>1 DEF Frames, PortsOf
<1>3. ctl' = ctl
  BY MachinesKeepControl
<1>4. \A u \in Tree, q \in Port : PortState(u, q) /\ PstCond(u, q) = Stay
  BY DEF PstInv, PortState, Called
<1>5. ASSUME NEW u \in Tree, NEW q \in Port, SameState(u, q)
      PROVE  PortState(u, q)'
  BY <1>3, <1>4, <1>5, SameStateKept DEF Begin, Spanning
<1>6. ASSUME PortState(t, p)', NEW s, NEW calls, PrtTo(t, p, s, calls),
             \/ BitsStay
             \/ \E set, clr : bits' = SetBits(t, p, set, clr)
      PROVE  PstInv'
  <2>1. ASSUME NEW u \in Tree, NEW q \in Port, ~(u = t /\ q = p)
        PROVE  SameState(u, q)
    <3>1. fsm'[u][q] = fsm[u][q]
      BY <1>6, <2>1, PrtSet
    <3>2. CASE BitsStay
      BY <3>1, <3>2 DEF BitsStay, SameState
    <3>3. CASE \E set, clr : bits' = SetBits(t, p, set, clr)
      <4>1. bits'[u][q] = bits[u][q]
        BY <2>1, <3>3, OneSet
      <4> QED
        BY <3>1, <4>1 DEF SameState
    <3> QED
      BY <1>6, <3>2, <3>3
  <2> QED
    BY <1>5, <1>6, <2>1 DEF PstInv
<1>7. ASSUME NEW s, NEW calls, PrtTo(t, p, s, calls),
             calls = <<Call("PST", t, p)>> \/ calls = <<Call("PST", t, p), Call("TCM", t, p)>>
      PROVE  Called(t, p)'
  <2>1. \E a : LoopIf(a, calls)
    BY <1>7 DEF PrtTo
  <2> QED
    BY <1>1, <1>2, <1>7, <2>1, PstCalled
<1>8. CASE PrtReturn(t, p)
  <2>1. \A u \in Tree, q \in Port : SameState(u, q)
    BY <1>8 DEF PrtReturn, treeVars, SameState
  <2> QED
    BY <1>5, <2>1 DEF PstInv
<1>9. CASE PrtInitPort(t, p) \/ PrtDisablePort(t, p) \/ PrtBlockPort(t, p) \/ PrtDiscard(t, p)
  <2>1. PICK s, calls, set, clr :
          /\ PrtTo(t, p, s, calls) /\ bits' = SetBits(t, p, set, clr)
          /\ s \in {"INIT_PORT", "DISABLE_PORT", "BLOCK_PORT", "MASTER_DISCARD",
                    "DESIGNATED_DISCARD"}
          /\ calls = PstTcm(t, p) \/ calls = Pst(t, p)
          /\ set \in {{}, {"sync", "reRoot"}}
          /\ clr \in {{"learn", "forward", "synced"}, {"learn", "forward"},
                      {"learn", "forward", "disputed"}}
    <3>1. CASE PrtInitPort(t, p)
      BY <3>1 DEF PrtInitPort, Flags
    <3>2. CASE PrtDisablePort(t, p) \/ PrtBlockPort(t, p)
      BY <3>2 DEF PrtDisablePort, PrtBlockPort, PrtStops, Flags
    <3>3. CASE PrtDiscard(t, p)
      BY <3>3 DEF PrtDiscard, Flags
    <3> QED
      BY <1>9, <3>1, <3>2, <3>3
  <2>2. Begin(p) \/ Called(t, p)'
    BY <1>7, <2>1 DEF PstTcm, Pst
  <2>3. s \in PrtState /\ s # Stay
    BY <2>1 DEF PrtState, Stay
  <2>4. /\ "learn" \in clr /\ "forward" \in clr /\ set \cap PstBits = {}
        /\ "learning" \notin clr /\ "forwarding" \notin clr
    BY <2>1 DEF PstBits
  <2>5. PortState(t, p)'
    BY <1>1, <1>2, <1>3, <1>4, <2>1, <2>2, <2>3, <2>4, PrtBlocks
  <2> QED
    BY <1>6, <2>1, <2>5
<1>10. CASE PrtLearn(t, p) \/ PrtForward(t, p) \/ PrtRootForward(t, p)
  <2>1. PICK s, set, clr :
          /\ PrtTo(t, p, s, Pst(t, p)) /\ bits' = SetBits(t, p, set, clr)
          /\ clr \in {{}, {"agreed"}}
          /\ \/ s \in {"MASTER_LEARN", "ROOT_LEARN", "DESIGNATED_LEARN"} /\ set = {"learn"}
             \/ /\ s \in {"MASTER_FORWARD", "ROOT_FORWARD", "DESIGNATED_FORWARD"}
                /\ set \in {{"forward"}, {"forward", "agreed"}}
    <3>1. CASE PrtLearn(t, p)
      BY <3>1 DEF PrtLearn, Flags
    <3>2. CASE PrtForward(t, p)
      BY <3>2 DEF PrtForward, Flags
    <3>3. CASE PrtRootForward(t, p)
      BY <3>3 DEF PrtRootForward, Flags
    <3> QED
      BY <1>10, <3>1, <3>2, <3>3
  <2>2. Called(t, p)'
    BY <1>7, <2>1 DEF Pst
  <2>3. s \in PrtState \ PrtWaits /\ s # Stay
    BY <2>1 DEF PrtState, PrtWaits, Stay
  <2>4. PrtEnters(t, p, s)
    BY <2>1 DEF PrtTo
  <2>5. /\ clr \cap PstBits = {}
        /\ \/ set \cap PstBits = {"learn"} /\ ~On(t, p, "learn")
           \/ set \cap PstBits = {"forward"} /\ On(t, p, "learn")
    BY <2>1, <2>4, PrtAdvances DEF PstBits
  <2>6. PortState(t, p)'
    BY <1>1, <1>2, <1>3, <1>4, <2>1, <2>2, <2>3, <2>5, PrtLetsPass
  <2> QED
    BY <1>6, <2>1, <2>6
<1>11. CASE \/ PrtDisabledPort(t, p) \/ PrtAlternatePort(t, p) \/ PrtBackupPort(t, p)
            \/ PrtMasterPort(t, p) \/ PrtDesignatedPort(t, p) \/ PrtRootPort(t, p)
            \/ PrtPropose(t, p) \/ PrtProposed(t, p) \/ PrtAgreed(t, p)
            \/ PrtAlternateAgreed(t, p) \/ PrtMasterAgreed(t, p) \/ PrtSynced(t, p)
            \/ PrtRootSynced(t, p) \/ PrtReRoot(t, p) \/ PrtRetired(t, p)
  <2>1. BitsStay /\ \E s \in PrtState : \E calls : s # Stay /\ PrtTo(t, p, s, calls)
    BY <1>11, PrtKeepsFlags
  <2>4. PICK s \in PrtState : \E calls : s # Stay /\ PrtTo(t, p, s, calls)
    BY <2>1
  <2>2. PICK calls : s # Stay /\ PrtTo(t, p, s, calls)
    BY <2>4
  <2>3. PortState(t, p)'
    BY <1>1, <1>2, <1>3, <1>4, <2>1, <2>2, PrtKeepsPortState
  <2> QED
    BY <1>6, <2>1, <2>2, <2>3
<1> QED
  BY <1>8, <1>9, <1>10, <1>11 DEF PrtSm

LEMMA RunStepKeepsPstInv ==
  ASSUME TypeOK, StackInv, PstInv, RunStep
  PROVE  PstInv'
<1>1. PICK t \in Tree, p \in Port :
        stk # <<>> /\ Head(stk).t = t /\ Head(stk).p = p /\ Runs(Head(stk).sm, t, p)
  BY DEF RunStep
<1>2. PICK b \in Bridge : Spanning(b) /\ stk \in Seq(Frames(b, FrameName))
  BY <1>1 DEF StackInv, StackType
<1>3. Spanning(Owner[p])
  <2>1. Head(stk) \in Frames(b, FrameName)
    BY <1>1, <1>2
  <2> QED
    BY <1>1, <1>2, <2>1 DEF Frames, PortsOf
<1>4. ASSUME NEW q \in Port
      PROVE  (Begin(q)' => Begin(q)) /\ (Spanning(Owner[q])' <=> Spanning(Owner[q]))
  BY <1>1, ControlMoves, OwnerType DEF Begin, Spanning
<1>5. ASSUME NEW u \in Tree, NEW q \in Port, ~Called(u, q), SameState(u, q)
      PROVE  PortState(u, q)'
  <2>1. PortState(u, q) /\ PstCond(u, q) = Stay
    BY <1>5 DEF PstInv, PortState
  <2> QED
    BY <1>4, <1>5, <2>1, SameStateKept
<1>6. CASE Head(stk).sm = "PST"
  <2>1. PstSm(t, p)
    BY <1>1, <1>6 DEF Runs, TickSteps, PimSteps, BeginDone, EnablePort, PendingTx, InformDBStep,
       Running
  <2>2. PortState(t, p)'
    BY <1>3, <2>1, PstKeepsPortState DEF PstInv
  <2>3. ASSUME NEW u \in Tree, NEW q \in Port, ~(u = t /\ q = p)
        PROVE  ~Called(u, q) /\ SameState(u, q)
    <3>1. ~Called(u, q)
      BY <1>1, <2>3 DEF Called
    <3>2. CASE \E s, set, clr : PstMoves(t, p, s, set, clr)
      BY <2>3, <3>1, <3>2, PstSet
    <3>3. CASE PstReturn(t, p)
      BY <3>1, <3>3 DEF PstReturn, treeVars, SameState
    <3> QED
      BY <2>1, <3>1, <3>2, <3>3 DEF PstSm, PstDiscarding, PstLearning, PstForwarding
  <2> QED
    BY <1>5, <2>2, <2>3 DEF PstInv
<1>7. CASE Head(stk).sm = "PRT"
  <2>1. PrtSm(t, p)
    BY <1>1, <1>7 DEF Runs, TickSteps, PimSteps, BeginDone, EnablePort, PendingTx, InformDBStep,
       Running
  <2> QED
    BY <1>1, <1>7, <2>1, PrtKeepsPstInv
<1>8. CASE Head(stk).sm \notin {"PST", "PRT"}
  <2>1. BitsStay /\ FsmStay
    <3>1. CASE PpmSm(p) \/ BdmSm(p) \/ PrxSm(p) \/ PtxSm(p) \/ PtiSm(p)
      BY <3>1, PortMachinesKeepStates DEF FsmStay
    <3>2. CASE BeginDone(p) \/ EnablePort(p) \/ PendingTx(p) \/ InformDBStep(p)
      BY <3>2 DEF BeginDone, EnablePort, PendingTx, InformDBStep, treeVars, BitsStay, FsmStay
    <3>3. CASE TcmSm(t, p) \/ PrsSm(t, p) \/ PimSm(t, p)
      BY <3>3, TcmKeepsStates, PrsKeepsStates, PimKeepsStates
    <3> QED
      BY <1>1, <1>8, <3>1, <3>2, <3>3 DEF Runs
  <2>2. \A u \in Tree, q \in Port : ~Called(u, q) /\ SameState(u, q)
    BY <1>8, <2>1 DEF Called, BitsStay, FsmStay, SameState
  <2> QED
    BY <1>5, <2>2 DEF PstInv
<1> QED
  BY <1>6, <1>7, <1>8

LEMMA EventKeepsPstInv ==
  ASSUME TypeOK, StackInv, PstInv, Event
  PROVE  PstInv'
<1>1. stk = <<>>
  BY DEF Event, Enable, Disable, Reconfigure, Tick, LinkUp, LinkDown, Receive, ReceiveForeign, Lose
<1>2. \A u \in Tree, q \in Port : PortState(u, q) /\ PstCond(u, q) = Stay
  BY <1>1 DEF PstInv, PortState, Called
<1>3. ctl \in [Bridge -> Control] /\ \A q \in Port : Owner[q] \in Bridge
  BY OwnerType DEF TypeOK, BridgeTypes
<1>4. ASSUME NEW q \in Port, \A u \in Tree : SameState(u, q),
             ctl'[Owner[q]].begin = ctl[Owner[q]].begin,
             ctl'[Owner[q]].spanning = ctl[Owner[q]].spanning
      PROVE  \A u \in Tree : PortState(u, q)'
  BY <1>2, <1>4, SameStateKept DEF Begin, Spanning
<1>5. ASSUME NEW b \in Bridge, Enable(b)
      PROVE  PstInv'
  <2>1. ctl' = [ctl EXCEPT ![b] = [spanning |-> TRUE, begin |-> TRUE, preventTx |-> FALSE]]
    BY <1>5 DEF Enable
  <2>2. UNCHANGED <<bits, fsm>>
    BY <1>5 DEF Enable, treeVars
  <2>3. ASSUME NEW q \in Port, Owner[q] # b
        PROVE  \A u \in Tree : PortState(u, q)'
    BY <1>3, <1>4, <2>1, <2>2, <2>3 DEF SameState
  <2>4. ASSUME NEW u \in Tree, NEW q \in Port, Owner[q] = b
        PROVE  PortState(u, q)'
    <3>1. ~Spanning(b) /\ Spanning(Owner[q])'
      BY <1>3, <1>5, <2>1, <2>4 DEF Enable, Spanning
    <3>2. fsm[u][q].pst = "UNKNOWN" /\ fsm[u][q].prt = "UNKNOWN" /\ ~On(u, q, "learn")
      BY <1>2, <2>4, <3>1 DEF PortState
    <3>3. /\ fsm'[u][q].pst = "UNKNOWN" /\ fsm'[u][q].prt = "UNKNOWN" /\ ~On(u, q, "learn")'
          /\ On(u, q, "forward")' <=> On(u, q, "forward")
          /\ On(u, q, "learning")' <=> On(u, q, "learning")
          /\ On(u, q, "forwarding")' <=> On(u, q, "forwarding")
      BY <2>2, <3>2 DEF On
    <3>4. PortState(u, q)
      BY <1>2
    <3> QED
      BY <3>1, <3>2, <3>3, <3>4 DEF PortState, PstCond, PrtWaits
  <2> QED
    BY <2>3, <2>4 DEF PstInv
<1>6. ASSUME NEW b \in Bridge, Disable(b) \/ Reconfigure(b)
      PROVE  PstInv'
  <2>1. /\ bits' = Renew(bits, b, LAMBDA t, p : {})
        /\ fsm' = Renew(fsm, b, LAMBDA t, p : FreshFsm)
        /\ ctl' = [ctl EXCEPT ![b].spanning = FALSE]
    BY <1>6 DEF Disable, Reconfigure, ClearProtocolData
  <2>2. ASSUME NEW q \in Port, Owner[q] # b
        PROVE  \A u \in Tree : PortState(u, q)'
    <3>1. \A u \in Tree : bits'[u][q] = bits[u][q] /\ fsm'[u][q] = fsm[u][q]
      BY <2>1, <2>2 DEF Renew
    <3>2. ctl'[Owner[q]] = ctl[Owner[q]]
      BY <1>3, <2>1, <2>2
    <3> QED
      BY <1>4, <3>1, <3>2 DEF SameState
  <2>3. ASSUME NEW u \in Tree, NEW q \in Port, Owner[q] = b
        PROVE  PortState(u, q)'
    <3>1. bits'[u][q] = {} /\ fsm'[u][q] = FreshFsm
      BY <2>1, <2>3 DEF Renew
    <3>2. ~Spanning(Owner[q])'
      BY <1>3, <2>1, <2>3 DEF Spanning, Control
    <3>3. fsm'[u][q].pst = "UNKNOWN" /\ fsm'[u][q].prt = "UNKNOWN"
      BY <3>1 DEF FreshFsm
    <3>4. \A x : ~On(u, q, x)'
      BY <3>1 DEF On
    <3> QED
      BY <3>2, <3>3, <3>4 DEF PortState, PstCond, PrtWaits
  <2> QED
    BY <2>2, <2>3 DEF PstInv
<1>7. CASE \/ \E b \in Bridge : Tick(b)
           \/ \E p \in Port : LinkUp(p) \/ LinkDown(p) \/ Receive(p) \/ ReceiveForeign(p) \/ Lose(p)
  <2>1. UNCHANGED <<bits, fsm>>
    BY <1>7 DEF Tick, LinkUp, LinkDown, Receive, ReceiveForeign, Deliver, Lose, treeVars
  <2>2. ctl' = ctl \/ \E p \in Port : ctl' = [ctl EXCEPT ![Owner[p]].preventTx = TRUE]
    BY <1>7 DEF Tick, LinkUp, LinkDown, Receive, ReceiveForeign, Deliver, Lose, bridgeVars
  <2>3. \A c \in Bridge : ctl'[c].begin = ctl[c].begin /\ ctl'[c].spanning = ctl[c].spanning
    <3>1. ASSUME NEW p \in Port, ctl' = [ctl EXCEPT ![Owner[p]].preventTx = TRUE], NEW c \in Bridge
          PROVE  ctl'[c].begin = ctl[c].begin /\ ctl'[c].spanning = ctl[c].spanning
      BY <1>3, <3>1 DEF Control
    <3> QED
      BY <2>2, <3>1
  <2> QED
    BY <1>3, <1>4, <2>1, <2>3 DEF PstInv, SameState
<1> QED
  BY <1>5, <1>6, <1>7 DEF Event

LEMMA InitPstInv == Init => PstInv
<1> SUFFICES ASSUME Init, NEW t \in Tree, NEW p \in Port PROVE PortState(t, p)
  BY DEF PstInv
<1>1. bits[t][p] = {} /\ fsm[t][p] = FreshFsm /\ ~ctl[Owner[p]].begin /\ ~ctl[Owner[p]].spanning
  BY OwnerType DEF Init
<1>2. fsm[t][p].pst = "UNKNOWN" /\ fsm[t][p].prt = "UNKNOWN"
  BY <1>1 DEF FreshFsm
<1>3. ~Begin(p) /\ ~Spanning(Owner[p]) /\ \A x : ~On(t, p, x)
  BY <1>1 DEF Begin, Spanning, On
<1> QED
  BY <1>2, <1>3 DEF PortState, PstCond

LEMMA StepKeepsPstInv == TypeOK /\ StackInv /\ PstInv /\ [Next]_vars => PstInv'
<1> SUFFICES ASSUME TypeOK, StackInv, PstInv, [Next]_vars PROVE PstInv'
  OBVIOUS
<1>1. CASE UNCHANGED vars
  BY <1>1 DEF vars, treeVars, bridgeVars, PstInv, PortState, PstCond, On, Begin, Spanning, Called
<1> QED
  BY <1>1, RunStepKeepsPstInv, EventKeepsPstInv DEF Next

LEMMA PstInvHolds == Spec => []PstInv
BY InitPstInv, StepKeepsPstInv, TypesHold, StackHolds, PTL DEF Spec

-----------------------------------------------------------------------------
(* What the database is told of it.                                          *)

\* the first call of Port State Transition for p, which mstp_initStateMachines
\* makes, is to come before BEGIN is cleared
PstDue(t, p) ==
  /\ Begin(p)
  /\ \E i \in DOMAIN stk :
       /\ stk[i].sm = "PST" /\ stk[i].t = t /\ stk[i].p = p /\ ~stk[i].loop
       /\ \A j \in 1..i : stk[j].sm # "BEGIN_DONE"

\* a queued change is of the state the port is in and will be written before
\* the stack is empty; where none is queued the database has the state
DbState(t, p) ==
  LET s == fsm[t][p].pst
  IN  /\ pend[t][p] # "none" => /\ s # "UNKNOWN" /\ StateName[pend[t][p]] = DbName[s]
                                /\ Awaits("INFORM_DB", Owner[p])
      /\ Spanning(Owner[p]) => IF s = "UNKNOWN" THEN PstDue(t, p)
                               ELSE pend[t][p] = "none" => db[t][p] = DbName[s]
DbInv == \A t \in Tree, p \in Port : DbState(t, p)

LEMMA DueKept ==
  ASSUME NEW b \in Bridge, TypeOK, stk \in Seq(Frames(b, FrameName)), stk # <<>>, RunStep,
         NEW u \in Tree, NEW q \in Port, PstDue(u, q), ~Called(u, q)
  PROVE  PstDue(u, q)'
<1> DEFINE s == Head(stk).sm
           names == CalledBy(s)
<1>1. ExtendsBy(b, names) /\ names \subseteq FrameName
  BY RunStepExtends, CalledByNames
<1>2. "BEGIN_DONE" \notin names
  BY DEF CalledBy, Quiet, Callable, MachineName, RestName, TickSteps, PimSteps
<1>3. Looping.sm = s /\ Head(stk) = stk[1] /\ 1 \in DOMAIN stk
  <2>1. Head(stk) \in Frames(b, FrameName)
    OBVIOUS
  <2> QED
    BY <2>1 DEF Looping, Frames
<1>4. Len(stk) \in Nat /\ DOMAIN stk = 1..Len(stk)
  OBVIOUS
<1> HIDE DEF names, s
<1>5. PICK d \in Int :
        /\ stk' \in Seq(Frames(b, FrameName)) /\ Len(stk') = Len(stk) + d
        /\ \A i \in 2..Len(stk) : i + d \in 1..Len(stk') /\ stk'[i + d] = stk[i]
        /\ \A j \in 1..(1 + d) : stk'[j] \in NewFrames(b, names) \/ stk'[j] = Looping
  BY <1>1, FramesMove
<1>6. PICK i \in DOMAIN stk :
        /\ stk[i].sm = "PST" /\ stk[i].t = u /\ stk[i].p = q /\ ~stk[i].loop
        /\ \A j \in 1..i : stk[j].sm # "BEGIN_DONE"
  BY DEF PstDue
<1>7. i \in 2..Len(stk)
  BY <1>3, <1>4, <1>6 DEF Called
<1>8. s # "BEGIN_DONE"
  BY <1>3, <1>4, <1>6, <1>7 DEF s
<1>9. ASSUME NEW j \in 1..(i + d)
      PROVE  stk'[j].sm # "BEGIN_DONE"
  <2>1. CASE j > 1 + d
    <3>1. j - d \in 2..Len(stk) /\ j - d \in 1..i /\ (j - d) + d = j
      BY <1>4, <1>7, <2>1
    <3> QED
      BY <1>5, <1>6, <3>1
  <2>2. CASE j \in 1..(1 + d)
    <3>1. stk'[j] \in NewFrames(b, names) \/ stk'[j] = Looping
      BY <1>5, <2>2
    <3> QED
      BY <1>2, <1>3, <1>8, <3>1 DEF Frames, NewFrames
  <2> QED
    BY <2>1, <2>2
<1>10. i + d \in DOMAIN stk' /\ stk'[i + d] = stk[i]
  BY <1>5, <1>7
<1>11. Begin(q)'
  BY <1>8, ControlMoves, OwnerType DEF PstDue, Begin, RunStep, s
<1> QED
  BY <1>6, <1>9, <1>10, <1>11 DEF PstDue

LEMMA DbStateKept ==
  ASSUME NEW b \in Bridge, TypeOK, stk \in Seq(Frames(b, FrameName)), stk # <<>>, RunStep,
         NEW u \in Tree, NEW q \in Port, DbState(u, q),
         ~(Called(u, q) /\ fsm[u][q].pst = "UNKNOWN"),
         ~(Head(stk).sm = "INFORM_DB" /\ Owner[Head(stk).p] = Owner[q]),
         pend'[u][q] = pend[u][q], db'[u][q] = db[u][q], fsm'[u][q].pst = fsm[u][q].pst
  PROVE  DbState(u, q)'
<1>1. Awaits("INFORM_DB", Owner[q]) => Awaits("INFORM_DB", Owner[q])'
  BY AwaitsKept
<1>2. Spanning(Owner[q])' <=> Spanning(Owner[q])
  BY ControlMoves, OwnerType DEF Spanning, RunStep
<1>3. fsm[u][q].pst = "UNKNOWN" /\ PstDue(u, q) => PstDue(u, q)'
  BY DueKept
<1> QED
  BY <1>1, <1>2, <1>3 DEF DbState

LEMMA PrtKeepsDb ==
  ASSUME TypeOK, NEW t \in Tree, NEW p \in Port, PrtSm(t, p)
  PROVE  UNCHANGED <<pend, db, blockAll>> /\ \A u \in Tree, q \in Port : fsm'[u][q].pst = fsm[u][q].pst
<1>1. CASE \E s, calls : PrtTo(t, p, s, calls)
  <2>1. PICK s, calls : PrtTo(t, p, s, calls)
    BY <1>1
  <2>2. UNCHANGED <<pend, db, blockAll>>
    BY <2>1 DEF PrtTo, dbVars
  <2>3. ASSUME NEW u \in Tree, NEW q \in Port
        PROVE  fsm'[u][q].pst = fsm[u][q].pst
    BY <2>1, PrtSet
  <2> QED
    BY <2>2, <2>3
<1>2. CASE PrtReturn(t, p)
  BY <1>2 DEF PrtReturn, treeVars, dbVars
<1>3. CASE ~PrtReturn(t, p)
  <2>1. CASE \/ PrtInitPort(t, p) \/ PrtDisablePort(t, p) \/ PrtDisabledPort(t, p)
             \/ PrtBlockPort(t, p) \/ PrtAlternatePort(t, p) \/ PrtBackupPort(t, p)
             \/ PrtMasterPort(t, p) \/ PrtDesignatedPort(t, p) \/ PrtRootPort(t, p)
             \/ PrtPropose(t, p) \/ PrtProposed(t, p) \/ PrtAgreed(t, p)
    BY <1>1, <2>1 DEF PrtInitPort, PrtDisablePort, PrtDisabledPort, PrtBlockPort,
       PrtAlternatePort, PrtBackupPort, PrtMasterPort, PrtDesignatedPort, PrtRootPort,
       PrtPropose, PrtProposed, PrtAgreed, PrtStops, PrtRests
  <2>2. CASE \/ PrtAlternateAgreed(t, p) \/ PrtMasterAgreed(t, p) \/ PrtSynced(t, p)
             \/ PrtRootSynced(t, p) \/ PrtReRoot(t, p) \/ PrtRetired(t, p)
             \/ PrtLearn(t, p) \/ PrtForward(t, p) \/ PrtRootForward(t, p)
             \/ PrtDiscard(t, p)
    BY <1>1, <2>2 DEF PrtAlternateAgreed, PrtMasterAgreed, PrtSynced, PrtRootSynced, PrtReRoot,
       PrtRetired, PrtLearn, PrtForward, PrtRootForward, PrtDiscard
  <2> QED
    BY <1>3, <2>1, <2>2 DEF PrtSm
<1> QED
  BY <1>2, <1>3

LEMMA SameNames ==
  /\ StateName["Blk"] = DbName["DISCARDING"] /\ StateName["Lrn"] = DbName["LEARNING"]
  /\ StateName["Fwd"] = DbName["FORWARDING"]
BY DEF StateName, DbName

LEMMA PstKeepsDbInv ==
  ASSUME NEW b \in Bridge, TypeOK, DbInv, Informed(stk), stk \in Seq(Frames(b, FrameName)),
         stk # <<>>, RunStep, NEW t \in Tree, NEW p \in Port, Owner[p] = b,
         Spanning(b), Head(stk).t = t, Head(stk).p = p, Head(stk).sm = "PST", PstSm(t, p)
  PROVE  DbInv'
<1>1. \A u \in Tree, q \in Port : DbState(u, q)
  BY DEF DbInv
<1>2. Awaits("INFORM_DB", b)'
  <2>1. Head(stk) = stk[1] /\ 1 \in DOMAIN stk /\ DOMAIN stk = 1..Len(stk)
    OBVIOUS
  <2>2. PICK k \in DOMAIN stk : k >= 1 /\ stk[k].sm = "INFORM_DB"
    BY <2>1 DEF Informed
  <2>3. stk[k] \in Frames(b, FrameName)
    OBVIOUS
  <2>4. Awaits("INFORM_DB", b)
    BY <2>2, <2>3 DEF Awaits, Frames, PortsOf
  <2> QED
    BY <2>4, AwaitsKept
<1>3. CASE PstReturn(t, p)
  <2>1. UNCHANGED <<pend, db, fsm>>
    BY <1>3 DEF PstReturn, treeVars, dbVars
  <2>2. ~(Called(t, p) /\ fsm[t][p].pst = "UNKNOWN")
    <3>1. SUFFICES ASSUME Called(t, p), fsm[t][p].pst = "UNKNOWN"
                   PROVE  ~PstReturn(t, p)
      BY <1>3
    <3>2. PstGeneral(t, p) = "DISCARDING" \/ ~Begin(p)
      BY <3>1 DEF PstGeneral
    <3>3. Begin(p)
      BY <1>1, <3>1 DEF DbState, PstDue
    <3> QED
      BY <3>1, <3>2, <3>3 DEF PstReturn, PstEnters, Target, Called, Stay
  <2>3. ASSUME NEW u \in Tree, NEW q \in Port
        PROVE  DbState(u, q)'
    <3>1. ~(Called(u, q) /\ fsm[u][q].pst = "UNKNOWN")
      BY <2>2 DEF Called
    <3> QED
      BY <1>1, <2>1, <3>1, DbStateKept
  <2> QED
    BY <2>3 DEF DbInv
<1>4. ASSUME NEW s, NEW set, NEW clr, NEW change, PstMoves(t, p, s, set, clr), Queue(t, p, change),
             s \in {"DISCARDING", "LEARNING", "FORWARDING"}, change # "none",
             StateName[change] = DbName[s]
      PROVE  DbInv'
  <2>1. pend \in [Tree -> [Port -> {"none", "Blk", "Lrn", "Fwd"}]]
    BY DEF TypeOK, DbTypes
  <2>2. /\ pend'[t][p] = change /\ UNCHANGED db
        /\ \A u \in Tree, q \in Port : ~(u = t /\ q = p) => pend'[u][q] = pend[u][q]
    BY <1>4, <2>1 DEF Queue
  <2>3. fsm'[t][p].pst = s
    BY <1>4, PstSet
  <2>4. DbState(t, p)'
    BY <1>2, <1>4, <2>2, <2>3 DEF DbState
  <2>5. ASSUME NEW u \in Tree, NEW q \in Port, ~(u = t /\ q = p)
        PROVE  DbState(u, q)'
    <3>1. fsm'[u][q].pst = fsm[u][q].pst
      BY <1>4, <2>5, PstSet DEF SameState
    <3>2. ~Called(u, q)
      BY <2>5 DEF Called
    <3> QED
      BY <1>1, <2>2, <2>5, <3>1, <3>2, DbStateKept
  <2> QED
    BY <2>4, <2>5 DEF DbInv
<1>5. CASE PstDiscarding(t, p)
  BY <1>4, <1>5, SameNames DEF PstDiscarding
<1>6. CASE PstLearning(t, p)
  BY <1>4, <1>6, SameNames DEF PstLearning
<1>7. CASE PstForwarding(t, p)
  BY <1>4, <1>7, SameNames DEF PstForwarding
<1> QED
  BY <1>3, <1>5, <1>6, <1>7 DEF PstSm

\* mstp_informDBOnPortStateChange writes every change of the bridge
LEMMA InformDBKeepsDbInv ==
  ASSUME NEW b \in Bridge, TypeOK, DbInv, stk \in Seq(Frames(b, FrameName)), stk # <<>>, RunStep,
         NEW p \in Port, Owner[p] = b, Head(stk).p = p, InformDBStep(p)
  PROVE  DbInv'
<1>1. \A u \in Tree, q \in Port : DbState(u, q)
  BY DEF DbInv
<1>2. Head(stk).sm = "INFORM_DB" /\ UNCHANGED <<fsm, ctl>>
  BY DEF InformDBStep, Running, treeVars, bridgeVars
<1>3. \A u \in Tree, q \in Port :
        /\ pend'[u][q] = IF Owner[q] = b THEN "none" ELSE pend[u][q]
        /\ db'[u][q] = IF Owner[q] = b /\ pend[u][q] # "none" THEN StateName[pend[u][q]]
                       ELSE db[u][q]
  BY DEF InformDBStep, Renew
<1>4. ASSUME NEW u \in Tree, NEW q \in Port, Owner[q] # b
      PROVE  DbState(u, q)'
  BY <1>1, <1>2, <1>3, <1>4, DbStateKept DEF Called
<1>5. ASSUME NEW u \in Tree, NEW q \in Port, Owner[q] = b
      PROVE  DbState(u, q)'
  <2>1. /\ pend'[u][q] = "none" /\ fsm'[u][q] = fsm[u][q]
        /\ Spanning(Owner[q])' <=> Spanning(Owner[q])
        /\ db'[u][q] = IF pend[u][q] # "none" THEN StateName[pend[u][q]] ELSE db[u][q]
    BY <1>2, <1>3, <1>5 DEF Spanning
  <2>2. PstDue(u, q) => PstDue(u, q)'
    BY <1>2, DueKept DEF Called
  <2>3. DbState(u, q)
    BY <1>1
  <2> QED
    BY <2>1, <2>2, <2>3 DEF DbState
<1> QED
  BY <1>4, <1>5 DEF DbInv

\* ... and no other function than these two touches what the database has.
LEMMA OthersKeepDb ==
  ASSUME TypeOK, NEW t \in Tree, NEW p \in Port, Runs(Head(stk).sm, t, p),
         Head(stk).sm # "PST", ~InformDBStep(p)
  PROVE  /\ UNCHANGED <<pend, db, blockAll>>
         /\ \A u \in Tree, q \in Port : fsm'[u][q].pst = fsm[u][q].pst
<1>1. CASE PpmSm(p) \/ BdmSm(p) \/ PrxSm(p) \/ PtxSm(p) \/ PtiSm(p)
  BY <1>1, PortMachinesKeepStates
<1>2. CASE BeginDone(p) \/ EnablePort(p) \/ PendingTx(p)
  BY <1>2 DEF BeginDone, EnablePort, PendingTx, treeVars, dbVars
<1>3. CASE TcmSm(t, p) \/ PrsSm(t, p) \/ PimSm(t, p)
  BY <1>3, TcmKeepsStates, PrsKeepsStates, PimKeepsStates DEF FsmStay
<1>4. CASE PrtSm(t, p)
  BY <1>4, PrtKeepsDb
<1> QED
  BY <1>1, <1>2, <1>3, <1>4 DEF Runs

LEMMA RunStepKeepsDbInv ==
  ASSUME TypeOK, StackInv, DbInv, RunStep
  PROVE  DbInv'
<1>1. PICK t \in Tree, p \in Port :
        stk # <<>> /\ Head(stk).t = t /\ Head(stk).p = p /\ Runs(Head(stk).sm, t, p)
  BY DEF RunStep
<1>2. PICK b \in Bridge : Spanning(b) /\ stk \in Seq(Frames(b, FrameName))
  BY <1>1 DEF StackInv, StackType
<1>3. Owner[p] = b
  <2>1. Head(stk) \in Frames(b, FrameName)
    BY <1>1, <1>2
  <2> QED
    BY <1>1, <2>1 DEF Frames, PortsOf
<1>4. CASE Head(stk).sm = "PST"
  <2>1. PstSm(t, p)
    BY <1>1, <1>4 DEF Runs, TickSteps, PimSteps, BeginDone, EnablePort, PendingTx, InformDBStep,
       Running
  <2> QED
    BY <1>1, <1>2, <1>3, <1>4, <2>1, PstKeepsDbInv DEF StackInv
<1>5. CASE InformDBStep(p)
  BY <1>1, <1>2, <1>3, <1>5, InformDBKeepsDbInv
<1>6. CASE Head(stk).sm # "PST" /\ ~InformDBStep(p)
  <2>1. UNCHANGED <<pend, db>> /\ \A u \in Tree, q \in Port : fsm'[u][q].pst = fsm[u][q].pst
    BY <1>1, <1>6, OthersKeepDb
  <2>2. Head(stk).sm # "INFORM_DB"
    BY <1>1, <1>6 DEF Runs, TickSteps, PimSteps, BeginDone, EnablePort, PendingTx, Running
  <2>3. \A u \in Tree, q \in Port : ~Called(u, q) /\ DbState(u, q)
    BY <1>6 DEF Called, DbInv
  <2>4. ASSUME NEW u \in Tree, NEW q \in Port
        PROVE  DbState(u, q)'
    BY <1>1, <1>2, <2>1, <2>2, <2>3, DbStateKept
  <2> QED
    BY <2>4 DEF DbInv
<1> QED
  BY <1>4, <1>5, <1>6

LEMMA EventKeepsDbInv ==
  ASSUME TypeOK, PstInv, DbInv, Event
  PROVE  DbInv'
<1>1. stk = <<>>
  BY DEF Event, Enable, Disable, Reconfigure, Tick, LinkUp, LinkDown, Receive, ReceiveForeign, Lose
<1>2. ctl \in [Bridge -> Control] /\ \A q \in Port : Owner[q] \in Bridge
  BY OwnerType DEF TypeOK, BridgeTypes
<1>3. ASSUME NEW u \in Tree, NEW q \in Port
      PROVE  /\ pend[u][q] = "none"
             /\ Spanning(Owner[q]) => fsm[u][q].pst # "UNKNOWN" /\ db[u][q] = DbName[fsm[u][q].pst]
  <2>1. DbState(u, q)
    BY DEF DbInv
  <2>2. DOMAIN stk = {}
    BY <1>1
  <2> QED
    BY <1>1, <2>1, <2>2, NothingAwaited DEF DbState, PstDue
<1>4. ASSUME NEW u \in Tree, NEW q \in Port, pend'[u][q] = pend[u][q],
             fsm'[u][q].pst = fsm[u][q].pst,
             Spanning(Owner[q])' => Spanning(Owner[q]) /\ db'[u][q] = db[u][q]
      PROVE  DbState(u, q)'
  BY <1>3, <1>4 DEF DbState
<1>5. ASSUME NEW b \in Bridge, Enable(b)
      PROVE  DbInv'
  <2>1. ctl' = [ctl EXCEPT ![b] = [spanning |-> TRUE, begin |-> TRUE, preventTx |-> FALSE]]
    BY <1>5 DEF Enable
  <2>2. UNCHANGED <<fsm, pend, db>>
    BY <1>5 DEF Enable, treeVars, dbVars
  <2>3. ASSUME NEW u \in Tree, NEW q \in Port, Owner[q] # b
        PROVE  DbState(u, q)'
    BY <1>2, <1>4, <2>1, <2>2, <2>3 DEF Spanning
  <2>4. ASSUME NEW u \in Tree, NEW q \in Port, Owner[q] = b
        PROVE  DbState(u, q)'
    <3>1. fsm[u][q].pst = "UNKNOWN"
      BY <1>5, <2>4 DEF PstInv, PortState, Enable
    <3>2. Begin(q)'
      BY <1>2, <2>1, <2>4 DEF Begin
    <3>3. PICK i \in DOMAIN stk' : /\ stk'[i] = Call("PST", u, q)
                                   /\ \A j \in 1..i : stk'[j].sm # "BEGIN_DONE"
      BY <1>5, <2>4, EnableStarts DEF PortsOf
    <3>4. PstDue(u, q)'
      BY <3>2, <3>3 DEF PstDue, Call
    <3> QED
      BY <1>3, <2>2, <3>1, <3>4 DEF DbState
  <2> QED
    BY <2>3, <2>4 DEF DbInv
<1>6. ASSUME NEW b \in Bridge, Disable(b) \/ Reconfigure(b)
      PROVE  DbInv'
  <2>1. /\ pend' = Renew(pend, b, LAMBDA t, p : "none")
        /\ fsm' = Renew(fsm, b, LAMBDA t, p : FreshFsm)
        /\ ctl' = [ctl EXCEPT ![b].spanning = FALSE]
        /\ db' = db \/ db' = Renew(db, b, LAMBDA t, p : "Forwarding")
    BY <1>6 DEF Disable, Reconfigure, ClearProtocolData
  <2>2. ASSUME NEW u \in Tree, NEW q \in Port, Owner[q] # b
        PROVE  DbState(u, q)'
    <3>1. pend'[u][q] = pend[u][q] /\ fsm'[u][q] = fsm[u][q] /\ db'[u][q] = db[u][q]
      BY <2>1, <2>2 DEF Renew
    <3>2. ctl'[Owner[q]] = ctl[Owner[q]]
      BY <1>2, <2>1, <2>2
    <3> QED
      BY <1>4, <3>1, <3>2 DEF Spanning
  <2>3. ASSUME NEW u \in Tree, NEW q \in Port, Owner[q] = b
        PROVE  DbState(u, q)'
    <3>1. pend'[u][q] = "none"
      BY <2>1, <2>3 DEF Renew
    <3>2. ~Spanning(Owner[q])'
      BY <1>2, <2>1, <2>3 DEF Spanning, Control
    <3> QED
      BY <3>1, <3>2 DEF DbState
  <2> QED
    BY <2>2, <2>3 DEF DbInv
<1>7. CASE \/ \E b \in Bridge : Tick(b)
           \/ \E p \in Port : LinkUp(p) \/ LinkDown(p) \/ Receive(p) \/ ReceiveForeign(p) \/ Lose(p)
  <2>1. UNCHANGED <<fsm, pend>>
    BY <1>7 DEF Tick, LinkUp, LinkDown, Receive, ReceiveForeign, Deliver, Lose, treeVars, dbVars
  <2>2. ctl' = ctl \/ \E p \in Port : ctl' = [ctl EXCEPT ![Owner[p]].preventTx = TRUE]
    BY <1>7 DEF Tick, LinkUp, LinkDown, Receive, ReceiveForeign, Deliver, Lose, bridgeVars
  <2>3. \A c \in Bridge : ctl'[c].spanning = ctl[c].spanning
    <3>1. ASSUME NEW p \in Port, ctl' = [ctl EXCEPT ![Owner[p]].preventTx = TRUE], NEW c \in Bridge
          PROVE  ctl'[c].spanning = ctl[c].spanning
      BY <1>2, <3>1 DEF Control
    <3> QED
      BY <2>2, <3>1
  <2>4. db' = db \/ \E p \in Port : ~Spanning(Owner[p]) /\ NoStpLinkUp(p)
    BY <1>7 DEF Tick, LinkUp, LinkDown, Receive, ReceiveForeign, Deliver, Lose, dbVars
  <2>5. ASSUME NEW u \in Tree, NEW q \in Port, Spanning(Owner[q])
        PROVE  db'[u][q] = db[u][q]
    <3>1. db \in [Tree -> [Port -> {"Blocking", "Learning", "Forwarding"}]]
      BY DEF TypeOK, DbTypes
    <3>2. ASSUME NEW p \in Port, ~Spanning(Owner[p]), NoStpLinkUp(p)
          PROVE  db'[u][q] = db[u][q]
      BY <2>5, <3>1, <3>2 DEF NoStpLinkUp
    <3> QED
      BY <2>4, <3>2
  <2>6. ASSUME NEW u \in Tree, NEW q \in Port
        PROVE  DbState(u, q)'
    BY <1>2, <1>4, <2>1, <2>3, <2>5 DEF Spanning
  <2> QED
    BY <2>6 DEF DbInv
<1> QED
  BY <1>5, <1>6, <1>7 DEF Event

LEMMA InitDbInv == Init => DbInv
<1> SUFFICES ASSUME Init, NEW t \in Tree, NEW p \in Port PROVE DbState(t, p)
  BY DEF DbInv
<1>1. pend[t][p] = "none" /\ ~ctl[Owner[p]].spanning
  BY OwnerType DEF Init
<1> QED
  BY <1>1 DEF DbState, Spanning

LEMMA StepKeepsDbInv == TypeOK /\ StackInv /\ PstInv /\ DbInv /\ [Next]_vars => DbInv'
<1> SUFFICES ASSUME TypeOK, StackInv, PstInv, DbInv, [Next]_vars PROVE DbInv'
  OBVIOUS
<1>1. CASE UNCHANGED vars
  BY <1>1 DEF vars, treeVars, bridgeVars, dbVars, DbInv, DbState, PstDue, Awaits, Begin, Spanning
<1> QED
  BY <1>1, RunStepKeepsDbInv, EventKeepsDbInv DEF Next

LEMMA DbInvHolds == Spec => []DbInv
BY InitDbInv, StepKeepsDbInv, TypesHold, StackHolds, PstInvHolds, PTL DEF Spec

-----------------------------------------------------------------------------
LEMMA RestsPublished ==
  ASSUME TypeOK, PstInv, DbInv, NEW t \in Tree, NEW p \in Port, Idle(p)
  PROVE  /\ pend[t][p] = "none" /\ db[t][p] = DbName[fsm[t][p].pst]
         /\ fsm[t][p].pst \in {"DISCARDING", "LEARNING", "FORWARDING"}
         /\ PstCond(t, p) = Stay /\ PortState(t, p)
<1>1. PortState(t, p) /\ DbState(t, p)
  BY DEF PstInv, DbInv
<1>2. stk = <<>> /\ Spanning(Owner[p]) /\ DOMAIN stk = {}
  BY DEF Idle
<1>3. ~Called(t, p) /\ ~PstDue(t, p) /\ ~Awaits("INFORM_DB", Owner[p])
  BY <1>2, NothingAwaited DEF Called, PstDue
<1>4. fsm[t][p].pst \in PstState
  BY DEF TypeOK, TreeTypes, TreeMachines
<1> QED
  BY <1>1, <1>2, <1>3, <1>4 DEF PortState, DbState, PstState

\* Between events port_state is the state of Port State Transition, on every
\* tree and port, for every network: each state change is queued, and each
\* queued change is written (mstp_informDBOnPortStateChange) before the thread
\* takes the next event.
THEOREM PublishedHolds == Spec => []Published
<1>1. TypeOK /\ PstInv /\ DbInv => Published
  BY RestsPublished DEF Published
<1> QED
  BY <1>1, TypesHold, PstInvHolds, DbInvHolds, PTL

\* What Port Role Transitions last decided for a port, in learn and forward, is
\* what the switch was told.
DecisionsPublished ==
  \A t \in Tree, p \in Port :
    Idle(p) => db[t][p] = IF On(t, p, "forward") THEN "Forwarding"
                          ELSE IF On(t, p, "learn") THEN "Learning" ELSE "Blocking"

\* Between events port_state says of every port what learn and forward say:
\* whoever sets or clears them has Port State Transition called, and it comes
\* to rest where they want it (mstp_prtSm, mstp_pstSm).
THEOREM DecisionsArePublished == Spec => []DecisionsPublished
<1>1. ASSUME TypeOK, PstInv, DbInv, NEW t \in Tree, NEW p \in Port, Idle(p)
      PROVE  db[t][p] = IF On(t, p, "forward") THEN "Forwarding"
                        ELSE IF On(t, p, "learn") THEN "Learning" ELSE "Blocking"
  <2> DEFINE s == fsm[t][p].pst
  <2>1. /\ db[t][p] = DbName[s] /\ s \in {"DISCARDING", "LEARNING", "FORWARDING"}
        /\ PstCond(t, p) = Stay /\ PortState(t, p)
    BY <1>1, RestsPublished
  <2>2. /\ s = "DISCARDING" => ~On(t, p, "learn") /\ ~On(t, p, "forward")
        /\ s = "LEARNING" => On(t, p, "learn") /\ ~On(t, p, "forward")
        /\ s = "FORWARDING" => On(t, p, "forward")
    BY <2>1 DEF PstCond, PortState, Stay
  <2> QED
    BY <2>1, <2>2 DEF DbName
<1>2. TypeOK /\ PstInv /\ DbInv => DecisionsPublished
  BY <1>1 DEF DecisionsPublished
<1> QED
  BY <1>2, TypesHold, PstInvHolds, DbInvHolds, PTL


-----------------------------------------------------------------------------
(* The role behind a port that passes traffic.                               *)

MasterStates == {"MASTER_PORT"} \cup MasterStep
RootStates == {"ROOT_PORT"} \cup RootStep
DesignatedStates == {"DESIGNATED_PORT"} \cup DesignatedStep
ActiveStates == MasterStates \cup RootStates \cup DesignatedStates
\* those it passes through on its way back to one of the three
PassedStates == MasterStep \cup RootStep \cup DesignatedStep

\* Port Role Transitions of p is in its loop
InLoopAt(i, t, p) == stk[i].sm = "PRT" /\ stk[i].loop /\ stk[i].t = t /\ stk[i].p = p
InLoop(t, p) == \E i \in DOMAIN stk : InLoopAt(i, t, p)

\* While one port's Port Role Transitions is in its loop nothing runs but it and
\* what it calls: no role is selected, and no other Port Role Transitions starts.
LoopsAlone ==
  \A i \in DOMAIN stk : stk[i].sm = "PRT" /\ stk[i].loop => \A j \in 1..(i - 1) : stk[j].sm \in Quiet

LEMMA RunStepKeepsLoopsAlone ==
  ASSUME NEW b \in Bridge, TypeOK, stk \in Seq(Frames(b, FrameName)), stk # <<>>, RunStep,
         LoopsAlone
  PROVE  /\ LoopsAlone'
         /\ \A t \in Tree, p \in Port :
              ~(Head(stk).sm = "PRT" /\ Head(stk).t = t /\ Head(stk).p = p)
              => (InLoop(t, p)' <=> InLoop(t, p))
<1> DEFINE s == Head(stk).sm
           names == CalledBy(s)
<1>1. ExtendsBy(b, names) /\ names \subseteq FrameName
  BY RunStepExtends, CalledByNames
<1>2. /\ Looping.sm = s /\ Looping.t = Head(stk).t /\ Looping.p = Head(stk).p
      /\ Head(stk) = stk[1] /\ 1 \in DOMAIN stk
  <2>1. Head(stk) \in Frames(b, FrameName)
    OBVIOUS
  <2> QED
    BY <2>1 DEF Looping, Frames
<1>3. s \in Quiet \cup {"PRT"} => names \subseteq Quiet
  BY DEF CalledBy, Quiet
<1>4. Len(stk) \in Nat /\ DOMAIN stk = 1..Len(stk)
  OBVIOUS
<1> HIDE DEF names
<1>5. PICK d \in Int :
        /\ stk' \in Seq(Frames(b, FrameName)) /\ Len(stk') = Len(stk) + d
        /\ \A i \in 2..Len(stk) : i + d \in 1..Len(stk') /\ stk'[i + d] = stk[i]
        /\ \A j \in 1..(1 + d) : stk'[j] \in NewFrames(b, names) \/ (j = 1 + d /\ stk'[j] = Looping)
  BY <1>1, FramesMove
<1>6. DOMAIN stk' = 1..Len(stk') /\ Len(stk') \in Nat
  BY <1>5
\* where a frame of the new stack comes from
<1>7. ASSUME NEW k \in DOMAIN stk'
      PROVE  \/ k - d \in 2..Len(stk) /\ k > 1 + d /\ stk'[k] = stk[k - d]
             \/ k \in 1..(1 + d) /\ stk'[k] \in NewFrames(b, names)
             \/ k = 1 + d /\ stk'[k] = Looping
  <2>1. CASE k > 1 + d
    <3>1. k - d \in 2..Len(stk) /\ (k - d) + d = k
      BY <1>4, <1>5, <1>6, <2>1
    <3> QED
      BY <1>5, <2>1, <3>1
  <2>2. CASE ~(k > 1 + d)
    <3>1. k \in 1..(1 + d)
      BY <1>5, <1>6, <2>2
    <3> QED
      BY <1>5, <3>1
  <2> QED
    BY <2>1, <2>2
<1>8. \A f \in NewFrames(b, names) : f.sm \in names /\ f.loop = FALSE
  BY DEF NewFrames
<1>9. ASSUME NEW k \in DOMAIN stk', stk'[k].sm = "PRT", stk'[k].loop, NEW j \in 1..(k - 1)
      PROVE  stk'[j].sm \in Quiet
  <2>0. j \in DOMAIN stk' /\ j < k /\ j \in Int /\ k \in Int
    BY <1>6
  <2>1. CASE k - d \in 2..Len(stk) /\ stk'[k] = stk[k - d]
    <3>1. k - d \in DOMAIN stk /\ \A i \in 1..((k - d) - 1) : stk[i].sm \in Quiet
      BY <1>4, <1>9, <2>1 DEF LoopsAlone
    <3>2. s \in Quiet
      <4>1. 1 \in 1..((k - d) - 1)
        BY <1>5, <2>0, <2>1
      <4> QED
        BY <1>2, <3>1, <4>1
    <3>3. CASE j - d \in 2..Len(stk) /\ stk'[j] = stk[j - d]
      <4>1. j - d \in 1..((k - d) - 1)
        BY <1>5, <2>0, <3>3
      <4> QED
        BY <3>1, <3>3, <4>1
    <3>4. CASE stk'[j] \in NewFrames(b, names) \/ stk'[j] = Looping
      BY <1>2, <1>3, <1>8, <3>2, <3>4
    <3> QED
      BY <1>7, <2>0, <3>3, <3>4
  <2>2. CASE stk'[k] \in NewFrames(b, names)
    BY <1>8, <1>9, <2>2
  <2>3. CASE k = 1 + d /\ stk'[k] = Looping
    <3>1. s = "PRT"
      BY <1>2, <1>9, <2>3
    <3>2. j \in 1..(1 + d) /\ j # 1 + d
      BY <1>5, <2>0, <2>3
    <3>3. stk'[j] \in NewFrames(b, names)
      BY <1>5, <3>2
    <3> QED
      BY <1>3, <1>8, <3>1, <3>3
  <2> QED
    BY <1>7, <2>1, <2>2, <2>3
<1>10. ASSUME NEW t \in Tree, NEW p \in Port, ~(s = "PRT" /\ Head(stk).t = t /\ Head(stk).p = p)
       PROVE  InLoop(t, p)' <=> InLoop(t, p)
  <2>1. ASSUME InLoop(t, p) PROVE InLoop(t, p)'
    <3>1. PICK i \in DOMAIN stk : InLoopAt(i, t, p)
      BY <2>1 DEF InLoop
    <3>2. i # 1
      BY <1>2, <1>10, <3>1 DEF InLoopAt
    <3>3. i \in 2..Len(stk)
      BY <1>4, <3>2
    <3>4. i + d \in DOMAIN stk' /\ stk'[i + d] = stk[i]
      BY <1>5, <1>6, <3>3
    <3> QED
      BY <3>1, <3>4 DEF InLoop, InLoopAt
  <2>2. ASSUME InLoop(t, p)' PROVE InLoop(t, p)
    <3>1. PICK k \in DOMAIN stk' : InLoopAt(k, t, p)'
      BY <2>2 DEF InLoop
    <3>2. stk'[k].sm = "PRT" /\ stk'[k].loop /\ stk'[k].t = t /\ stk'[k].p = p
      BY <3>1 DEF InLoopAt
    <3>3. k - d \in 2..Len(stk) /\ stk'[k] = stk[k - d]
      BY <1>2, <1>7, <1>8, <1>10, <3>2
    <3> QED
      BY <1>4, <3>2, <3>3 DEF InLoop, InLoopAt
  <2> QED
    BY <2>1, <2>2
<1> QED
  BY <1>9, <1>10 DEF LoopsAlone

\* The role of a port whose Port Role Transitions is in a state of that role.
RoleTakenFor(t, p) ==
  LET s == fsm[t][p].prt
  IN  /\ s \in MasterStates => info[t][p].role = "MASTER"
      /\ s \in RootStates => info[t][p].role = "ROOT"
      /\ s \in DesignatedStates => info[t][p].role = "DESIGNATED"

\* What holds of a port and a tree at every moment: it may learn in the states of
\* an active role only; the states in between it is in while the loop runs, and
\* while the loop runs no other role is selected.
RoleState(t, p) ==
  LET s == fsm[t][p].prt
  IN  /\ RoleTakenFor(t, p)
      /\ s \in ActiveStates => info[t][p].selectedRole # "UNKNOWN"
      /\ On(t, p, "learn") => s \in ActiveStates
      /\ s \in PassedStates => InLoop(t, p)
      /\ s \in ActiveStates /\ InLoop(t, p) => info[t][p].role = info[t][p].selectedRole
RoleInv == LoopsAlone /\ \A t \in Tree, p \in Port : RoleState(t, p)

\* Nothing of it changes: neither the state and learn nor the roles.
LEMMA RoleStateKept ==
  ASSUME NEW t \in Tree, NEW p \in Port, RoleState(t, p),
         On(t, p, "learn")' <=> On(t, p, "learn"), fsm'[t][p].prt = fsm[t][p].prt,
         info'[t][p].role = info[t][p].role,
         info'[t][p].selectedRole = info[t][p].selectedRole, InLoop(t, p)' <=> InLoop(t, p)
  PROVE  RoleState(t, p)'
BY DEF RoleState, RoleTakenFor

SameRoles == \A u \in Tree, q \in Port : /\ info'[u][q].role = info[u][q].role
                                          /\ info'[u][q].selectedRole = info[u][q].selectedRole

LEMMA PimKeepsRoles ==
  ASSUME TypeOK, NEW t \in Tree, NEW p \in Port, PimSm(t, p)
  PROVE  SameRoles
<1>1. info \in [Tree -> [Port -> PortInfo]]
  BY DEF TypeOK, TreeTypes
<1>2. ASSUME NEW v, info' = [info EXCEPT ![t][p].infoIs = v] \/ info' = [info EXCEPT ![t][p].rcvdInfo = v]
      PROVE  SameRoles
  <2>1. CASE info' = [info EXCEPT ![t][p].infoIs = v]
    BY <1>1, <2>1 DEF SameRoles, PortInfo
  <2>2. CASE info' = [info EXCEPT ![t][p].rcvdInfo = v]
    BY <1>1, <2>2 DEF SameRoles, PortInfo
  <2> QED
    BY <1>2, <2>1, <2>2
<1>3. UNCHANGED info => SameRoles
  BY DEF SameRoles
<1>4. CASE PimDisabled(t, p) \/ PimAged(t, p) \/ PimUpdate(t, p) \/ PimReceive(t, p) \/ PimRecord(t, p)
  BY <1>2, <1>3, <1>4 DEF PimDisabled, PimAged, PimUpdate, PimReceive, PimRecord
<1>5. CASE ~(PimDisabled(t, p) \/ PimAged(t, p) \/ PimUpdate(t, p) \/ PimReceive(t, p) \/ PimRecord(t, p))
  BY <1>3, <1>5 DEF PimSm, PimCurrent, PimSuperior, PimRepeated, PimInferior, PimNotDesignated,
     PimOther, PimReturn, SyncMsti, PimAgedRest, PimSelected, PimDone, treeVars
<1> QED
  BY <1>4, <1>5

LEMMA OthersKeepRoles ==
  ASSUME NEW t \in Tree, NEW p \in Port,
         \/ PpmSm(p) \/ BdmSm(p) \/ PrxSm(p) \/ PtxSm(p) \/ PtiSm(p)
         \/ PstSm(t, p) \/ TcmSm(t, p)
  PROVE  SameRoles
<1>1. CASE PpmSm(p) \/ BdmSm(p)
  BY <1>1 DEF PpmSm, PpmCheckingRstp, PpmSelectingStp, PpmSensing, PpmReturn, BdmSm, BdmEdge,
              BdmNotEdge, BdmReturn, treeVars, SameRoles
<1>2. CASE PrxSm(p)
  BY <1>2 DEF PrxSm, PrxDiscard, PrxReceive, PrxMsti, PrxReturn, treeVars, SameRoles
<1>3. CASE PtxSm(p)
  BY <1>3 DEF PtxSm, PtxInit, PtxIdle, PtxPeriodic, PtxConfig, PtxTcn, PtxRstp, PtxReturn,
              Transmitted, treeVars, SameRoles
<1>4. CASE PtiSm(p)
  BY <1>4 DEF PtiSm, PtiOneSecond, PtiTick, PtiReturn, TickHello, TickMdelay, TickTree,
              TickInfo, treeVars, SameRoles
<1>5. CASE PstSm(t, p) \/ TcmSm(t, p)
  BY <1>5 DEF PstSm, PstDiscarding, PstLearning, PstForwarding, PstReturn, PstMoves, TcmSm,
              TcmInactive, TcmLearning, TcmDetected, TcmActive, TcmNotifiedTcn, TcmNotifiedTc,
              TcmPropagating, TcmAcknowledged, TcmReturn, TcProp, TcmKeeps, treeVars, SameRoles
<1> QED
  BY <1>1, <1>2, <1>3, <1>4, <1>5

\* Port Role Selection selects roles, when no Port Role Transitions is in its
\* loop, and never UNKNOWN (mstp_updtRolesTree leaves what it cannot tell).
LEMMA PrsSelects ==
  ASSUME TypeOK, NEW t \in Tree, NEW p \in Port, PrsSm(t, p)
  PROVE  \A u \in Tree, q \in Port :
           /\ info'[u][q].role = info[u][q].role
           /\ info[u][q].selectedRole # "UNKNOWN" => info'[u][q].selectedRole # "UNKNOWN"
<1>1. info \in [Tree -> [Port -> PortInfo]]
  BY DEF TypeOK, TreeTypes
<1>2. CASE PrsReturn(t, p)
  BY <1>2 DEF PrsReturn, treeVars
<1>3. CASE PrsInitTree(t, p)
  BY <1>1, <1>3 DEF PrsInitTree, PortInfo
<1>4. CASE PrsRoleSelection(t, p)
  <2>1. PICK new : info' = [info EXCEPT ![t] = [q \in Port |->
                        IF Owner[q] = Owner[p] /\ RoleFor(t, q, new) # "UNKNOWN"
                        THEN [@[q] EXCEPT !.selectedRole = RoleFor(t, q, new)] ELSE @[q]]]
    BY <1>4 DEF PrsRoleSelection
  <2> QED
    BY <1>1, <2>1 DEF PortInfo
<1> QED
  BY <1>2, <1>3, <1>4 DEF PrsSm

\* No Port Role Transitions is in its loop below the one that runs.
LEMMA RunsInLoop ==
  ASSUME NEW b, stk \in Seq(Frames(b, FrameName)), stk # <<>>, LoopsAlone,
         Head(stk).sm \notin Quiet, NEW t, NEW p, InLoop(t, p)
  PROVE  /\ Head(stk).sm = "PRT" /\ Head(stk).t = t /\ Head(stk).p = p /\ Head(stk).loop
         /\ \A i \in 2..Len(stk) : ~(stk[i].sm = "PRT" /\ stk[i].loop)
<1>1. Head(stk) = stk[1] /\ Len(stk) \in Nat /\ DOMAIN stk = 1..Len(stk)
  OBVIOUS
<1>2. \A i \in 2..Len(stk) : ~(stk[i].sm = "PRT" /\ stk[i].loop)
  <2> SUFFICES ASSUME NEW i \in 2..Len(stk), stk[i].sm = "PRT", stk[i].loop PROVE FALSE
    OBVIOUS
  <2>1. 1 \in 1..(i - 1) /\ i \in DOMAIN stk
    BY <1>1
  <2> QED
    BY <1>1, <2>1 DEF LoopsAlone
<1>3. PICK i \in DOMAIN stk : InLoopAt(i, t, p)
  BY DEF InLoop
<1>4. i = 1
  BY <1>1, <1>2, <1>3 DEF InLoopAt
<1> QED
  BY <1>1, <1>2, <1>3, <1>4 DEF InLoopAt

\* Where Port Role Transitions goes from where.
LEMMA PrtConds ==
  ASSUME NEW t \in Tree, NEW p \in Port
  PROVE  /\ PrtMasterCond(t, p) \in MasterStep \cup {Stay}
         /\ PrtRootCond(t, p) \in RootStep \cup {"ROOT_PORT", Stay}
         /\ PrtDesignatedCond(t, p) \in DesignatedStep \cup {Stay}
         /\ PrtAlternateCond(t, p) \in AlternateStep \cup {"ALTERNATE_PORT", Stay}
         /\ PrtDisabledCond(t, p) \in {"DISABLED_PORT", Stay}
<1>1. \A may, l, f : Advance(t, p, may, l, f) \in {l, f, Stay}
  BY DEF Advance
<1>2. PrtMasterCond(t, p) \in MasterStep \cup {Stay}
  BY <1>1 DEF PrtMasterCond, MasterStep
<1>3. PrtRootCond(t, p) \in RootStep \cup {"ROOT_PORT", Stay}
  BY <1>1 DEF PrtRootCond, RootStep
<1>4. PrtDesignatedCond(t, p) \in DesignatedStep \cup {Stay}
  BY <1>1 DEF PrtDesignatedCond, DesignatedStep
<1>5. PrtAlternateCond(t, p) \in AlternateStep \cup {"ALTERNATE_PORT", Stay}
  BY DEF PrtAlternateCond, AlternateStep
<1>6. PrtDisabledCond(t, p) \in {"DISABLED_PORT", Stay}
  BY DEF PrtDisabledCond
<1> QED
  BY <1>2, <1>3, <1>4, <1>5, <1>6

\* the same, by the state it is in
LEMMA PrtGoes ==
  ASSUME TypeOK, NEW t \in Tree, NEW p \in Port
  PROVE  LET s == fsm[t][p].prt
             c == PrtCond(t, p)
         IN  /\ s = "MASTER_PORT" => c \in MasterStep \cup {Stay}
             /\ s = "ROOT_PORT" => c \in RootStep \cup {"ROOT_PORT", Stay}
             /\ s = "DESIGNATED_PORT" => c \in DesignatedStep \cup {Stay}
             /\ s \in MasterStep => c = "MASTER_PORT"
             /\ s \in RootStep => c = "ROOT_PORT"
             /\ s \in DesignatedStep => c = "DESIGNATED_PORT"
             /\ s \notin ActiveStates => c \in AlternateStep \cup
                  {"ALTERNATE_PORT", "DISABLED_PORT", "DISABLE_PORT", Stay}
             /\ s \in {"MASTER_PORT", "ROOT_PORT", "DESIGNATED_PORT"} /\ c # Stay => Settled(t, p)
<1> DEFINE s == fsm[t][p].prt
           c == PrtCond(t, p)
<1>1. s \in PrtState
  BY DEF TypeOK, TreeTypes, TreeMachines
<1>2. /\ s = "MASTER_PORT" => c = IF Settled(t, p) THEN PrtMasterCond(t, p) ELSE Stay
      /\ s = "ROOT_PORT" => c = IF Settled(t, p) THEN PrtRootCond(t, p) ELSE Stay
      /\ s = "DESIGNATED_PORT" => c = IF Settled(t, p) THEN PrtDesignatedCond(t, p) ELSE Stay
      /\ s = "ALTERNATE_PORT" => c = IF Settled(t, p) THEN PrtAlternateCond(t, p) ELSE Stay
      /\ s = "DISABLED_PORT" => c = IF Settled(t, p) THEN PrtDisabledCond(t, p) ELSE Stay
      /\ s = "BLOCK_PORT" => c \in {"ALTERNATE_PORT", Stay}
      /\ s = "DISABLE_PORT" => c \in {"DISABLED_PORT", Stay}
      /\ s = "INIT_PORT" => c = "DISABLE_PORT"
      /\ s = "UNKNOWN" => c = Stay
  BY DEF PrtCond, MasterStep, RootStep, AlternateStep, DesignatedStep
<1>3. /\ s \in MasterStep => c = "MASTER_PORT"
      /\ s \in RootStep => c = "ROOT_PORT"
      /\ s \in DesignatedStep => c = "DESIGNATED_PORT"
      /\ s \in AlternateStep => c = "ALTERNATE_PORT"
  BY DEF PrtCond, MasterStep, RootStep, AlternateStep, DesignatedStep
<1>4. s \notin ActiveStates => s \in AlternateStep \cup
        {"ALTERNATE_PORT", "DISABLED_PORT", "BLOCK_PORT", "DISABLE_PORT", "INIT_PORT", "UNKNOWN"}
  BY <1>1 DEF PrtState, ActiveStates, MasterStates, RootStates, DesignatedStates, MasterStep,
     RootStep, DesignatedStep, AlternateStep
<1> HIDE DEF s, c
<1>5. s \notin ActiveStates => c \in AlternateStep \cup
        {"ALTERNATE_PORT", "DISABLED_PORT", "DISABLE_PORT", Stay}
  BY <1>2, <1>3, <1>4, PrtConds
<1>6. s \in {"MASTER_PORT", "ROOT_PORT", "DESIGNATED_PORT"} /\ c # Stay => Settled(t, p)
  BY <1>2
<1> QED
  BY <1>2, <1>3, <1>5, <1>6, PrtConds DEF s, c

\* What Port Role Transitions may enter, and with which role.
LEMMA PrtEntersRole ==
  ASSUME TypeOK, NEW t \in Tree, NEW p \in Port, RoleState(t, p),
         InLoop(t, p) <=> Head(stk).loop, NEW s, PrtEnters(t, p, s)
  PROVE  LET i == info[t][p]
         IN  /\ s \in PassedStates => /\ i.role = i.selectedRole
                                      /\ fsm[t][p].prt \notin LastStep
             /\ s \in MasterStep => i.role = "MASTER"
             /\ s \in RootStep => i.role = "ROOT"
             /\ s \in DesignatedStep => i.role = "DESIGNATED"
             /\ s = "MASTER_PORT" => i.selectedRole = "MASTER"
             /\ s = "ROOT_PORT" => i.selectedRole = "ROOT"
             /\ s = "DESIGNATED_PORT" => i.selectedRole = "DESIGNATED"
             /\ s \in AlternateStep \cup {"ALTERNATE_PORT", "DISABLED_PORT"}
                  => fsm[t][p].prt \notin ActiveStates
             /\ s = Stay => fsm[t][p].prt \notin PassedStates
<1> DEFINE g == PrtGeneral(t, p)
           c == PrtCond(t, p)
           old == fsm[t][p].prt
           i == info[t][p]
<1>1. i.role \in Role /\ i.selectedRole \in Role
  BY DEF TypeOK, TreeTypes, PortInfo
<1>2. s = IF ~Head(stk).loop /\ g # Stay THEN g ELSE c
  BY DEF PrtEnters, Target
<1>3. /\ g \in {"INIT_PORT", "DISABLE_PORT", "BLOCK_PORT", "MASTER_PORT", "ROOT_PORT",
                "DESIGNATED_PORT", Stay}
      /\ g = "MASTER_PORT" => i.selectedRole = "MASTER"
      /\ g = "ROOT_PORT" => i.selectedRole = "ROOT"
      /\ g = "DESIGNATED_PORT" => i.selectedRole = "DESIGNATED"
  BY DEF PrtGeneral, RolePort, Stay
<1>4. i.selectedRole # "UNKNOWN" => i.selectedRole \in DOMAIN RolePort
  BY <1>1 DEF Role, RolePort
<1>5. /\ old \in ActiveStates /\ g = Stay /\ Settled(t, p) => i.role = i.selectedRole
      /\ g = Stay /\ Begin(p) => old = "INIT_PORT"
  <2>1. "INIT_PORT" \notin ActiveStates
    BY DEF ActiveStates, MasterStates, RootStates, DesignatedStates, MasterStep, RootStep,
       DesignatedStep
  <2>2. \A r \in DOMAIN RolePort : RolePort[r] # Stay
    BY DEF RolePort, Stay
  <2>3. g = Stay /\ Begin(p) => old = "INIT_PORT"
    BY DEF PrtGeneral, Stay
  <2>4. ASSUME old \in ActiveStates, g = Stay, Settled(t, p)
        PROVE  i.role = i.selectedRole
    <3>1. ~Begin(p) /\ i.selectedRole \in DOMAIN RolePort
      BY <1>4, <2>1, <2>3, <2>4 DEF RoleState
    <3> QED
      BY <2>2, <2>4, <3>1 DEF PrtGeneral
  <2> QED
    BY <2>3, <2>4
<1>6. old \in ActiveStates <=> old \in {"MASTER_PORT", "ROOT_PORT", "DESIGNATED_PORT"}
                                       \cup MasterStep \cup RootStep \cup DesignatedStep
  BY DEF ActiveStates, MasterStates, RootStates, DesignatedStates
<1>7. ASSUME old \in ActiveStates, s = c, c # Stay, Head(stk).loop \/ g = Stay
      PROVE  i.role = i.selectedRole
  <2>1. CASE Head(stk).loop
    BY <1>7, <2>1 DEF RoleState
  <2>2. CASE ~Head(stk).loop
    <3>1. old \notin PassedStates
      BY <2>2 DEF RoleState
    <3>2. Settled(t, p)
      BY <1>6, <1>7, <3>1, PrtGoes DEF PassedStates
    <3> QED
      BY <1>5, <1>7, <2>2, <3>2
  <2> QED
    BY <2>1, <2>2
<1>8. /\ MasterStep \cap RootStep = {} /\ MasterStep \cap DesignatedStep = {}
      /\ RootStep \cap DesignatedStep = {}
      /\ \A x \in PassedStates : x \notin AlternateStep \cup
           {"INIT_PORT", "DISABLE_PORT", "BLOCK_PORT", "MASTER_PORT", "ROOT_PORT",
            "DESIGNATED_PORT", "ALTERNATE_PORT", "DISABLED_PORT", Stay}
      /\ \A x \in AlternateStep \cup {"ALTERNATE_PORT", "DISABLED_PORT"} :
           x \notin {"INIT_PORT", "DISABLE_PORT", "BLOCK_PORT", "MASTER_PORT", "ROOT_PORT",
                     "DESIGNATED_PORT", Stay}
  BY DEF PassedStates, MasterStep, RootStep, DesignatedStep, AlternateStep, Stay
<1>9. {"MASTER_PORT", "ROOT_PORT", "DESIGNATED_PORT"} \cap LastStep = {}
  BY DEF LastStep
<1> HIDE DEF g, c, old, i
<1>10. CASE ~Head(stk).loop /\ g # Stay
  <2>1. s = g
    BY <1>2, <1>10
  <2>2. s \notin PassedStates
    BY <1>3, <1>8, <2>1
  <2> QED
    BY <1>3, <1>8, <1>10, <2>1, <2>2 DEF PassedStates, old, i
<1>11. CASE ~(~Head(stk).loop /\ g # Stay)
  <2>1. s = c
    BY <1>2, <1>11
  <2>2. CASE old \notin ActiveStates
    <3>1. s \in AlternateStep \cup {"ALTERNATE_PORT", "DISABLED_PORT", "DISABLE_PORT", Stay}
      BY <2>1, <2>2, PrtGoes DEF old, c
    <3>2. s \notin PassedStates /\ s \notin {"MASTER_PORT", "ROOT_PORT", "DESIGNATED_PORT"}
      BY <1>8, <3>1 DEF AlternateStep, Stay
    <3>3. old \notin PassedStates
      BY <1>6, <2>2 DEF PassedStates
    <3> QED
      BY <2>2, <3>2, <3>3 DEF PassedStates, old, i
  <2>3. CASE old \in ActiveStates /\ s # Stay
    <3>1. i.role = i.selectedRole
      BY <1>7, <1>11, <2>1, <2>3
    <3>2. /\ old \in MasterStates => i.role = "MASTER"
          /\ old \in RootStates => i.role = "ROOT"
          /\ old \in DesignatedStates => i.role = "DESIGNATED"
      BY DEF RoleState, RoleTakenFor, old, i
    <3>3. \/ s \in MasterStates /\ old \in MasterStates
          \/ s \in RootStates /\ old \in RootStates
          \/ s \in DesignatedStates /\ old \in DesignatedStates
      BY <2>1, <2>3, PrtGoes DEF ActiveStates, MasterStates, RootStates, DesignatedStates, old, c
    <3>4. s \in PassedStates => old \in {"MASTER_PORT", "ROOT_PORT", "DESIGNATED_PORT"}
      BY <1>6, <1>8, <2>1, <2>3, PrtGoes DEF old, c
    <3>5. s \in PassedStates \cup {"MASTER_PORT", "ROOT_PORT", "DESIGNATED_PORT"}
      BY <3>3 DEF PassedStates, MasterStates, RootStates, DesignatedStates
    <3>6. /\ s \in MasterStep \cup {"MASTER_PORT"} => i.role = "MASTER"
          /\ s \in RootStep \cup {"ROOT_PORT"} => i.role = "ROOT"
          /\ s \in DesignatedStep \cup {"DESIGNATED_PORT"} => i.role = "DESIGNATED"
      BY <1>8, <3>2, <3>3 DEF MasterStates, RootStates, DesignatedStates, PassedStates
    <3>7. s \notin AlternateStep \cup {"ALTERNATE_PORT", "DISABLED_PORT"}
      BY <1>8, <3>5
    <3> QED
      BY <1>9, <2>3, <3>1, <3>4, <3>6, <3>7 DEF old, i
  <2>4. CASE old \in ActiveStates /\ s = Stay
    <3>1. old \notin PassedStates
      BY <1>8, <2>1, <2>4, PrtGoes DEF PassedStates, old, c, Stay
    <3>2. s \notin PassedStates /\ s \notin {"MASTER_PORT", "ROOT_PORT", "DESIGNATED_PORT"}
          /\ s \notin AlternateStep \cup {"ALTERNATE_PORT", "DISABLED_PORT"}
      BY <1>8, <2>4 DEF Stay, AlternateStep
    <3> QED
      BY <3>1, <3>2 DEF PassedStates, old, i
  <2> QED
    BY <2>2, <2>3, <2>4
<1> QED
  BY <1>10, <1>11

\* The call that goes on looping is in its loop after it, below what it called;
\* the one that returns is not.
LEMMA LoopedAt ==
  ASSUME NEW S, stk \in Seq(S), stk # <<>>, Looping \in S, NEW calls \in Seq(S), Loop(calls)
  PROVE  \E i \in DOMAIN stk' : stk'[i] = Looping
<1> DEFINE n == Len(calls) + 1
<1>1. stk' = (calls \o <<Looping>>) \o Tail(stk)
  BY DEF Loop, Looping
<1>2. calls \o <<Looping>> \in Seq(S) /\ Len(calls \o <<Looping>>) = n
      /\ (calls \o <<Looping>>)[n] = Looping /\ n \in Nat \ {0}
  OBVIOUS
<1>3. Tail(stk) \in Seq(S)
  OBVIOUS
<1> DEFINE c == calls \o <<Looping>>
<1> HIDE DEF c, n
<1>4. n \in DOMAIN (c \o Tail(stk)) /\ (c \o Tail(stk))[n] = c[n]
  BY <1>2, <1>3 DEF c
<1> QED
  BY <1>1, <1>2, <1>4 DEF c

LEMMA PrtLoopsOn ==
  ASSUME NEW b, stk \in Seq(Frames(b, FrameName)), stk # <<>>, NEW t \in Tree, NEW p \in PortsOf(b),
         Running("PRT", t, p), NEW calls, Loop(calls),
         calls \in {<<>>, <<Call("PTX", CIST, p)>>, Pst(t, p)}
  PROVE  InLoop(t, p)'
<1> DEFINE S == Frames(b, FrameName)
<1>1. Call("PTX", CIST, p) \in S /\ Call("PST", t, p) \in S
  BY CallTypes, NewFramesAreFrames DEF FrameName, Callable, MachineName, Tree
<1>2. calls \in Seq(S)
  <2> DEFINE x == Call("PTX", CIST, p)
             y == Call("PST", t, p)
  <2>1. calls \in {<<>>, <<x>>, <<y>>} /\ x \in S /\ y \in S
    BY <1>1 DEF Pst
  <2> HIDE DEF S, x, y
  <2>2. <<>> \in Seq(S) /\ <<x>> \in Seq(S) /\ <<y>> \in Seq(S)
    BY <2>1
  <2> QED
    BY <2>1, <2>2
<1>3. Head(stk) \in S
  OBVIOUS
<1>4. Looping \in S /\ Looping.sm = "PRT" /\ Looping.t = t /\ Looping.p = p /\ Looping.loop
  BY <1>3 DEF Looping, Frames, Running
<1>5. \E i \in DOMAIN stk' : stk'[i] = Looping
  <2>1. stk \in Seq(S)
    OBVIOUS
  <2> HIDE DEF S
  <2> QED
    BY <1>2, <1>4, <2>1, LoopedAt
<1> QED
  BY <1>4, <1>5 DEF InLoop, InLoopAt

LEMMA PrtLeavesLoop ==
  ASSUME NEW b, stk \in Seq(Frames(b, FrameName)), stk # <<>>, LoopsAlone, Head(stk).sm = "PRT",
         Return(<<>>)
  PROVE  \A t, p : ~InLoop(t, p)'
<1>1. Head(stk) = stk[1] /\ Len(stk) \in Nat /\ DOMAIN stk = 1..Len(stk)
  OBVIOUS
<1>2. \A i \in 2..Len(stk) : ~(stk[i].sm = "PRT" /\ stk[i].loop)
  <2> SUFFICES ASSUME NEW i \in 2..Len(stk), stk[i].sm = "PRT", stk[i].loop PROVE FALSE
    OBVIOUS
  <2>1. 1 \in 1..(i - 1) /\ i \in DOMAIN stk
    BY <1>1
  <2> QED
    BY <1>1, <2>1 DEF LoopsAlone, Quiet
<1>3. stk' = Tail(stk)
  <2>1. stk' = <<>> \o Tail(stk)
    BY DEF Return
  <2> QED
    BY <2>1
<1>4. \A i \in DOMAIN Tail(stk) : i + 1 \in 2..Len(stk) /\ Tail(stk)[i] = stk[i + 1]
  OBVIOUS
<1> QED
  BY <1>2, <1>3, <1>4 DEF InLoop, InLoopAt

\* It enters a state on the way, and goes on looping.
LEMMA PrtPasses ==
  ASSUME TypeOK, NEW b, stk \in Seq(Frames(b, FrameName)), stk # <<>>,
         NEW t \in Tree, NEW p \in Port, p \in PortsOf(b), RoleState(t, p),
         InLoop(t, p) <=> Head(stk).loop, UNCHANGED info,
         NEW s \in PassedStates, NEW calls \in {<<>>, <<Call("PTX", CIST, p)>>, Pst(t, p)},
         PrtTo(t, p, s, calls)
  PROVE  RoleState(t, p)'
<1> DEFINE i == info[t][p]
<1>1. PrtEnters(t, p, s) /\ fsm'[t][p].prt = s
  BY ZenonT(30), PrtSet DEF PrtTo
<1>2. /\ i.role = i.selectedRole /\ fsm[t][p].prt \notin LastStep
      /\ s \in MasterStep => i.role = "MASTER"
      /\ s \in RootStep => i.role = "ROOT"
      /\ s \in DesignatedStep => i.role = "DESIGNATED"
  BY <1>1, PrtEntersRole
<1>3. InLoop(t, p)'
  <2>1. Running("PRT", t, p) /\ Loop(calls)
    BY <1>1, <1>2 DEF PrtTo, PrtEnters, LoopIf
  <2> QED
    BY <2>1, PrtLoopsOn
<1>4. /\ s \in MasterStates => s \in MasterStep
      /\ s \in RootStates => s \in RootStep
      /\ s \in DesignatedStates => s \in DesignatedStep
  BY DEF MasterStates, RootStates, DesignatedStates, PassedStates, MasterStep, RootStep,
     DesignatedStep
<1>5. s \in MasterStep \/ s \in RootStep \/ s \in DesignatedStep
  BY DEF PassedStates
<1>6. s \in ActiveStates
  BY <1>5 DEF ActiveStates, MasterStates, RootStates, DesignatedStates
<1>7. i.role # "UNKNOWN" /\ info' = info
  BY <1>2, <1>5
<1> HIDE DEF i
<1> QED
  BY <1>1, <1>2, <1>3, <1>4, <1>6, <1>7 DEF RoleState, RoleTakenFor, i

\* It enters the state of an active role and takes the role.
LEMMA PrtTakes ==
  ASSUME TypeOK, NEW t \in Tree, NEW p \in Port, RoleState(t, p),
         InLoop(t, p) <=> Head(stk).loop, TakesRole(t, p),
         NEW s \in {"MASTER_PORT", "ROOT_PORT", "DESIGNATED_PORT"}, NEW calls,
         PrtTo(t, p, s, calls)
  PROVE  RoleState(t, p)'
<1>1. PrtEnters(t, p, s) /\ fsm'[t][p].prt = s
  BY PrtSet DEF PrtTo
<1>2. /\ s = "MASTER_PORT" => info[t][p].selectedRole = "MASTER"
      /\ s = "ROOT_PORT" => info[t][p].selectedRole = "ROOT"
      /\ s = "DESIGNATED_PORT" => info[t][p].selectedRole = "DESIGNATED"
  BY <1>1, PrtEntersRole
<1>3. /\ info'[t][p].role = info[t][p].selectedRole
      /\ info'[t][p].selectedRole = info[t][p].selectedRole
  <2>1. info \in [Tree -> [Port -> PortInfo]]
    BY DEF TypeOK, TreeTypes
  <2> QED
    BY <2>1 DEF TakesRole, PortInfo
<1>4. /\ s \in MasterStates => s = "MASTER_PORT"
      /\ s \in RootStates => s = "ROOT_PORT"
      /\ s \in DesignatedStates => s = "DESIGNATED_PORT"
      /\ s \notin PassedStates
  BY DEF MasterStates, RootStates, DesignatedStates, PassedStates, MasterStep, RootStep,
     DesignatedStep
<1>5. s \in ActiveStates
  BY DEF ActiveStates, MasterStates, RootStates, DesignatedStates
<1> QED
  BY <1>1, <1>2, <1>3, <1>4, <1>5 DEF RoleState, RoleTakenFor

\* It enters a state of no active role, and the port does not learn.
LEMMA PrtKeepsQuiet ==
  ASSUME TypeOK, NEW t \in Tree, NEW p \in Port, NEW s, s \notin ActiveStates, NEW calls,
         PrtTo(t, p, s, calls), ~On(t, p, "learn")'
  PROVE  RoleState(t, p)'
<1>1. fsm'[t][p].prt = s
  BY PrtSet
<1> QED
  BY <1>1 DEF RoleState, RoleTakenFor, ActiveStates, PassedStates, MasterStates, RootStates,
     DesignatedStates

\* What a step of Port Role Transitions changes at all.
LEMMA PrtChanges ==
  ASSUME TypeOK, NEW t \in Tree, NEW p \in Port, PrtSm(t, p)
  PROVE  /\ PrtReturn(t, p) \/ \E s, calls : PrtTo(t, p, s, calls)
         /\ BitsStay \/ \E set, clr : bits' = SetBits(t, p, set, clr)
         /\ info' = info \/ \E v : info' = [info EXCEPT ![t][p].role = v]
<1>1. CASE PrtReturn(t, p)
  BY <1>1 DEF PrtReturn, treeVars, BitsStay
<1>2. CASE PrtInitPort(t, p) \/ PrtDisablePort(t, p) \/ PrtBlockPort(t, p)
  BY <1>2 DEF PrtInitPort, PrtDisablePort, PrtBlockPort, PrtStops, Flags, TakesRole
<1>3. CASE PrtLearn(t, p) \/ PrtForward(t, p) \/ PrtRootForward(t, p) \/ PrtDiscard(t, p)
  <2>1. UNCHANGED info /\ \E s, calls : PrtTo(t, p, s, calls)
    BY <1>3 DEF PrtLearn, PrtForward, PrtRootForward, PrtDiscard
  <2>2. \E set, clr : bits' = SetBits(t, p, set, clr)
    BY <1>3 DEF PrtLearn, PrtForward, PrtRootForward, PrtDiscard, Flags
  <2> QED
    BY <2>1, <2>2
<1>4. CASE PrtMasterPort(t, p) \/ PrtDesignatedPort(t, p) \/ PrtRootPort(t, p)
  <2>1. info' = [info EXCEPT ![t][p].role = info[t][p].selectedRole]
    BY <1>4 DEF PrtMasterPort, PrtDesignatedPort, PrtRootPort, TakesRole
  <2>2. BitsStay /\ \E s \in PrtState : \E calls : PrtTo(t, p, s, calls)
    BY <1>4, PrtKeepsFlags
  <2> QED
    BY <2>1, <2>2
<1>5. CASE \/ PrtDisabledPort(t, p) \/ PrtAlternatePort(t, p) \/ PrtBackupPort(t, p)
           \/ PrtPropose(t, p) \/ PrtProposed(t, p) \/ PrtAgreed(t, p)
           \/ PrtAlternateAgreed(t, p) \/ PrtMasterAgreed(t, p) \/ PrtSynced(t, p)
           \/ PrtRootSynced(t, p) \/ PrtReRoot(t, p) \/ PrtRetired(t, p)
  <2>1. UNCHANGED info
    BY <1>5 DEF PrtDisabledPort, PrtAlternatePort, PrtRests, PrtBackupPort, PrtPropose,
       PrtProposed, PrtAgreed, PrtAlternateAgreed, PrtMasterAgreed, PrtSynced, PrtRootSynced,
       PrtReRoot, PrtRetired
  <2>2. BitsStay /\ \E s \in PrtState : \E calls : PrtTo(t, p, s, calls)
    BY <1>5, PrtKeepsFlags
  <2> QED
    BY <2>1, <2>2
<1> QED
  BY <1>1, <1>2, <1>3, <1>4, <1>5 DEF PrtSm

\* The ports and trees it does not run for.
LEMMA PrtLeavesOthers ==
  ASSUME TypeOK, NEW t \in Tree, NEW p \in Port, PrtSm(t, p),
         NEW u \in Tree, NEW q \in Port, ~(u = t /\ q = p)
  PROVE  /\ On(u, q, "learn")' <=> On(u, q, "learn")
         /\ fsm'[u][q].prt = fsm[u][q].prt /\ info'[u][q] = info[u][q]
<1>1. fsm'[u][q].prt = fsm[u][q].prt
  <2>1. CASE PrtReturn(t, p)
    BY <2>1 DEF PrtReturn, treeVars
  <2>2. CASE \E s, calls : PrtTo(t, p, s, calls)
    BY <2>2, PrtSet
  <2> QED
    BY <2>1, <2>2, PrtChanges
<1>2. On(u, q, "learn")' <=> On(u, q, "learn")
  <2>1. CASE BitsStay
    BY <2>1 DEF BitsStay, PstBits, On
  <2>2. CASE \E set, clr : bits' = SetBits(t, p, set, clr)
    BY <2>2, OneSet DEF On
  <2> QED
    BY <2>1, <2>2, PrtChanges
<1>3. info'[u][q] = info[u][q]
  <2>1. info \in [Tree -> [Port -> PortInfo]]
    BY DEF TypeOK, TreeTypes
  <2>2. CASE \E v : info' = [info EXCEPT ![t][p].role = v]
    BY <2>1, <2>2
  <2> QED
    BY <2>2, PrtChanges
<1> QED
  BY <1>1, <1>2, <1>3

\* and the one it runs for
LEMMA PrtKeepsRole ==
  ASSUME TypeOK, NEW b, stk \in Seq(Frames(b, FrameName)), stk # <<>>, LoopsAlone,
         NEW t \in Tree, NEW p \in Port, p \in PortsOf(b), RoleState(t, p), Head(stk).sm = "PRT",
         InLoop(t, p) <=> Head(stk).loop, PrtSm(t, p)
  PROVE  RoleState(t, p)'
<1>1. CASE \/ PrtMasterPort(t, p) \/ PrtDesignatedPort(t, p) \/ PrtRootPort(t, p)
  BY <1>1, PrtTakes DEF PrtMasterPort, PrtDesignatedPort, PrtRootPort
<1>2. CASE PrtInitPort(t, p) \/ PrtDisablePort(t, p) \/ PrtBlockPort(t, p)
  <2>1. PICK s, calls, set, clr :
          /\ s \in {"INIT_PORT", "DISABLE_PORT", "BLOCK_PORT"} /\ PrtTo(t, p, s, calls)
          /\ bits' = SetBits(t, p, set, clr) /\ set \in {{}, {"sync", "reRoot"}} /\ "learn" \in clr
    BY <1>2 DEF PrtInitPort, PrtDisablePort, PrtBlockPort, PrtStops, Flags
  <2>2. ~On(t, p, "learn")'
    <3>1. bits'[t][p] = (bits[t][p] \ clr) \cup set
      BY <2>1, OneSet
    <3> QED
      BY <2>1, <3>1 DEF On
  <2>3. s \notin ActiveStates
    BY <2>1 DEF ActiveStates, MasterStates, RootStates, DesignatedStates, MasterStep, RootStep,
       DesignatedStep
  <2> QED
    BY <2>1, <2>2, <2>3, PrtKeepsQuiet
<1>3. ASSUME NEW s \in AlternateStep \cup {"ALTERNATE_PORT", "DISABLED_PORT"}, NEW calls,
             PrtTo(t, p, s, calls), BitsStay
      PROVE  RoleState(t, p)'
  <2>1. fsm[t][p].prt \notin ActiveStates
    <3>1. PrtEnters(t, p, s)
      BY <1>3 DEF PrtTo
    <3> QED
      BY <3>1, PrtEntersRole
  <2>2. ~On(t, p, "learn")'
    BY <1>3, <2>1 DEF RoleState, BitsStay, PstBits, On
  <2>3. s \notin ActiveStates
    BY <1>3 DEF ActiveStates, MasterStates, RootStates, DesignatedStates, MasterStep, RootStep,
       DesignatedStep, AlternateStep
  <2> QED
    BY <1>3, <2>2, <2>3, PrtKeepsQuiet
<1>4. CASE \/ PrtDisabledPort(t, p) \/ PrtAlternatePort(t, p) \/ PrtBackupPort(t, p)
           \/ PrtAlternateAgreed(t, p)
  <2>1. BitsStay
    BY <1>4, PrtKeepsFlags
  <2>2. PICK s, calls : /\ s \in AlternateStep \cup {"ALTERNATE_PORT", "DISABLED_PORT"}
                        /\ PrtTo(t, p, s, calls)
    BY <1>4 DEF PrtDisabledPort, PrtAlternatePort, PrtRests, PrtBackupPort, PrtAlternateAgreed,
       AlternateStep
  <2> QED
    BY <1>3, <2>1, <2>2
<1>5. ASSUME NEW s \in PassedStates, NEW calls \in {<<>>, <<Call("PTX", CIST, p)>>, Pst(t, p)},
             PrtTo(t, p, s, calls), UNCHANGED info
      PROVE  RoleState(t, p)'
  BY <1>5, PrtPasses
<1>6. CASE PrtProposed(t, p)
  <2>1. PICK s \in {"MASTER_PROPOSED", "ROOT_PROPOSED", "ALTERNATE_PROPOSED"} :
          PrtTo(t, p, s, <<>>)
    BY <1>6 DEF PrtProposed
  <2>2. BitsStay /\ UNCHANGED info
    BY <1>6, PrtKeepsFlags DEF PrtProposed
  <2>3. s \in AlternateStep \/ s \in PassedStates
    BY DEF AlternateStep, PassedStates, MasterStep, RootStep
  <2> QED
    BY <1>3, <1>5, <2>1, <2>2, <2>3
<1>7. CASE \/ PrtPropose(t, p) \/ PrtAgreed(t, p) \/ PrtMasterAgreed(t, p) \/ PrtSynced(t, p)
           \/ PrtRootSynced(t, p) \/ PrtReRoot(t, p) \/ PrtRetired(t, p)
  <2>1. PICK s, calls : /\ s \in PassedStates /\ calls \in {<<>>, <<Call("PTX", CIST, p)>>}
                        /\ PrtTo(t, p, s, calls)
    BY <1>7 DEF PrtPropose, PrtAgreed, PrtMasterAgreed, PrtSynced, PrtRootSynced, PrtReRoot,
       PrtRetired, PassedStates, MasterStep, RootStep, DesignatedStep
  <2>2. UNCHANGED info
    BY <1>7 DEF PrtPropose, PrtAgreed, PrtMasterAgreed, PrtSynced, PrtRootSynced, PrtReRoot,
       PrtRetired
  <2> QED
    BY <1>5, <2>1, <2>2
<1>8. CASE PrtLearn(t, p) \/ PrtForward(t, p) \/ PrtRootForward(t, p) \/ PrtDiscard(t, p)
  <2>1. PICK s : s \in PassedStates /\ PrtTo(t, p, s, Pst(t, p))
    BY <1>8 DEF PrtLearn, PrtForward, PrtRootForward, PrtDiscard, PassedStates, MasterStep,
       RootStep, DesignatedStep
  <2>2. UNCHANGED info
    BY <1>8 DEF PrtLearn, PrtForward, PrtRootForward, PrtDiscard
  <2> QED
    BY <1>5, <2>1, <2>2
<1>9. CASE PrtReturn(t, p)
  <2>1. PrtEnters(t, p, Stay) /\ Return(<<>>) /\ UNCHANGED <<info, bits, fsm>>
    BY <1>9 DEF PrtReturn, treeVars
  <2>2. fsm[t][p].prt \notin PassedStates
    BY <2>1, PrtEntersRole
  <2>3. ~InLoop(t, p)'
    BY <2>1, PrtLeavesLoop
  <2> QED
    BY <2>1, <2>2, <2>3 DEF RoleState, RoleTakenFor, On
<1> QED
  BY <1>1, <1>2, <1>4, <1>6, <1>7, <1>8, <1>9 DEF PrtSm

LEMMA RunStepKeepsRoleInv ==
  ASSUME TypeOK, StackInv, RoleInv, RunStep
  PROVE  RoleInv'
<1>1. PICK t \in Tree, p \in Port :
        stk # <<>> /\ Head(stk).t = t /\ Head(stk).p = p /\ Runs(Head(stk).sm, t, p)
  BY DEF RunStep
<1>2. PICK b \in Bridge : Spanning(b) /\ stk \in Seq(Frames(b, FrameName))
  BY <1>1 DEF StackInv, StackType
<1>3. p \in PortsOf(b)
  <2>1. Head(stk) \in Frames(b, FrameName)
    BY <1>1, <1>2
  <2> QED
    BY <1>1, <2>1 DEF Frames
<1>4. LoopsAlone /\ \A u \in Tree, q \in Port : RoleState(u, q)
  BY DEF RoleInv
<1>5. /\ LoopsAlone'
      /\ \A u \in Tree, q \in Port :
           ~(Head(stk).sm = "PRT" /\ u = t /\ q = p) => (InLoop(u, q)' <=> InLoop(u, q))
  BY <1>1, <1>2, <1>4, RunStepKeepsLoopsAlone
<1>6. CASE Head(stk).sm = "PRT"
  <2>1. PrtSm(t, p)
    BY <1>1, <1>6 DEF Runs, TickSteps, PimSteps, BeginDone, EnablePort, PendingTx, InformDBStep,
       Running
  <2>2. InLoop(t, p) <=> Head(stk).loop
    <3>1. InLoop(t, p) => Head(stk).loop
      <4>1. Head(stk).sm \notin Quiet
        BY <1>6 DEF Quiet
      <4> QED
        BY <1>1, <1>2, <1>4, <4>1, RunsInLoop
    <3>2. Head(stk).loop => InLoop(t, p)
      <4>1. Head(stk) = stk[1] /\ 1 \in DOMAIN stk
        BY <1>1, <1>2
      <4> QED
        BY <1>1, <1>6, <4>1 DEF InLoop, InLoopAt
    <3> QED
      BY <3>1, <3>2
  <2>3. RoleState(t, p)'
    BY <1>1, <1>2, <1>3, <1>4, <1>6, <2>1, <2>2, PrtKeepsRole
  <2>4. ASSUME NEW u \in Tree, NEW q \in Port, ~(u = t /\ q = p)
        PROVE  RoleState(u, q)'
    BY <1>4, <1>5, <2>1, <2>4, PrtLeavesOthers, RoleStateKept
  <2> QED
    BY <1>5, <2>3, <2>4 DEF RoleInv
<1>7. CASE Head(stk).sm = "PRS"
  <2>1. PrsSm(t, p)
    BY <1>1, <1>7 DEF Runs, TickSteps, PimSteps, BeginDone, EnablePort, PendingTx, InformDBStep,
       Running
  <2>2. \A u \in Tree, q \in Port : ~InLoop(u, q) /\ ~InLoop(u, q)'
    <3>1. Head(stk).sm \notin Quiet
      BY <1>7 DEF Quiet
    <3> QED
      BY <1>1, <1>2, <1>4, <1>5, <1>7, <3>1, RunsInLoop
  <2>3. BitsStay /\ FsmStay
    BY <2>1, PrsKeepsStates
  <2>4. ASSUME NEW u \in Tree, NEW q \in Port
        PROVE  RoleState(u, q)'
    <3>1. /\ info'[u][q].role = info[u][q].role
          /\ info[u][q].selectedRole # "UNKNOWN" => info'[u][q].selectedRole # "UNKNOWN"
      BY <2>1, PrsSelects
    <3>2. fsm'[u][q].prt = fsm[u][q].prt /\ (On(u, q, "learn")' <=> On(u, q, "learn"))
      BY <2>3 DEF BitsStay, FsmStay, PstBits, On
    <3>3. RoleState(u, q)
      BY <1>4
    <3> QED
      BY <2>2, <3>1, <3>2, <3>3 DEF RoleState, RoleTakenFor
  <2> QED
    BY <1>5, <2>4 DEF RoleInv
<1>8. CASE Head(stk).sm \notin {"PRT", "PRS"}
  <2>1. \A u \in Tree, q \in Port :
          fsm'[u][q].prt = fsm[u][q].prt /\ (On(u, q, "learn")' <=> On(u, q, "learn"))
    <3>1. CASE BitsStay /\ FsmStay
      BY <3>1 DEF BitsStay, FsmStay, PstBits, On
    <3>2. CASE PpmSm(p) \/ BdmSm(p) \/ PrxSm(p) \/ PtxSm(p) \/ PtiSm(p)
      BY <3>1, <3>2, PortMachinesKeepStates DEF FsmStay
    <3>3. CASE BeginDone(p) \/ EnablePort(p) \/ PendingTx(p) \/ InformDBStep(p)
      BY <3>3 DEF BeginDone, EnablePort, PendingTx, InformDBStep, treeVars, On
    <3>4. CASE TcmSm(t, p) \/ PimSm(t, p)
      BY <3>1, <3>4, TcmKeepsStates, PimKeepsStates
    <3>5. CASE PstSm(t, p)
      <4>1. CASE PstReturn(t, p)
        BY <4>1 DEF PstReturn, treeVars, On
      <4>2. ASSUME NEW s, NEW set, NEW clr, PstMoves(t, p, s, set, clr),
                   "learn" \notin set, "learn" \notin clr
            PROVE  \A u \in Tree, q \in Port :
                     /\ fsm'[u][q].prt = fsm[u][q].prt
                     /\ On(u, q, "learn")' <=> On(u, q, "learn")
        <5>1. /\ fsm'[t][p].prt = fsm[t][p].prt /\ bits'[t][p] = (bits[t][p] \ clr) \cup set
              /\ \A u \in Tree, q \in Port : ~(u = t /\ q = p) => SameState(u, q)
          BY <4>2, PstSet
        <5>2. On(t, p, "learn")' <=> On(t, p, "learn")
          BY <4>2, <5>1 DEF On
        <5> QED
          BY <5>1, <5>2 DEF SameState, PstBits, On
      <4>3. \E s, set, clr : /\ PstMoves(t, p, s, set, clr)
                             /\ "learn" \notin set /\ "learn" \notin clr
            \/ PstReturn(t, p)
        BY <3>5 DEF PstSm, PstDiscarding, PstLearning, PstForwarding
      <4> QED
        BY <4>1, <4>2, <4>3
    <3> QED
      BY <1>1, <1>8, <3>2, <3>3, <3>4, <3>5 DEF Runs
  <2>2. SameRoles
    <3>1. CASE \/ PpmSm(p) \/ BdmSm(p) \/ PrxSm(p) \/ PtxSm(p) \/ PtiSm(p)
               \/ PstSm(t, p) \/ TcmSm(t, p)
      BY <3>1, OthersKeepRoles
    <3>2. CASE BeginDone(p) \/ EnablePort(p) \/ PendingTx(p) \/ InformDBStep(p)
      BY <3>2 DEF BeginDone, EnablePort, PendingTx, InformDBStep, treeVars, SameRoles
    <3>3. CASE PimSm(t, p)
      BY <3>3, PimKeepsRoles
    <3> QED
      BY <1>1, <1>8, <3>1, <3>2, <3>3 DEF Runs
  <2>3. \A u \in Tree, q \in Port : RoleState(u, q)'
    BY <1>4, <1>5, <1>8, <2>1, <2>2, RoleStateKept DEF SameRoles
  <2> QED
    BY <1>5, <2>3 DEF RoleInv
<1> QED
  BY <1>6, <1>7, <1>8

LEMMA UnknownIsNoRole ==
  /\ "UNKNOWN" \notin ActiveStates /\ "UNKNOWN" \notin PassedStates
  /\ "UNKNOWN" \notin MasterStates /\ "UNKNOWN" \notin RootStates /\ "UNKNOWN" \notin DesignatedStates
BY DEF ActiveStates, PassedStates, MasterStates, RootStates, DesignatedStates, MasterStep, RootStep,
   DesignatedStep

\* Port Role Transitions is in its loop in no stack that an event finds or starts.
LEMMA EventsStartNoLoop ==
  ASSUME TypeOK, Event
  PROVE  stk = <<>> /\ \A i \in DOMAIN stk' : ~stk'[i].loop
<1>1. stk = <<>>
  BY DEF Event, Enable, Disable, Reconfigure, Tick, LinkUp, LinkDown, Receive, ReceiveForeign, Lose
<1>2. ASSUME NEW b \in Bridge, Started(b)
      PROVE  \A i \in DOMAIN stk' : ~stk'[i].loop
  <2>1. CASE stk' = <<>>
    BY <2>1
  <2>2. CASE stk' \in Seq(NewFrames(b, FrameName))
    <3>1. \A i \in DOMAIN stk' : stk'[i] \in NewFrames(b, FrameName)
      BY <2>2
    <3> QED
      BY <3>1 DEF NewFrames
  <2> QED
    BY <1>2, <2>1, <2>2 DEF Started
<1>3. ASSUME NEW b \in Bridge, Enable(b) \/ Tick(b)
      PROVE  \A i \in DOMAIN stk' : ~stk'[i].loop
  BY <1>2, <1>3, EnableStarts, TickStarts
<1>4. ASSUME NEW p \in Port, LinkUp(p) \/ LinkDown(p) \/ Receive(p) \/ ReceiveForeign(p)
      PROVE  \A i \in DOMAIN stk' : ~stk'[i].loop
  BY <1>2, <1>4, LinkStarts, DeliverStarts, OwnerType
<1>5. CASE \/ \E b \in Bridge : Disable(b) \/ Reconfigure(b)
           \/ \E p \in Port : Lose(p)
  <2>1. stk' = <<>>
    BY <1>1, <1>5 DEF Disable, Reconfigure, Lose
  <2> QED
    BY <1>1, <2>1
<1> QED
  BY <1>1, <1>3, <1>4, <1>5 DEF Event

LEMMA EventKeepsRoleInv ==
  ASSUME TypeOK, RoleInv, Event
  PROVE  RoleInv'
<1>1. LoopsAlone' /\ \A t, p : ~InLoop(t, p) /\ ~InLoop(t, p)'
  <2>1. DOMAIN stk = {} /\ \A i \in DOMAIN stk' : ~stk'[i].loop
    BY EventsStartNoLoop
  <2> QED
    BY <2>1 DEF LoopsAlone, InLoop, InLoopAt
<1>2. ASSUME NEW u \in Tree, NEW q \in Port,
             bits'[u][q] = bits[u][q] /\ fsm'[u][q] = fsm[u][q] /\ info'[u][q] = info[u][q]
      PROVE  RoleState(u, q)'
  <2>1. RoleState(u, q) /\ (On(u, q, "learn")' <=> On(u, q, "learn"))
    BY <1>2 DEF RoleInv, On
  <2> QED
    BY <1>1, <1>2, <2>1, RoleStateKept
<1>3. CASE \/ \E b \in Bridge : Enable(b) \/ Tick(b)
           \/ \E p \in Port : LinkUp(p) \/ LinkDown(p) \/ Receive(p) \/ ReceiveForeign(p) \/ Lose(p)
  <2>1. UNCHANGED <<bits, fsm, info>>
    BY <1>3 DEF Enable, Tick, LinkUp, LinkDown, Receive, ReceiveForeign, Deliver, Lose, treeVars
  <2> QED
    BY <1>1, <1>2, <2>1 DEF RoleInv
<1>4. ASSUME NEW b \in Bridge, Disable(b) \/ Reconfigure(b)
      PROVE  RoleInv'
  <2>1. /\ bits' = Renew(bits, b, LAMBDA t, p : {})
        /\ fsm' = Renew(fsm, b, LAMBDA t, p : FreshFsm)
        /\ info' = Renew(info, b, LAMBDA t, p : FreshInfo)
    BY <1>4 DEF Disable, Reconfigure, ClearProtocolData
  <2>2. ASSUME NEW u \in Tree, NEW q \in Port, Owner[q] # b
        PROVE  RoleState(u, q)'
    BY <1>2, <2>1, <2>2 DEF Renew
  <2>3. ASSUME NEW u \in Tree, NEW q \in Port, Owner[q] = b
        PROVE  RoleState(u, q)'
    <3>1. bits'[u][q] = {} /\ fsm'[u][q] = FreshFsm
      BY <2>1, <2>3 DEF Renew
    <3>2. fsm'[u][q].prt = "UNKNOWN" /\ ~On(u, q, "learn")'
      BY <3>1 DEF FreshFsm, On
    <3> QED
      BY <3>2, UnknownIsNoRole DEF RoleState, RoleTakenFor
  <2> QED
    BY <1>1, <2>2, <2>3 DEF RoleInv
<1> QED
  BY <1>3, <1>4 DEF Event

LEMMA InitRoleInv == Init => RoleInv
<1> SUFFICES ASSUME Init PROVE RoleInv
  OBVIOUS
<1>1. LoopsAlone
  BY DEF Init, LoopsAlone
<1>2. ASSUME NEW t \in Tree, NEW p \in Port
      PROVE  RoleState(t, p)
  <2>1. fsm[t][p].prt = "UNKNOWN" /\ ~On(t, p, "learn")
    BY <1>2 DEF Init, FreshFsm, On
  <2> QED
    BY <2>1, UnknownIsNoRole DEF RoleState, RoleTakenFor
<1> QED
  BY <1>1, <1>2 DEF RoleInv

LEMMA StepKeepsRoleInv == TypeOK /\ StackInv /\ RoleInv /\ [Next]_vars => RoleInv'
<1> SUFFICES ASSUME TypeOK, StackInv, RoleInv, [Next]_vars PROVE RoleInv'
  OBVIOUS
<1>1. CASE UNCHANGED vars
  BY <1>1 DEF vars, treeVars, RoleInv, LoopsAlone, RoleState, RoleTakenFor, InLoop, InLoopAt, On
<1> QED
  BY <1>1, RunStepKeepsRoleInv, EventKeepsRoleInv DEF Next

LEMMA RoleInvHolds == Spec => []RoleInv
BY InitRoleInv, StepKeepsRoleInv, TypesHold, StackHolds, PTL DEF Spec

\* Between events a port the switch does not block has the role of Root, of
\* Designated or of Master Port on that tree, for every network: a port leaves
\* the states of such a role only by discarding (mstp_prtSm), takes
\* another of them only in the state of that role, and selections
\* (mstp_updtRolesTree) are not made under a Port Role Transitions that runs.
THEOREM PassingPortsAreActive == Spec => []OnlyActivePasses
<1>1. ASSUME TypeOK, PstInv, DbInv, RoleInv, NEW t \in Tree, NEW p \in Port, Idle(p),
             db[t][p] # "Blocking"
      PROVE  info[t][p].role \in ActiveRole
  <2>1. /\ db[t][p] = DbName[fsm[t][p].pst] /\ PstCond(t, p) = Stay /\ PortState(t, p)
        /\ fsm[t][p].pst \in {"DISCARDING", "LEARNING", "FORWARDING"}
    BY <1>1, RestsPublished
  <2>2. fsm[t][p].pst \in {"LEARNING", "FORWARDING"}
    BY <1>1, <2>1 DEF DbName
  <2>3. On(t, p, "learn")
    BY <2>1, <2>2 DEF PstCond, PortState, Stay
  <2>4. RoleState(t, p)
    BY <1>1 DEF RoleInv
  <2> QED
    BY <2>3, <2>4 DEF RoleState, RoleTakenFor, ActiveStates, ActiveRole
<1>2. TypeOK /\ PstInv /\ DbInv /\ RoleInv => OnlyActivePasses
  BY <1>1 DEF OnlyActivePasses
<1> QED
  BY <1>2, TypesHold, PstInvHolds, DbInvHolds, RoleInvHolds, PTL

-----------------------------------------------------------------------------
(* The one key a port has for all trees.                                     *)

\* block_all_mstp of p does not contradict what the trees have
BlockOK(p) == \E t \in Tree : db[t][p] # (IF blockAll[p] THEN "Forwarding" ELSE "Blocking")

\* The key may contradict the trees only while one of them still has a change
\* to write, or a first state to enter.
BlockInv ==
  \A p \in Port :
    Spanning(Owner[p]) =>
      BlockOK(p) \/ \E t \in Tree : pend[t][p] # "none" \/ fsm[t][p].pst = "UNKNOWN"

\* A set of positions that is not empty has exactly one last member.
LEMMA LastPosition ==
  ASSUME NEW n \in Nat, NEW T, T \subseteq 1..n, T # {}
  PROVE  \E m \in T : {j \in T : \A k \in T : k <= j} = {m}
<1> DEFINE distances == {n - i : i \in T}
<1>1. \A i \in T : i \in 1..n /\ n - i \in Nat
  OBVIOUS
<1>2. distances \subseteq Nat /\ distances # {} /\ \A i \in T : n - i \in distances
  BY <1>1
<1>3. \A d \in distances : \E i \in T : d = n - i
  OBVIOUS
<1> HIDE DEF distances
<1>4. PICK d \in distances : \A k \in distances : d <= k
  BY <1>2, Least
<1>5. PICK j \in T : d = n - j
  BY <1>3
<1>6. \A k \in T : k <= j
  BY <1>1, <1>2, <1>4, <1>5
<1>7. \A i \in T : j <= i => i = j
  BY <1>1, <1>6
<1> QED
  BY <1>1, <1>6, <1>7

\* the last message to write the key: there is one as soon as any writes it
LEMMA LastWriterIs ==
  ASSUME TypeOK, ChangesQueued, NEW q \in Port
  PROVE  LET b == Owner[q]
             writing == {t \in Tree : pend[t][q] \in {"Blk", "Fwd"}}
         IN  \/ LastBlockWriter(b, q) = {} /\ writing = {}
             \/ \E t \in writing : LastBlockWriter(b, q) = {t}
<1> DEFINE b == Owner[q]
           n == Len(treeQ[b])
           at == {i \in DOMAIN treeQ[b] : pend[treeQ[b][i]][q] \in {"Blk", "Fwd"}}
           last == {j \in at : \A k \in at : k <= j}
<1>1. b \in Bridge /\ treeQ[b] \in Seq(Tree)
  BY OwnerType DEF TypeOK, DbTypes
<1>2. LastBlockWriter(b, q) = {treeQ[b][i] : i \in last}
  BY DEF LastBlockWriter
<1>3. n \in Nat /\ DOMAIN treeQ[b] = 1..n /\ \A i \in 1..n : treeQ[b][i] \in Tree
  BY <1>1
<1>4. CASE at = {}
  <2>1. ASSUME NEW t \in Tree, pend[t][q] \in {"Blk", "Fwd"}
        PROVE  FALSE
    <3>1. t \in {treeQ[b][i] : i \in DOMAIN treeQ[b]}
      BY <2>1 DEF ChangesQueued
    <3> QED
      BY <1>4, <2>1, <3>1
  <2> QED
    BY <1>2, <1>4, <2>1
<1>5. CASE at # {}
  <2>1. PICK j \in at : last = {j}
    <3>1. at \subseteq 1..n
      BY <1>3
    <3> HIDE DEF at
    <3> QED
      BY <1>3, <1>5, <3>1, LastPosition
  <2>2. LastBlockWriter(b, q) = {treeQ[b][j]}
    BY <1>2, <2>1
  <2>3. treeQ[b][j] \in Tree /\ pend[treeQ[b][j]][q] \in {"Blk", "Fwd"}
    BY <1>3, <2>1
  <2> QED
    BY <2>2, <2>3
<1> QED
  BY <1>4, <1>5

LEMMA InformDBKeepsBlockInv ==
  ASSUME TypeOK, ChangesQueued, BlockInv, NEW p \in Port, InformDBStep(p)
  PROVE  BlockInv'
<1> DEFINE b == Owner[p]
           KeyAgrees(q) == BlockOK(q)'
                        \/ \E t \in Tree : pend'[t][q] # "none" \/ fsm'[t][q].pst = "UNKNOWN"
<1>1. UNCHANGED <<fsm, ctl>>
  BY DEF InformDBStep, treeVars, bridgeVars
<1>2. \A u \in Tree, q \in Port :
        /\ pend'[u][q] = IF Owner[q] = b THEN "none" ELSE pend[u][q]
        /\ db'[u][q] = IF Owner[q] = b /\ pend[u][q] # "none" THEN StateName[pend[u][q]]
                       ELSE db[u][q]
  BY DEF InformDBStep, Renew
<1>3. \A q \in Port :
        blockAll'[q] = IF Owner[q] # b \/ LastBlockWriter(b, q) = {} THEN blockAll[q]
                       ELSE \A t \in LastBlockWriter(b, q) : pend[t][q] = "Blk"
  BY DEF InformDBStep
<1>4. ASSUME NEW q \in Port, Spanning(Owner[q])'
      PROVE  KeyAgrees(q)
  <2>1. BlockOK(q) \/ \E t \in Tree : pend[t][q] # "none" \/ fsm[t][q].pst = "UNKNOWN"
    BY <1>1, <1>4 DEF BlockInv, Spanning
  <2>2. CASE /\ \A t \in Tree : pend'[t][q] = pend[t][q] /\ db'[t][q] = db[t][q]
             /\ blockAll'[q] = blockAll[q]
    BY <1>1, <2>1, <2>2 DEF BlockOK
  <2>3. CASE Owner[q] # b
    BY <1>2, <1>3, <2>2, <2>3
  <2>4. CASE Owner[q] = b /\ \E t \in Tree : pend[t][q] = "Lrn"
    <3>1. PICK t \in Tree : pend[t][q] = "Lrn"
      BY <2>4
    <3>2. db'[t][q] = "Learning"
      BY <1>2, <2>4, <3>1 DEF StateName
    <3> QED
      BY <3>2 DEF BlockOK
  <2>5. CASE Owner[q] = b /\ \E t \in Tree : pend[t][q] \in {"Blk", "Fwd"}
    <3>1. PICK t \in Tree : pend[t][q] \in {"Blk", "Fwd"} /\ LastBlockWriter(b, q) = {t}
      BY <2>5, LastWriterIs
    <3>2. blockAll'[q] <=> pend[t][q] = "Blk"
      BY <1>3, <2>5, <3>1
    <3>3. db'[t][q] = IF pend[t][q] = "Blk" THEN "Blocking" ELSE "Forwarding"
      BY <1>2, <2>5, <3>1 DEF StateName
    <3>4. BlockOK(q)'
      BY <3>2, <3>3 DEF BlockOK
    <3> QED
      BY <3>4
  <2>6. CASE Owner[q] = b /\ \A t \in Tree : pend[t][q] = "none"
    <3>1. LastBlockWriter(b, q) = {}
      BY <2>6, LastWriterIs
    <3> QED
      BY <1>2, <1>3, <2>2, <2>6, <3>1
  <2>7. \A t \in Tree : pend[t][q] \in {"none", "Blk", "Lrn", "Fwd"}
    BY DEF TypeOK, DbTypes
  <2> QED
    BY <2>3, <2>4, <2>5, <2>6, <2>7
<1> QED
  BY <1>4 DEF BlockInv

LEMMA RunStepKeepsBlockInv ==
  ASSUME TypeOK, ChangesQueued, BlockInv, RunStep
  PROVE  BlockInv'
<1>1. PICK t \in Tree, p \in Port :
        stk # <<>> /\ Head(stk).t = t /\ Head(stk).p = p /\ Runs(Head(stk).sm, t, p)
  BY DEF RunStep
<1>2. \A q \in Port : Spanning(Owner[q])' <=> Spanning(Owner[q])
  BY ControlMoves, OwnerType DEF Spanning, RunStep
<1>3. ASSUME NEW q \in Port, Spanning(Owner[q])'
      PROVE  BlockOK(q) \/ \E u \in Tree : pend[u][q] # "none" \/ fsm[u][q].pst = "UNKNOWN"
  BY <1>2, <1>3 DEF BlockInv
<1>4. CASE InformDBStep(p)
  BY <1>4, InformDBKeepsBlockInv
<1>5. CASE Head(stk).sm = "PST" /\ ~InformDBStep(p)
  <2>1. PstSm(t, p)
    BY <1>1, <1>5 DEF Runs, TickSteps, PimSteps, BeginDone, EnablePort, PendingTx, Running
  <2>2. CASE PstReturn(t, p)
    BY <1>3, <2>2 DEF PstReturn, treeVars, dbVars, BlockInv, BlockOK
  <2>3. ASSUME NEW s, NEW set, NEW clr, NEW change, PstMoves(t, p, s, set, clr),
               Queue(t, p, change), change # "none"
        PROVE  BlockInv'
    <3>1. pend \in [Tree -> [Port -> {"none", "Blk", "Lrn", "Fwd"}]]
      BY DEF TypeOK, DbTypes
    <3>2. /\ pend'[t][p] = change /\ UNCHANGED <<db, blockAll>>
          /\ \A u \in Tree, q \in Port : ~(u = t /\ q = p) => pend'[u][q] = pend[u][q]
      BY <2>3, <3>1 DEF Queue
    <3>3. \A u \in Tree, q \in Port : ~(u = t /\ q = p) => fsm'[u][q].pst = fsm[u][q].pst
      BY <2>3, PstSet DEF SameState
    <3>4. ASSUME NEW q \in Port, q # p, Spanning(Owner[q])'
          PROVE  BlockOK(q)' \/ \E u \in Tree : pend'[u][q] # "none" \/ fsm'[u][q].pst = "UNKNOWN"
      BY <1>3, <3>2, <3>3, <3>4 DEF BlockOK
    <3> QED
      BY <2>3, <3>2, <3>4 DEF BlockInv
  <2> QED
    BY <2>1, <2>2, <2>3 DEF PstSm, PstDiscarding, PstLearning, PstForwarding
<1>6. CASE Head(stk).sm # "PST" /\ ~InformDBStep(p)
  <2>1. UNCHANGED <<pend, db, blockAll>> /\ \A u \in Tree, q \in Port : fsm'[u][q].pst = fsm[u][q].pst
    BY <1>1, <1>6, OthersKeepDb
  <2> QED
    BY <1>3, <2>1 DEF BlockInv, BlockOK
<1> QED
  BY <1>4, <1>5, <1>6

LEMMA EventKeepsBlockInv ==
  ASSUME TypeOK, PstInv, DbInv, BlockInv, Event
  PROVE  BlockInv'
<1>1. ctl \in [Bridge -> Control] /\ \A q \in Port : Owner[q] \in Bridge
  BY OwnerType DEF TypeOK, BridgeTypes
<1>2. blockAll \in [Port -> BOOLEAN] /\ db \in [Tree -> [Port -> {"Blocking", "Learning", "Forwarding"}]]
  BY DEF TypeOK, DbTypes
<1>3. ASSUME NEW q \in Port, Spanning(Owner[q])', Spanning(Owner[q]),
             blockAll'[q] = blockAll[q],
             \A u \in Tree : /\ pend'[u][q] = pend[u][q] /\ db'[u][q] = db[u][q]
                             /\ fsm'[u][q].pst = fsm[u][q].pst
      PROVE  BlockOK(q)' \/ \E u \in Tree : pend'[u][q] # "none" \/ fsm'[u][q].pst = "UNKNOWN"
  BY <1>3 DEF BlockInv, BlockOK
<1>4. ASSUME NEW b \in Bridge, Enable(b)
      PROVE  BlockInv'
  <2>1. /\ ctl' = [ctl EXCEPT ![b] = [spanning |-> TRUE, begin |-> TRUE, preventTx |-> FALSE]]
        /\ UNCHANGED <<fsm, pend, db, blockAll>>
    BY <1>4 DEF Enable, treeVars, dbVars
  <2>2. ASSUME NEW q \in Port, Owner[q] = b
        PROVE  \E u \in Tree : fsm'[u][q].pst = "UNKNOWN"
    <3>0. CIST \in Tree
      BY DEF Tree
    <3>1. fsm[CIST][q].pst = "UNKNOWN"
      BY <1>4, <2>2, <3>0 DEF PstInv, PortState, Enable
    <3> QED
      BY <2>1, <3>0, <3>1
  <2>3. ASSUME NEW q \in Port, Owner[q] # b, Spanning(Owner[q])'
        PROVE  Spanning(Owner[q])
    BY <1>1, <2>1, <2>3 DEF Spanning
  <2> QED
    BY <1>3, <2>1, <2>2, <2>3 DEF BlockInv
<1>5. ASSUME NEW b \in Bridge, Disable(b) \/ Reconfigure(b)
      PROVE  BlockInv'
  <2>1. /\ pend' = Renew(pend, b, LAMBDA t, p : "none")
        /\ fsm' = Renew(fsm, b, LAMBDA t, p : FreshFsm)
        /\ ctl' = [ctl EXCEPT ![b].spanning = FALSE]
        /\ db' = db \/ db' = Renew(db, b, LAMBDA t, p : "Forwarding")
        /\ blockAll' = blockAll
    BY <1>5 DEF Disable, Reconfigure, ClearProtocolData
  <2>2. ASSUME NEW q \in Port, Spanning(Owner[q])'
        PROVE  Owner[q] # b /\ Spanning(Owner[q])
    BY <1>1, <2>1, <2>2 DEF Spanning, Control
  <2>3. ASSUME NEW q \in Port, Owner[q] # b, NEW u \in Tree
        PROVE  pend'[u][q] = pend[u][q] /\ db'[u][q] = db[u][q] /\ fsm'[u][q] = fsm[u][q]
    BY <2>1, <2>3 DEF Renew
  <2> QED
    BY <1>3, <2>1, <2>2, <2>3 DEF BlockInv
<1>6. CASE \/ \E b \in Bridge : Tick(b)
           \/ \E p \in Port : LinkUp(p) \/ LinkDown(p) \/ Receive(p) \/ ReceiveForeign(p) \/ Lose(p)
  <2>1. UNCHANGED <<fsm, pend>>
    BY <1>6 DEF Tick, LinkUp, LinkDown, Receive, ReceiveForeign, Deliver, Lose, treeVars, dbVars
  <2>2. \/ ctl' = ctl
        \/ \E p \in Port : ctl' = [ctl EXCEPT ![Owner[p]].preventTx = TRUE]
    BY <1>6 DEF Tick, LinkUp, LinkDown, Receive, ReceiveForeign, Deliver, Lose, bridgeVars
  <2>3. \A c \in Bridge : ctl'[c].spanning = ctl[c].spanning
    <3>1. ASSUME NEW p \in Port, ctl' = [ctl EXCEPT ![Owner[p]].preventTx = TRUE], NEW c \in Bridge
          PROVE  ctl'[c].spanning = ctl[c].spanning
      BY <1>1, <3>1 DEF Control
    <3> QED
      BY <2>2, <3>1
  <2>4. \/ UNCHANGED <<db, blockAll>>
        \/ \E p \in Port, v \in BOOLEAN :
             /\ ~Spanning(Owner[p])
             /\ blockAll' = [blockAll EXCEPT ![p] = v]
             /\ db' = db \/ db' = [t \in Tree |-> [db[t] EXCEPT ![p] = "Forwarding"]]
    <3>1. CASE \/ \E b \in Bridge : Tick(b)
               \/ \E p \in Port : Receive(p) \/ ReceiveForeign(p) \/ Lose(p)
      BY <3>1 DEF Tick, Receive, ReceiveForeign, Deliver, Lose, dbVars
    <3>2. ASSUME NEW p \in Port, LinkUp(p)
          PROVE  \/ UNCHANGED <<db, blockAll>>
                 \/ /\ ~Spanning(Owner[p]) /\ blockAll' = [blockAll EXCEPT ![p] = FALSE]
                    /\ db' = [t \in Tree |-> [db[t] EXCEPT ![p] = "Forwarding"]]
      BY <3>2 DEF LinkUp, NoStpLinkUp
    <3>3. ASSUME NEW p \in Port, LinkDown(p)
          PROVE  \/ UNCHANGED <<db, blockAll>>
                 \/ ~Spanning(Owner[p]) /\ blockAll' = [blockAll EXCEPT ![p] = TRUE] /\ db' = db
      BY <3>3 DEF LinkDown
    <3> QED
      BY <1>6, <3>1, <3>2, <3>3
  <2>5. ASSUME NEW q \in Port, Spanning(Owner[q])
        PROVE  blockAll'[q] = blockAll[q] /\ \A u \in Tree : db'[u][q] = db[u][q]
    BY <1>2, <2>4, <2>5
  <2> QED
    BY <1>1, <1>3, <2>1, <2>3, <2>5 DEF BlockInv, Spanning
<1> QED
  BY <1>4, <1>5, <1>6 DEF Event

LEMMA InitBlockInv == Init => BlockInv
BY OwnerType DEF Init, BlockInv, Spanning

LEMMA StepKeepsBlockInv ==
  TypeOK /\ ChangesQueued /\ PstInv /\ DbInv /\ BlockInv /\ [Next]_vars => BlockInv'
<1> SUFFICES ASSUME TypeOK, ChangesQueued, PstInv, DbInv, BlockInv, [Next]_vars PROVE BlockInv'
  OBVIOUS
<1>1. CASE UNCHANGED vars
  BY <1>1 DEF vars, treeVars, bridgeVars, dbVars, BlockInv, BlockOK, Spanning
<1> QED
  BY <1>1, RunStepKeepsBlockInv, EventKeepsBlockInv DEF Next

\* Between events block_all_mstp of a port is not set while it forwards on every
\* tree nor clear while it is blocked on every one, for any number of trees and
\* whatever order their messages are in: the last message to write the key
\* (mstp_informDBOnPortStateChange) is of a tree that then agrees with it.
THEOREM BlockAllHolds == Spec => []BlockAllAgrees
<1>1. ASSUME TypeOK, PstInv, DbInv, BlockInv, NEW p \in Port, Idle(p)
      PROVE  BlockOK(p)
  <2>1. \A t \in Tree : pend[t][p] = "none" /\ fsm[t][p].pst # "UNKNOWN"
    BY <1>1, RestsPublished
  <2> QED
    BY <1>1, <2>1 DEF BlockInv, Idle
<1>2. TypeOK /\ PstInv /\ DbInv /\ BlockInv => BlockAllAgrees
  BY <1>1 DEF BlockAllAgrees, BlockOK
<1>3. Spec => []BlockInv
  BY InitBlockInv, StepKeepsBlockInv, TypesHold, ChangesAlwaysQueued, PstInvHolds, DbInvHolds,
     PTL DEF Spec
<1> QED
  BY <1>2, <1>3, TypesHold, PstInvHolds, DbInvHolds, PTL
=============================================================================
