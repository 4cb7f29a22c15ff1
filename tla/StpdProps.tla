------------------------------ MODULE StpdProps ------------------------------
(* What the daemon is for, and what its machines must never do.  Most of    *)
(* it is about the moments between two events, when stk is empty: there is  *)
(* no scheduler that would come back to a machine nobody called.            *)
EXTENDS Stpd

Idle(p) == stk = <<>> /\ Spanning(Owner[p])

-----------------------------------------------------------------------------
(* Types *)

PortMachines == [ppm : PpmState, bdm : BdmState, prx : PrxState, ptx : PtxState, pti : PtiState]
PortTimers == [mdelayWhile : Nat, helloWhen : Nat, edgeDelayWhile : Nat, txCount : 0..TxHoldCount]
TreeMachines == [pim : PimState, prt : PrtState, pst : PstState, tcm : TcmState]
TreeTimers == [fdWhile : Nat, rrWhile : Nat, rbWhile : Nat, tcWhile : Nat, rcvdInfoWhile : Nat]
PortInfo == [infoIs : InfoIs, rcvdInfo : RcvdInfo, role : Role, selectedRole : Role]
PortVectors == [portPri : Vector, dsnPri : Vector, msgPri : Vector,
                portTimes : Times, dsnTimes : Times, msgTimes : Times]
RootRecord == [port : Port \cup {NoPort}, pri : Vector, times : Times]
Control == [spanning : BOOLEAN, begin : BOOLEAN, preventTx : BOOLEAN]

PortTypes ==
  /\ cbits \in [Port -> SUBSET CommBit]
  /\ csm \in [Port -> PortMachines]
  /\ ctmr \in [Port -> PortTimers]

TreeTypes ==
  /\ bits \in [Tree -> [Port -> SUBSET TreeBit]]
  /\ fsm \in [Tree -> [Port -> TreeMachines]]
  /\ tmr \in [Tree -> [Port -> TreeTimers]]
  /\ info \in [Tree -> [Port -> PortInfo]]
  /\ vec \in [Tree -> [Port -> PortVectors]]

BridgeTypes ==
  /\ root \in [Tree -> [Bridge -> RootRecord]]
  /\ prs \in [Tree -> [Bridge -> PrsState]]
  /\ ctl \in [Bridge -> Control]

DbTypes ==
  /\ pend \in [Tree -> [Port -> {"none", "Blk", "Lrn", "Fwd"}]]
  /\ flushReq \in [Tree -> [Port -> BOOLEAN]]
  /\ treeQ \in [Bridge -> Seq(Tree)]
  /\ db \in [Tree -> [Port -> {"Blocking", "Learning", "Forwarding"}]]
  /\ blockAll \in [Port -> BOOLEAN]

NetTypes ==
  /\ rx \in Bpdu
  /\ wire \in [Port -> Seq(Bpdu)]
  /\ up \in [Port -> BOOLEAN]
  /\ due \in SUBSET Bridge
  /\ left \in [EventKind -> Nat]

\* Every variable but the stack has its type: no timer is counted below zero,
\* txCount never exceeds the transmit hold count (mstp_ptxSm), and no role,
\* state or vector component is ever left undefined by a handler.
TypeOK == PortTypes /\ TreeTypes /\ BridgeTypes /\ DbTypes /\ NetTypes

-----------------------------------------------------------------------------
(* The network.                                                            *)

DbName == [DISCARDING |-> "Blocking", LEARNING |-> "Learning", FORWARDING |-> "Forwarding"]

\* p passes frames of tree t on, as the switch was told
Passes(t, p) == up[p] /\ db[t][p] = "Forwarding" /\ Spanning(Owner[p])

\* a set of ports a frame can circulate on: over a link, then through a bridge
Loops(t) ==
  \E S \in SUBSET {p \in Port : Passes(t, p)} :
    S # {} /\ \A p \in S : Peer[p] \in S /\ \E q \in S \ {p} : Owner[q] = Owner[p]

\* No tree has a forwarding loop: whatever the order in which bridges start,
\* change their minds and hear of it, the states the daemons have given their
\* switches (port_state) never let a frame circulate.
NoLoop == stk = <<>> => \A t \in Tree : ~Loops(t)

Live(p) == up[p] /\ Peer[p] # NoPort /\ up[Peer[p]]
Boundary(p) == Region[Owner[p]] # Region[Owner[Peer[p]]]

\* both ends of a link hold the same view of the tree; one of them serves it
LinkSettled(t, p) ==
  LET q == Peer[p]
      mine == info[t][p].role
      views == IF Boundary(p) THEN {"root"} ELSE {"root", "rgn"}
  IN  /\ (mine = "DESIGNATED") # (info[t][q].role = "DESIGNATED")
      /\ \A x \in views : root[CIST][Owner[p]].pri[x] = root[CIST][Owner[q]].pri[x]
      /\ t # CIST =>
           IF Boundary(p)
           THEN mine = IF info[CIST][p].role = "ROOT" THEN "MASTER" ELSE info[CIST][p].role
           ELSE root[t][Owner[p]].pri.rgn = root[t][Owner[q]].pri.rgn

PortSettled(t, p) ==
  LET mine == info[t][p].role
  IN  IF Peer[p] = p THEN mine # "ROOT" /\ db[t][p] = "Blocking"
      ELSE /\ db[t][p] = IF mine \in ActiveRole THEN "Forwarding" ELSE "Blocking"
           /\ IF Live(p) THEN LinkSettled(t, p)
              ELSE mine = IF up[p] THEN "DESIGNATED" ELSE "DISABLED"

BridgeSettled(t, b) ==
  LET r == root[t][b]
      own == IF t = CIST THEN r.pri.root ELSE r.pri.rgn
  IN  /\ {p \in PortsOf(b) : info[t][p].role = "ROOT"} = IF r.port = NoPort THEN {} ELSE {r.port}
      /\ (r.port = NoPort) = (own = BridgeId(t, b))

SettledTree ==
  \A t \in Tree : /\ \A p \in Port : PortSettled(t, p)
                  /\ \A b \in Bridge : BridgeSettled(t, b)

\* If from some time on every bridge runs the protocol, then from some time on
\* the trees are those the protocol is for: both ends of every link agree on
\* the root, one of them is Designated, a Root port exists exactly on a bridge
\* that is not the root, a port at a region's boundary has the same role in
\* every MSTI, and the database has what the roles say.
Converges == <>[](\A b \in Bridge : Spanning(b)) => <>[]SettledTree

-----------------------------------------------------------------------------
(* One bridge between two events.                                          *)

\* No request for a selection is left on a bridge that runs the protocol:
\* mstp_updtRolesTree has answered for every tree, mstp_prsSm is in
\* ROLE_SELECTION and every port, enabled or not, has its role selected.  Port
\* Information asks on behalf of any port, in the midst of other machines' calls.
RolesSelected ==
  \A t \in Tree, p \in Port :
    Idle(p) => /\ prs[t][Owner[p]] = "ROLE_SELECTION"
               /\ On(t, p, "selected") /\ ~On(t, p, "reselect")

RoleTaken(t, p) ==
  /\ info[t][p].role = info[t][p].selectedRole
  /\ bits[t][p] \cap {"updtInfo", "rcvdMsg"} = {}

\* loop guard does not let the information of a starved port age
TreeMachinesRest(t, p) ==
  /\ PimGeneral(t, p) = Stay
  /\ PimCond(t, p) = Stay \/ On(t, p, "loopInconsistent")
  /\ PstCond(t, p) = Stay
  /\ TcmCond(t, p) = Stay
  /\ PrtGeneral(t, p) = Stay
  /\ PrtCond(t, p) \notin {"DESIGNATED_DISCARD", "MASTER_DISCARD"}

PortMachinesRest(p) ==
  /\ ~Comm(p, "rcvdBPDU") /\ ~ctl[Owner[p]].preventTx
  /\ BdmCond(p) = Stay
  /\ PpmCond(p) = Stay

\* When the thread takes the next event, nothing is left to do: the role last
\* selected for a port is the one it has, no message and no selection is
\* pending, and no machine is in a state it would leave if it were called.
\* (A port whose link is down keeps some machines waiting for the link; Port
\* Role Transitions may still owe a handshake, but, among neighbours that send
\* MST BPDUs of one region, no return to discarding; Port Transmit may wait for
\* the next hello, see NewInfoSent.)  In particular a port whose link went down
\* has been blocked on every tree.
MachinesAtRest ==
  /\ RolesSelected
  /\ \A p \in Port :
       Idle(p) => /\ \A t \in Tree : RoleTaken(t, p) /\ TreeMachinesRest(t, p)
                  /\ Comm(p, "portEnabled") => PortMachinesRest(p)
                  /\ ~up[p] => \A t \in Tree : db[t][p] = "Blocking"

\* Between events the database has the state of every port on every tree: no
\* change is left in a message, however often a state changed in one handler.
Published ==
  \A t \in Tree, p \in Port :
    Idle(p) => pend[t][p] = "none" /\ db[t][p] = DbName[fsm[t][p].pst]

\* Only a port whose role on a tree carries traffic passes any there: whatever
\* role was selected meanwhile, the switch blocks it before it has another role.
OnlyActivePasses ==
  \A t \in Tree, p \in Port :
    Idle(p) /\ db[t][p] # "Blocking" => info[t][p].role \in ActiveRole

\* The one block_all_mstp key of a port, which the messages of all trees write
\* in turn, agrees with the trees whenever they agree with one another: it is not
\* set on a port that forwards on all, nor clear on one that is blocked on all.
BlockAllAgrees ==
  \A p \in Port : Idle(p) /\ Spanning(Owner[p]) =>
    \E t \in Tree : db[t][p] # (IF blockAll[p] THEN "Forwarding" ELSE "Blocking")

\* Every state change and every flush waits in a message that is in the queue:
\* none is recorded that mstp_informDBOnPortStateChange would not find.
ChangesQueued ==
  \A t \in Tree, p \in Port :
    pend[t][p] # "none" \/ flushReq[t][p] => t \in {treeQ[Owner[p]][i] : i \in DOMAIN treeQ[Owner[p]]}

\* The CIST root and roles a bridge acts on are those a new selection would
\* find: every event that changes an input of mstp_updtRolesTree runs it again.
\* (Among neighbours that send MST BPDUs: see the README for what a TCN does.)
SelectionCurrent ==
  \A b \in Bridge :
    stk = <<>> /\ Spanning(b) =>
      /\ root[CIST][b] = NewRoot(CIST, b)
      /\ \A p \in PortsOf(b) :
           RoleFor(CIST, p, root[CIST][b]) \in {"UNKNOWN", info[CIST][p].selectedRole}

\* Information from a neighbour is held only while its timer runs, or by loop
\* guard on a port that is blocked meanwhile (mstpd_pti_sm.c:476), and never on an
\* edge port or one whose link is down.
HeldInfoIsAlive ==
  \A t \in Tree, p \in Port :
    Idle(p) /\ info[t][p].infoIs = "RECEIVED" =>
      /\ \/ tmr[t][p].rcvdInfoWhile > 0
         \/ On(t, p, "loopInconsistent") /\ db[t][p] = "Blocking"
      /\ ~Comm(p, "operEdge") /\ up[p]

\* A Root Port agrees to a proposal only when no other port of the bridge could
\* pass traffic on unsynchronised: all that forward are edge ports or synced.
AgreementIsSafe ==
  [][\A t \in Tree, p \in Port :
       /\ info[t][p].role = "ROOT" /\ Comm(p, "portEnabled")
       /\ ~On(t, p, "agree") /\ "agree" \in bits'[t][p]
       => \A q \in Siblings(p) :
            On(t, q, "forwarding") => Comm(q, "operEdge") \/ On(t, q, "synced")]_vars

\* A port that hears its own BPDUs never forwards, hold time after hold time.
EchoBlocked ==
  \A t \in Tree, p \in Port : Idle(p) /\ Peer[p] = p => db[t][p] # "Forwarding"

\* No handler runs for ever: the machines that call one another come to rest.
HandlersEnd == []<>(stk = <<>>)

\* The hello time a port works with is one the transmit machine can wait for,
\* whatever BPDUs carry (mstp_recordTimes): with 0, TRANSMIT_PERIODIC and IDLE
\* would call for one another without end, and what is heard would age at once.
HelloInRange == \A p \in Port : vec[CIST][p].portTimes.hello \in 1..HelloMaxSec

\* A bridge whose neighbours fall silent forgets them and is its own root.
SilenceForgotten ==
  <>[](\A b \in Bridge : Spanning(b))
    => <>[](\A t \in Tree, p \in Port : info[t][p].infoIs # "RECEIVED")

\* A topology change that one port detects flushes every other active port.
ChangeSpreads ==
  \A t \in Tree, p \in Port : \A q \in Siblings(p) :
    /\ fsm[t][p].tcm = "DETECTED" /\ ~Cfg(p, "restrictedTcn")
    /\ fsm[t][q].tcm = "ACTIVE"
    ~> flushReq[t][q]

\* What a port has to say it says, at its next hello at the latest.
NewInfoSent ==
  \A p \in Port :
    LET waits == /\ Comm(p, "newInfo") \/ Comm(p, "newInfoMsti")
                 /\ Comm(p, "portEnabled") /\ Comm(p, "sendRSTP") /\ ~Cfg(p, "bpduFilter")
    IN  waits ~> ~waits

\* The acknowledgement a Designated port owes for a TCN is sent, once: tcAck
\* does not stay set for ever.
AckSent == \A p \in Port : Comm(p, "tcAck") ~> ~Comm(p, "tcAck")

-----------------------------------------------------------------------------
(* What comments and help texts say and the program does not do.           *)

\* mstpd_pim_sm.c:1766: "A Master Port provides connectivity from a Region to a
\* CIST Root that lies outside the Region. ... if the CIST Port Role is
\* Designated Port, ... each MSTI's Port Role will be the same".
MasterFollowsCist ==
  \A t \in Msti, p \in Port :
    Idle(p) /\ info[t][p].role = "MASTER" => info[CIST][p].role = "ROOT"

\* mstp_vty.h:50, of loop guard: "Set port to guard against the loop and
\* consequently to prevent it from becoming forwarding port".  A port that it has
\* caught without BPDUs (mstpd_pti_sm.c:462) does not forward until it hears one.
LoopGuardBlocks ==
  \A t \in Tree, p \in Port :
    Idle(p) /\ On(t, p, "loopInconsistent") => db[t][p] # "Forwarding"
=============================================================================
