------------------------------ MODULE MstpBase ------------------------------
(***************************************************************************)
(* State of the ops-stpd spanning tree engine and the calling discipline   *)
(* of its state machines.                                                  *)
(*                                                                         *)
(* One protocol thread per bridge takes an event (a BPDU, a timer tick, a  *)
(* link change) from its queue and runs it to completion.  The 802.1Q      *)
(* state machines are C functions (mstp_pimSm, mstp_prtSm, ...) that share *)
(* the port records and call one another, recursively, from inside their   *)
(* state actions.  stk is that C call stack: its head is the function that *)
(* is running.  A handler touches nothing of another bridge except that it *)
(* appends to the wires it transmits on, so handlers of different bridges  *)
(* commute and one stack serves them all: an event starts only when stk is *)
(* empty.                                                                  *)
(*                                                                         *)
(* The bitMap words of the source are sets of flag names, as in the source *)
(* one per port (cbits) and one per tree and port (bits).  Tree 0 is the   *)
(* CIST.                                                                   *)
(***************************************************************************)
EXTENDS Integers, Sequences

CONSTANTS
  Bridge,      \* the bridges of the network
  MstiSeq,     \* the MST instances every bridge runs, in ascending order
  Port,        \* the logical ports of all bridges, numbered
  Owner,       \* Owner[p]: the bridge of port p
  LPorts,      \* LPorts[b]: the ports of b in lport order
  BridgePri,   \* BridgePri[t][b]: bridge priority of b on tree t
  Mac,         \* Mac[b]: bridge MAC address, a small number
  PortPri,     \* PortPri[p]: port priority
  ExtCost,     \* ExtCost[p]: ExternalPortPathCost
  IntCost,     \* IntCost[t][p]: InternalPortPathCost
  Region,      \* Region[b]: MST configuration identifier
  PortCfg,     \* PortCfg[p]: the configuration flags set on p
  HelloTime, FwdDelay, MaxAge, MaxHops,   \* bridge times
  HoldTime,    \* hold times rand() may draw for a looped back BPDU
  Peer,        \* Peer[p]: the port at the other end of p's link, 0 if none
  EnvBpdu,     \* EnvBpdu[p]: BPDUs a foreign neighbour of p may send
  WireCap,     \* bound: frames queued for a port
  Budget       \* Budget[k]: bound on the events of kind k, if it is < NoBound

CIST == 0
Msti == {MstiSeq[i] : i \in 1..Len(MstiSeq)}
Tree == {CIST} \cup Msti
NoPort == 0

MigrateTime == 3     \* MSTP_MIGRATE_TIME_SEC
TxHoldCount == 6     \* MSTP_TX_HOLD_COUNT
HelloMaxSec == 10    \* MSTP_HELLO_MAX_SEC
RST == 2             \* MSTP_PROTOCOL_VERSION_ID_RST
ForceVersion == 3    \* mstp_Bridge.ForceVersion, set once by the thread

CfgFlag == {"adminEdge", "autoEdge", "pointToPoint", "restrictedRole",
            "restrictedTcn", "loopGuard", "bpduFilter"}

-----------------------------------------------------------------------------
(***************************************************************************)
(* Identifiers and priority vectors.  A bridge identifier is its priority  *)
(* followed by its MAC address, compared as one number; a port identifier  *)
(* is the port priority followed by the port number.  An MSTI vector has   *)
(* no root and no external cost: those components are 0.                   *)
(***************************************************************************)
MacSpace == 256
PortSpace == 4096

BridgeId(t, b) == BridgePri[t][b] * MacSpace + Mac[b]
MacOf(id) == id % MacSpace
PortId(p) == PortPri[p] * PortSpace + p
PortNum(id) == id % PortSpace

Vector == [root : Nat, ext : Nat, rgn : Nat, int : Nat, dsn : Nat, port : Nat]

\* mstp_cistPriorityVectorsCompare(v, w) < 0, and its MSTI twin
Better(v, w) ==
  \/ v.root < w.root
  \/ v.root = w.root /\ v.ext < w.ext
  \/ v.root = w.root /\ v.ext = w.ext /\ v.rgn < w.rgn
  \/ v.root = w.root /\ v.ext = w.ext /\ v.rgn = w.rgn /\ v.int < w.int
  \/ /\ v.root = w.root /\ v.ext = w.ext /\ v.rgn = w.rgn /\ v.int = w.int
     /\ v.dsn < w.dsn
  \/ /\ v.root = w.root /\ v.ext = w.ext /\ v.rgn = w.rgn /\ v.int = w.int
     /\ v.dsn = w.dsn /\ v.port < w.port

\* {B : 0 : B : 0 : B : 0}
BridgePriority(t, b) ==
  [root |-> IF t = CIST THEN BridgeId(t, b) ELSE 0, ext |-> 0,
   rgn |-> BridgeId(t, b), int |-> 0, dsn |-> BridgeId(t, b), port |-> 0]

Times == [age : Nat, maxAge : Nat, fwd : Nat, hello : Nat, hops : Nat]

NoTimes == [age |-> 0, maxAge |-> 0, fwd |-> 0, hello |-> 0, hops |-> 0]

BridgeTimes(t) ==
  IF t = CIST
  THEN [age |-> 0, maxAge |-> MaxAge, fwd |-> FwdDelay, hello |-> 0,
        hops |-> MaxHops]
  ELSE [NoTimes EXCEPT !.hops = MaxHops]

(***************************************************************************)
(* A BPDU as the four encodings carry it.  pri, times, role and flags are  *)
(* given per tree; only the CIST and the MSTIs in "trees" are present (an  *)
(* MST BPDU has one configuration message per MSTI whose role is known and *)
(* not Disabled).  A CFG or RST BPDU has the bridge identifier where an    *)
(* MST BPDU has the regional root, and no dsn.  src is the port whose MAC  *)
(* address is the frame's source address.                                  *)
(***************************************************************************)
BpduType == {"MST", "RST", "CFG", "TCN"}
BpduRole == {"MASTER", "ALTERNATE_OR_BACKUP", "ROOT", "DESIGNATED"}
BpduFlag == {"tc", "tcAck", "proposal", "agreement", "learning", "forwarding"}

Bpdu == [type : BpduType, src : Nat, region : Nat, trees : SUBSET Tree,
         pri : [Tree -> Vector], times : [Tree -> Times],
         role : [Tree -> BpduRole], flags : [Tree -> SUBSET BpduFlag]]

\* what happens around the state machines
EventKind == {"tick", "link", "env", "lose", "admin"}
NoBound == 1000

ASSUME ConstantsAssumption ==
  /\ Port \subseteq Nat \ {0}
  /\ MstiSeq \in Seq(Nat \ {0})
  /\ Owner \in [Port -> Bridge]
  /\ LPorts \in [Bridge -> Seq(Port) \ {<<>>}]
  /\ \A b \in Bridge : {LPorts[b][i] : i \in 1..Len(LPorts[b])}
                         = {p \in Port : Owner[p] = b}
  /\ BridgePri \in [Tree -> [Bridge -> Nat]]
  /\ Mac \in [Bridge -> Nat]
  /\ PortPri \in [Port -> Nat]
  /\ ExtCost \in [Port -> Nat] /\ IntCost \in [Tree -> [Port -> Nat]]
  /\ Region \in [Bridge -> Nat]
  /\ PortCfg \in [Port -> SUBSET CfgFlag]
  /\ HelloTime \in 1..HelloMaxSec
  /\ FwdDelay \in Nat \ {0} /\ MaxAge \in Nat \ {0} /\ MaxHops \in Nat \ {0}
  /\ HoldTime \subseteq HelloMaxSec..3 * HelloMaxSec /\ HoldTime # {}
  /\ Peer \in [Port -> Port \cup {NoPort}]
  /\ EnvBpdu \in [Port -> SUBSET Bpdu]
  /\ WireCap \in Nat /\ Budget \in [EventKind -> Nat]

-----------------------------------------------------------------------------
Role == {"UNKNOWN", "ROOT", "DESIGNATED", "ALTERNATE", "BACKUP", "MASTER",
         "DISABLED"}
InfoIs == {"UNKNOWN", "DISABLED", "RECEIVED", "MINE", "AGED"}
RcvdInfo == {"UNKNOWN", "SUPERIOR_DESIGNATED", "REPEATED_DESIGNATED",
             "INFERIOR_DESIGNATED", "INFERIOR_ROOT_ALTERNATE", "OTHER"}

CommBit == {"portEnabled", "operEdge", "mcheck", "sendRSTP", "rcvdBPDU",
            "rcvdRSTP", "rcvdSTP", "newInfo", "newInfoMsti", "tcAck",
            "rcvdTcn", "rcvdTcAck", "rcvdInternal", "infoInternal", "tick",
            "rcvdSelfSentPkt"}
TreeBit == {"learn", "forward", "learning", "forwarding", "proposed",
            "proposing", "agree", "agreed", "sync", "synced", "reRoot",
            "reselect", "selected", "updtInfo", "disputed", "rcvdMsg",
            "rcvdTc", "tcProp", "loopInconsistent"}

PpmState == {"UNKNOWN", "CHECKING_RSTP", "SELECTING_STP", "SENSING"}
BdmState == {"UNKNOWN", "EDGE", "NOT_EDGE"}
PrxState == {"UNKNOWN", "DISCARD", "RECEIVE"}
PtxState == {"UNKNOWN", "TRANSMIT_INIT", "IDLE", "TRANSMIT_PERIODIC",
             "TRANSMIT_CONFIG", "TRANSMIT_TCN", "TRANSMIT_RSTP"}
PtiState == {"UNKNOWN", "ONE_SECOND", "TICK"}
PrsState == {"UNKNOWN", "INIT_TREE", "ROLE_SELECTION"}
PstState == {"UNKNOWN", "DISCARDING", "LEARNING", "FORWARDING"}
TcmState == {"UNKNOWN", "INACTIVE", "LEARNING", "DETECTED", "ACTIVE",
             "NOTIFIED_TCN", "NOTIFIED_TC", "PROPAGATING", "ACKNOWLEDGED"}
PimState == {"UNKNOWN", "DISABLED", "AGED", "UPDATE", "CURRENT", "RECEIVE",
             "SUPERIOR_DESIGNATED", "REPEATED_DESIGNATED",
             "INFERIOR_DESIGNATED", "NOT_DESIGNATED", "OTHER"}
PrtState == {"UNKNOWN", "INIT_PORT", "DISABLE_PORT", "DISABLED_PORT",
             "MASTER_PORT", "MASTER_PROPOSED", "MASTER_AGREED",
             "MASTER_SYNCED", "MASTER_RETIRED", "MASTER_FORWARD",
             "MASTER_LEARN", "MASTER_DISCARD",
             "ROOT_PORT", "ROOT_PROPOSED", "ROOT_AGREED", "ROOT_SYNCED",
             "REROOT", "ROOT_FORWARD", "ROOT_LEARN", "REROOTED",
             "DESIGNATED_PORT", "DESIGNATED_PROPOSE", "DESIGNATED_AGREED",
             "DESIGNATED_SYNCED", "DESIGNATED_RETIRED", "DESIGNATED_FORWARD",
             "DESIGNATED_LEARN", "DESIGNATED_DISCARD",
             "BLOCK_PORT", "ALTERNATE_PROPOSED", "ALTERNATE_AGREED",
             "ALTERNATE_PORT", "BACKUP_PORT"}

-----------------------------------------------------------------------------
VARIABLES
  cbits,     \* cbits[p]: commPortPtr->bitMap and the port's booleans
  csm,       \* csm[p]: states of the per-port machines
  ctmr,      \* ctmr[p]: per-port timers and the transmit counter
  bits,      \* bits[t][p]: cistPortPtr/mstiPortPtr->bitMap
  fsm,       \* fsm[t][p]: states of the per-tree, per-port machines
  tmr,       \* tmr[t][p]: per-tree, per-port timers
  info,      \* info[t][p]: infoIs, rcvdInfo, role and selectedRole
  vec,       \* vec[t][p]: port, message and designated priority and times
  root,      \* root[t][b]: root priority, times and port of the bridge
  prs,       \* prs[t][b]: state of the Port Role Selection machine
  ctl,       \* ctl[b]: Spanning, BEGIN and preventTx
  stk,       \* the C call stack of the handler that is running
  rx,        \* the BPDU the running handler was given
  pend,      \* pend[t][p]: state change queued for the database
  flushReq,  \* flushReq[t][p]: address flush queued for the database
  treeQ,     \* treeQ[b]: MSTP_TREE_MSGS_QUEUE, the trees with a message
  db,        \* db[t][p]: port_state column
  blockAll,  \* blockAll[p]: block_all_mstp in the port's hw_config
  wire,      \* wire[p]: frames on their way to p, or queued for its thread
  up,        \* up[p]: the link of p is up
  due,       \* the bridges whose clock has yet to tick in this second
  left       \* events that may still happen, by kind

commVars == <<cbits, csm, ctmr>>
treeVars == <<bits, fsm, tmr, info, vec>>
bridgeVars == <<root, prs, ctl>>
dbVars == <<pend, flushReq, treeQ, db, blockAll>>
envVars == <<wire, up, due, left>>
vars == <<commVars, treeVars, bridgeVars, stk, rx, dbVars, envVars>>

-----------------------------------------------------------------------------
(***************************************************************************)
(* The call stack.  A frame is a running call: the machine (or the rest of *)
(* a function whose nested call has to return first), its tree and port,   *)
(* whether the do-while loop was entered (loop), whether it was given a    *)
(* packet, and a local it saved.                                           *)
(***************************************************************************)
Call(s, t, p) == [sm |-> s, t |-> t, p |-> p, loop |-> FALSE, pkt |-> FALSE,
                  v |-> 0]
CallPkt(s, t, p) == [Call(s, t, p) EXCEPT !.pkt = TRUE]
Rest(s, t, p, saved) == [Call(s, t, p) EXCEPT !.v = saved]

\* the calls of machine s for every MSTI of port p, in ascending order
MstiCalls(s, p) == [i \in 1..Len(MstiSeq) |-> Call(s, MstiSeq[i], p)]
TreeCalls(s, p) == <<Call(s, CIST, p)>> \o MstiCalls(s, p)

\* the sequences ss[1], ss[2], ... one after the other
Join(ss) ==
  LET join[i \in 0..Len(ss)] == IF i = 0 THEN <<>> ELSE join[i - 1] \o ss[i]
  IN  join[Len(ss)]

\* the elements of seq that are in S, in their order
Only(seq, S) == Join([i \in DOMAIN seq |-> IF seq[i] \in S THEN <<seq[i]>> ELSE <<>>])

\* f[1], g[1], f[2], g[2], ...
Alternate(f, g) ==
  [i \in 1..2 * Len(f) |-> IF i % 2 = 1 THEN f[(i + 1) \div 2] ELSE g[i \div 2]]

\* the machine at the head of the stack is s, for tree t and port p
Running(s, t, p) ==
  /\ stk # <<>>
  /\ Head(stk).sm = s /\ Head(stk).t = t /\ Head(stk).p = p

(***************************************************************************)
(* Every mstp_xxxSm function first evaluates its general condition, once,  *)
(* and then iterates "switch(state)" while a condition function says so.   *)
(* The condition functions are rendered as operators that return the state *)
(* to enter, or Stay.  Target is the state the running call enters next.   *)
(***************************************************************************)
Stay == "STAY"
Target(general, cond) ==
  IF ~Head(stk).loop /\ general # Stay THEN general ELSE cond
ByGeneral(general) == ~Head(stk).loop /\ general # Stay

\* it makes calls, in order, and then iterates its loop ...
Loop(calls) == stk' = calls \o <<[Head(stk) EXCEPT !.loop = TRUE]>> \o Tail(stk)
\* ... or makes calls and returns
Return(calls) == stk' = calls \o Tail(stk)
LoopIf(again, calls) == IF again THEN Loop(calls) ELSE Return(calls)

-----------------------------------------------------------------------------
Comm(p, b) == b \in cbits[p]
On(t, p, b) == b \in bits[t][p]
Cfg(p, c) == c \in PortCfg[p]

Begin(p) == ctl[Owner[p]].begin
PortsOf(b) == {p \in Port : Owner[p] = b}
Siblings(p) == {q \in Port : Owner[q] = Owner[p] /\ q # p}
SiblingSeq(p) == Only(LPorts[Owner[p]], Siblings(p))

\* the received frame is an MST BPDU with this bridge's configuration identifier
MyRegionBpdu(p) == rx.type = "MST" /\ rx.region = Region[Owner[p]]

RootTimes(t, p) == root[t][Owner[p]].times

SetBits(t, p, set, clr) == [bits EXCEPT ![t][p] = (@ \ clr) \cup set]
SetComm(p, set, clr) == [cbits EXCEPT ![p] = (@ \ clr) \cup set]

\* a tree has at most one message in MSTP_TREE_MSGS_QUEUE
Enqueued(q, t) ==
  IF \E i \in DOMAIN q : q[i] = t THEN q ELSE Append(q, t)

NewInfo(t) == IF t = CIST THEN "newInfo" ELSE "newInfoMsti"

\* mstp_forwardDelayParameter
ForwardDelay(p) ==
  IF Comm(p, "sendRSTP") THEN HelloTime ELSE RootTimes(CIST, p).fwd
=============================================================================
