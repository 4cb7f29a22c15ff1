-------------------------------- MODULE Stpd --------------------------------
(***************************************************************************)
(* The spanning tree daemon: the events its protocol thread serves         *)
(* (mstpd_protocol_thread in mstpd_ctrl.c), what each of them starts, and  *)
(* the bridges it runs on, connected port to port.  An event puts on stk   *)
(* the calls its case of the thread's switch makes; the state machines run *)
(* until stk is empty; the thread then takes the next event.               *)
(***************************************************************************)
EXTENDS MstpBase, Ppm, Bdm, Prx, Ptx, Pti, Pst, Tcm, Prs, Pim, Prt

-----------------------------------------------------------------------------
(* Port and bridge records as the initialisation functions leave them.     *)

FreshComm(p) ==
  {"mcheck"} \cup (IF Cfg(p, "adminEdge") THEN {"operEdge"} ELSE {})
FreshCsm == [s \in {"ppm", "bdm", "prx", "ptx", "pti"} |-> "UNKNOWN"]
FreshCtmr == [x \in {"mdelayWhile", "helloWhen", "edgeDelayWhile", "txCount"} |-> 0]
FreshFsm == [s \in {"pim", "prt", "pst", "tcm"} |-> "UNKNOWN"]
FreshTmr == [x \in {"fdWhile", "rrWhile", "rbWhile", "tcWhile", "rcvdInfoWhile"} |-> 0]
FreshInfo == [x \in {"infoIs", "rcvdInfo", "role", "selectedRole"} |-> "UNKNOWN"]

ZeroVector == [root |-> 0, ext |-> 0, rgn |-> 0, int |-> 0, dsn |-> 0, port |-> 0]

\* the CIST record is calloc'ed and given two times, an MSTI's is initialised
FreshPri(t, p) ==
  IF t = CIST THEN ZeroVector
  ELSE [BridgePriority(t, Owner[p]) EXCEPT !.port = PortId(p)]
FreshVec(t, p) ==
  [portPri   |-> FreshPri(t, p), dsnPri |-> FreshPri(t, p), msgPri |-> ZeroVector,
   portTimes |-> IF t = CIST THEN [NoTimes EXCEPT !.fwd = FwdDelay, !.hello = HelloTime]
                 ELSE NoTimes,
   dsnTimes  |-> IF t = CIST THEN [NoTimes EXCEPT !.fwd = FwdDelay] ELSE NoTimes,
   msgTimes  |-> NoTimes]
FreshRoot(t, b) == [port |-> NoPort, pri |-> BridgePriority(t, b), times |-> BridgeTimes(t)]

NoBpdu ==
  [type |-> "TCN", src |-> 0, region |-> 0, trees |-> {},
   pri |-> [t \in Tree |-> ZeroVector], times |-> [t \in Tree |-> NoTimes],
   role |-> [t \in Tree |-> "MASTER"], flags |-> [t \in Tree |-> {}]]

\* The daemon has started with all links up; STP is not enabled.
Init ==
  /\ cbits = [p \in Port |-> FreshComm(p)]
  /\ csm = [p \in Port |-> FreshCsm] /\ ctmr = [p \in Port |-> FreshCtmr]
  /\ bits = [t \in Tree |-> [p \in Port |-> {}]]
  /\ fsm = [t \in Tree |-> [p \in Port |-> FreshFsm]]
  /\ tmr = [t \in Tree |-> [p \in Port |-> FreshTmr]]
  /\ info = [t \in Tree |-> [p \in Port |-> FreshInfo]]
  /\ vec = [t \in Tree |-> [p \in Port |-> FreshVec(t, p)]]
  /\ root = [t \in Tree |-> [b \in Bridge |-> FreshRoot(t, b)]]
  /\ prs = [t \in Tree |-> [b \in Bridge |-> "UNKNOWN"]]
  /\ ctl = [b \in Bridge |-> [spanning |-> FALSE, begin |-> FALSE, preventTx |-> FALSE]]
  /\ stk = <<>> /\ rx = NoBpdu
  /\ pend = [t \in Tree |-> [p \in Port |-> "none"]]
  /\ flushReq = [t \in Tree |-> [p \in Port |-> FALSE]]
  /\ treeQ = [b \in Bridge |-> <<>>]
  /\ db = [t \in Tree |-> [p \in Port |-> "Forwarding"]]
  /\ blockAll = [p \in Port |-> FALSE]
  /\ wire = [p \in Port |-> <<>>]
  /\ up = [p \in Port |-> TRUE]
  /\ due = Bridge
  /\ left = Budget

-----------------------------------------------------------------------------
(* Events                                                                  *)

Spanning(b) == ctl[b].spanning
FirstPort(b) == LPorts[b][1]

\* the bridges still to tick before any ticks again, once b has or has stopped
StillDue(b) ==
  LET rest == {c \in due \ {b} : Spanning(c)}
  IN  IF rest = {} THEN Bridge ELSE rest

Spend(kind) ==
  /\ left[kind] > 0
  /\ left' = IF left[kind] < NoBound THEN [left EXCEPT ![kind] = @ - 1] ELSE left

\* the tail of the thread's loop: mstp_informDBOnPortStateChange(msg_type)
InformDB(b) == Rest("INFORM_DB", CIST, FirstPort(b), 0)
InformDBOnTimer(b) == Rest("INFORM_DB", CIST, FirstPort(b), 1)

\* the calls F makes for each port of the bridge, in lport order
JoinPorts(b, F(_)) == Join([i \in DOMAIN LPorts[b] |-> F(LPorts[b][i])])

\* mstp_initStateMachines
PimCalls(p) == TreeCalls("PIM", p)
PortMachineCalls(p) ==
  <<Call("PPM", CIST, p), Call("BDM", CIST, p), Call("PRX", CIST, p),
    Call("PTX", CIST, p), Call("PTI", CIST, p)>>
TreeMachineCalls(p) ==
  [i \in 1..3 * (1 + Len(MstiSeq)) |->
     Call(<<"PRT", "PST", "TCM">>[1 + ((i - 1) % 3)],
          IF i <= 3 THEN CIST ELSE MstiSeq[(i - 1) \div 3], p)]
AllMachineCalls(p) == PortMachineCalls(p) \o TreeMachineCalls(p)

InitStateMachines(b) ==
  JoinPorts(b, PimCalls) \o TreeCalls("PRS", FirstPort(b)) \o JoinPorts(b, AllMachineCalls)
    \o <<Call("BEGIN_DONE", CIST, FirstPort(b))>>

\* e_mstpd_admin_status, true: mstp_adminStatusUpdate
Enable(b) ==
  /\ stk = <<>> /\ ~Spanning(b)
  /\ Spend("admin")
  /\ ctl' = [ctl EXCEPT ![b] = [spanning |-> TRUE, begin |-> TRUE, preventTx |-> FALSE]]
  /\ stk' = InitStateMachines(b) \o <<InformDB(b)>>
  /\ UNCHANGED <<commVars, treeVars, root, prs, rx, dbVars, wire, up, due>>

\* mstp_clearProtocolData, mstp_clearMstpToOthersMessageQueue and
\* mstp_config_reinit, which also empties the event queue
Renew(f, b, fresh(_, _)) ==
  [t \in Tree |-> [p \in Port |-> IF Owner[p] = b THEN fresh(t, p) ELSE f[t][p]]]

ClearProtocolData(b) ==
  /\ cbits' = [p \in Port |-> IF Owner[p] = b THEN FreshComm(p) ELSE cbits[p]]
  /\ csm' = [p \in Port |-> IF Owner[p] = b THEN FreshCsm ELSE csm[p]]
  /\ ctmr' = [p \in Port |-> IF Owner[p] = b THEN FreshCtmr ELSE ctmr[p]]
  /\ bits' = Renew(bits, b, LAMBDA t, p : {})
  /\ fsm' = Renew(fsm, b, LAMBDA t, p : FreshFsm)
  /\ tmr' = Renew(tmr, b, LAMBDA t, p : FreshTmr)
  /\ info' = Renew(info, b, LAMBDA t, p : FreshInfo)
  /\ vec' = Renew(vec, b, FreshVec)
  /\ root' = [t \in Tree |-> [root[t] EXCEPT ![b] = FreshRoot(t, b)]]
  /\ prs' = [t \in Tree |-> [prs[t] EXCEPT ![b] = "UNKNOWN"]]
  /\ ctl' = [ctl EXCEPT ![b].spanning = FALSE]
  /\ pend' = Renew(pend, b, LAMBDA t, p : "none")
  /\ flushReq' = Renew(flushReq, b, LAMBDA t, p : FALSE)
  /\ treeQ' = [treeQ EXCEPT ![b] = <<>>]
  /\ wire' = [p \in Port |-> IF Owner[p] = b THEN <<>> ELSE wire[p]]

\* e_mstpd_admin_status, false: mstp_updatePortStateToForward writes every
\* port of the bridge and leaves block_all_mstp alone
Disable(b) ==
  /\ stk = <<>> /\ Spanning(b)
  /\ Spend("admin")
  /\ ClearProtocolData(b)
  /\ db' = Renew(db, b, LAMBDA t, p : "Forwarding")
  /\ due' = StillDue(b)
  /\ UNCHANGED <<stk, rx, blockAll, up>>

\* a configuration change that sets MSTP_DYN_RECONFIG_CHANGE:
\* mstp_checkDynReconfigChanges
Reconfigure(b) ==
  /\ stk = <<>> /\ Spanning(b)
  /\ Spend("admin")
  /\ ClearProtocolData(b)
  /\ due' = StillDue(b)
  /\ UNCHANGED <<stk, rx, db, blockAll, up>>

\* mstp_noStpPropagatePortUpState
NoStpLinkUp(p) ==
  /\ db' = [t \in Tree |-> [db[t] EXCEPT ![p] = "Forwarding"]]
  /\ blockAll' = [blockAll EXCEPT ![p] = FALSE]

\* e_mstpd_lport_up
LinkUp(p) ==
  /\ stk = <<>> /\ ~up[p]
  /\ Spend("link")
  /\ up' = [up EXCEPT ![p] = TRUE]
  /\ IF Spanning(Owner[p])
     THEN /\ stk' = <<Call("ENABLE_PORT", CIST, p), InformDB(Owner[p])>>
          /\ UNCHANGED <<db, blockAll>>
     ELSE NoStpLinkUp(p) /\ UNCHANGED stk
  /\ UNCHANGED <<commVars, treeVars, bridgeVars, rx, pend, flushReq, treeQ, wire, due>>

\* mstp_portDisable
DisablePortCalls(p) ==
  TreeCalls("PIM", p)
    \o <<Call("PRX", CIST, p), Call("PPM", CIST, p), Call("BDM", CIST, p),
         Call("PENDING_TX", CIST, p)>>

\* e_mstpd_lport_down; without STP, mstp_noStpPropagatePortDownState
LinkDown(p) ==
  LET b == Owner[p]
      acts == Spanning(b) /\ Comm(p, "portEnabled")
  IN  /\ stk = <<>> /\ up[p]
      /\ Spend("link")
      /\ up' = [up EXCEPT ![p] = FALSE]
      /\ cbits' = IF acts THEN SetComm(p, {}, {"portEnabled"}) ELSE cbits
      /\ ctl' = IF acts THEN [ctl EXCEPT ![b].preventTx = TRUE] ELSE ctl
      /\ stk' = IF acts THEN DisablePortCalls(p) \o <<InformDB(b)>> ELSE <<>>
      /\ blockAll' = IF Spanning(b) THEN blockAll ELSE [blockAll EXCEPT ![p] = TRUE]
      /\ UNCHANGED <<csm, ctmr, treeVars, root, prs, rx, pend, flushReq, treeQ, db,
                     wire, due>>

\* e_mstpd_timer: mstp_processTimerTickEvent.  The bridges' clocks run at the
\* same rate: no bridge ticks twice before every other has ticked once.  A
\* frame needs less than a second to be delivered, in any order.
PtiCall(p) == <<Call("PTI", CIST, p)>>

Tick(b) ==
  /\ stk = <<>> /\ Spanning(b) /\ b \in due
  /\ \A p \in Port : wire[p] = <<>>
  /\ Spend("tick")
  /\ due' = StillDue(b)
  /\ stk' = JoinPorts(b, PtiCall) \o <<InformDBOnTimer(b)>>
  /\ UNCHANGED <<commVars, treeVars, bridgeVars, rx, dbVars, wire, up>>

\* e_mstpd_rx_bpdu: a filtered port drops the frame (mstp_decodeBpdu)
Deliver(p, bpdu) ==
  LET b == Owner[p]
      heard == Spanning(b) /\ ~Cfg(p, "bpduFilter")
  IN  /\ rx' = IF heard THEN bpdu ELSE rx
      /\ cbits' = IF heard THEN SetComm(p, {"rcvdBPDU"}, {}) ELSE cbits
      /\ ctl' = IF heard THEN [ctl EXCEPT ![b].preventTx = TRUE] ELSE ctl
      /\ stk' = IF heard
                THEN <<CallPkt("PRX", CIST, p), InformDB(b), Call("PENDING_TX", CIST, p)>>
                ELSE <<>>
      /\ UNCHANGED <<csm, ctmr, treeVars, root, prs, dbVars, up, due>>

Receive(p) ==
  /\ stk = <<>> /\ wire[p] # <<>>
  /\ wire' = [wire EXCEPT ![p] = Tail(@)]
  /\ Deliver(p, Head(wire[p]))
  /\ UNCHANGED left

\* a neighbour that does not run this code
ReceiveForeign(p) ==
  /\ stk = <<>> /\ up[p]
  /\ Spend("env")
  /\ \E bpdu \in EnvBpdu[p] : Deliver(p, bpdu)
  /\ UNCHANGED wire

Lose(p) ==
  /\ stk = <<>> /\ wire[p] # <<>>
  /\ Spend("lose")
  /\ wire' = [wire EXCEPT ![p] = Tail(@)]
  /\ UNCHANGED <<commVars, treeVars, bridgeVars, stk, rx, dbVars, up, due>>

-----------------------------------------------------------------------------
(* The steps of the events that are not state machines.                    *)

\* the end of mstp_initStateMachines, then mstp_enableActiveLogicalPorts
EnableIfUp(p) == IF up[p] THEN <<Call("ENABLE_PORT", CIST, p)>> ELSE <<>>

BeginDone(p) ==
  /\ Running("BEGIN_DONE", CIST, p)
  /\ ctl' = [ctl EXCEPT ![Owner[p]].begin = FALSE]
  /\ Return(JoinPorts(Owner[p], EnableIfUp))
  /\ UNCHANGED <<commVars, treeVars, root, prs, rx, dbVars, envVars>>

\* mstp_portEnable
EnablePort(p) ==
  LET acts == ~Comm(p, "portEnabled")
  IN  /\ Running("ENABLE_PORT", CIST, p)
      /\ cbits' = SetComm(p, {"portEnabled"}, {})
      /\ ctl' = IF acts THEN [ctl EXCEPT ![Owner[p]].preventTx = TRUE] ELSE ctl
      /\ Return(IF acts
                THEN <<Call("PRX", CIST, p), Call("PPM", CIST, p)>> \o TreeCalls("PIM", p)
                       \o <<Call("PENDING_TX", CIST, p)>>
                ELSE <<>>)
      /\ UNCHANGED <<csm, ctmr, treeVars, root, prs, rx, dbVars, envVars>>

\* mstp_doPendingTxOnBridge
PendingTxCall(p) ==
  IF Comm(p, "newInfo") \/ Comm(p, "newInfoMsti") THEN <<Call("PTX", CIST, p)>> ELSE <<>>

\* wrong: transmission stays disabled
WrongPendingTx(p) ==
  /\ Running("PENDING_TX", CIST, p)
  /\ Return(JoinPorts(Owner[p], PendingTxCall))
  /\ UNCHANGED <<commVars, treeVars, bridgeVars, rx, dbVars, envVars>>

PendingTx(p) ==
  /\ Running("PENDING_TX", CIST, p)
  /\ ctl' = [ctl EXCEPT ![Owner[p]].preventTx = FALSE]
  /\ Return(JoinPorts(Owner[p], PendingTxCall))
  /\ UNCHANGED <<commVars, treeVars, root, prs, rx, dbVars, envVars>>

\* mstp_informDBOnPortStateChange: the messages in queue order, each written
\* out as port_state and, for Blk and Fwd, as block_all_mstp of the port; the
\* timer also has the addresses flushed and the messages removed
StateName == [Blk |-> "Blocking", Lrn |-> "Learning", Fwd |-> "Forwarding"]

\* wrong: a port that starts to forward does not write the key
WrongLastBlockWriter(b, p) ==
  LET writers == {i \in DOMAIN treeQ[b] : pend[treeQ[b][i]][p] = "Blk"}
  IN  {treeQ[b][i] : i \in {j \in writers : \A k \in writers : k <= j}}

LastBlockWriter(b, p) ==
  LET writers == {i \in DOMAIN treeQ[b] : pend[treeQ[b][i]][p] \in {"Blk", "Fwd"}}
  IN  {treeQ[b][i] : i \in {j \in writers : \A k \in writers : k <= j}}

\* wrong: every event removes the messages, the flush requests in them included
WrongInformDBStep(p) ==
  LET b == Owner[p]
  IN  /\ Running("INFORM_DB", CIST, p)
      /\ db' = [t \in Tree |-> [q \in Port |->
                 IF Owner[q] = b /\ pend[t][q] # "none" THEN StateName[pend[t][q]]
                 ELSE db[t][q]]]
      /\ pend' = Renew(pend, b, LAMBDA t, q : "none")
      /\ treeQ' = [treeQ EXCEPT ![b] = <<>>]
      /\ rx' = NoBpdu
      /\ Return(<<>>)
      /\ UNCHANGED <<commVars, treeVars, bridgeVars, blockAll, flushReq, envVars>>

InformDBStep(p) ==
  LET b == Owner[p]
      timer == Head(stk).v = 1
  IN  /\ Running("INFORM_DB", CIST, p)
      /\ db' = [t \in Tree |-> [q \in Port |->
                 IF Owner[q] = b /\ pend[t][q] # "none" THEN StateName[pend[t][q]]
                 ELSE db[t][q]]]
      /\ blockAll' = [q \in Port |->
                 IF Owner[q] # b \/ LastBlockWriter(b, q) = {} THEN blockAll[q]
                 ELSE \A t \in LastBlockWriter(b, q) : pend[t][q] = "Blk"]
      /\ pend' = Renew(pend, b, LAMBDA t, q : "none")
      /\ flushReq' = IF timer THEN Renew(flushReq, b, LAMBDA t, q : FALSE) ELSE flushReq
      /\ treeQ' = IF timer THEN [treeQ EXCEPT ![b] = <<>>] ELSE treeQ
      /\ rx' = NoBpdu
      /\ Return(<<>>)
      /\ UNCHANGED <<commVars, treeVars, bridgeVars, envVars>>

-----------------------------------------------------------------------------
TickSteps == {"TICK_HELLO", "TICK_MDELAY", "TICK_TREE", "TICK_INFO"}
PimSteps == {"PIM_AGED", "PIM_RECORD", "PIM_SELECTED", "PIM_DONE", "SYNC_MSTI"}

Runs(s, t, p) ==
  \/ s = "PPM" /\ PpmSm(p)
  \/ s = "BDM" /\ BdmSm(p)
  \/ s \in {"PRX", "PRX_MSTI"} /\ PrxSm(p)
  \/ s = "PTX" /\ PtxSm(p)
  \/ s \in {"PTI"} \cup TickSteps /\ PtiSm(p)
  \/ s = "PST" /\ PstSm(t, p)
  \/ s \in {"TCM", "TC_PROP"} /\ TcmSm(t, p)
  \/ s = "PRS" /\ PrsSm(t, p)
  \/ s \in {"PIM"} \cup PimSteps /\ PimSm(t, p)
  \/ s = "PRT" /\ PrtSm(t, p)
  \/ BeginDone(p) \/ EnablePort(p) \/ PendingTx(p) \/ InformDBStep(p)

\* the function at the head of the stack takes its next step
RunStep ==
  /\ stk # <<>>
  /\ \E t \in Tree, p \in Port :
       Head(stk).t = t /\ Head(stk).p = p /\ Runs(Head(stk).sm, t, p)

Event ==
  \/ \E b \in Bridge : Enable(b) \/ Disable(b) \/ Reconfigure(b) \/ Tick(b)
  \/ \E p \in Port : LinkUp(p) \/ LinkDown(p) \/ Receive(p) \/ ReceiveForeign(p) \/ Lose(p)

Next == RunStep \/ Event

Spec == Init /\ [][Next]_vars

\* The thread serves its queue, the timer thread posts a tick every second
\* and the wires deliver.  Links, administrators and foreign neighbours owe
\* nothing.
ThreadStep ==
  RunStep \/ (\E b \in Bridge : Tick(b)) \/ (\E p \in Port : Receive(p))

FairSpec == Spec /\ WF_vars(ThreadStep)
=============================================================================
