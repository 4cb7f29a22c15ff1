-------------------------------- MODULE Ptx --------------------------------
(***************************************************************************)
(* Port Transmit machine (mstpd_ptx_sm.c) and the encodings it sends       *)
(* (mstp_txConfig, mstp_txTcn, mstp_txMstp in mstpd_util.c).               *)
(***************************************************************************)
EXTENDS MstpBase

PtxGeneral(p) ==
  IF (Begin(p) \/ ~Comm(p, "portEnabled")) /\ csm[p].ptx # "TRANSMIT_INIT"
  THEN "TRANSMIT_INIT" ELSE Stay

\* mstp_allTransmitReadyCondition
AllTransmitReady(p) ==
  \A t \in Tree : On(t, p, "selected") /\ ~On(t, p, "updtInfo")

AnyMstiMaster(p) == \E t \in Msti : info[t][p].role = "MASTER"

PtxIdleCond(p) ==
  IF ~AllTransmitReady(p) THEN Stay
  ELSE IF ctmr[p].helloWhen = 0 THEN "TRANSMIT_PERIODIC"
  ELSE IF ctmr[p].txCount >= TxHoldCount THEN Stay
  ELSE IF Comm(p, "sendRSTP")
  THEN IF \/ Comm(p, "newInfo")
          \/ Comm(p, "newInfoMsti") /\ ~AnyMstiMaster(p)
       THEN "TRANSMIT_RSTP" ELSE Stay
  ELSE IF Comm(p, "newInfo") /\ info[CIST][p].role = "DESIGNATED"
  THEN "TRANSMIT_CONFIG"
  ELSE IF Comm(p, "newInfo") /\ info[CIST][p].role = "ROOT"
  THEN "TRANSMIT_TCN"
  ELSE Stay

PtxCond(p) ==
  CASE csm[p].ptx = "UNKNOWN" -> Stay
    [] csm[p].ptx = "IDLE"    -> PtxIdleCond(p)
    [] OTHER                  -> "IDLE"

\* A filtered port does not transmit; preventTx postpones every transmission
\* to mstp_doPendingTx.
PtxMuted(p) ==
  \/ ~Begin(p) /\ Cfg(p, "bpduFilter")
  \/ ctl[Owner[p]].preventTx

PtxEnters(p, s) ==
  /\ Running("PTX", CIST, p)
  /\ (IF ~Head(stk).loop /\ PtxMuted(p) THEN Stay
      ELSE Target(PtxGeneral(p), PtxCond(p))) = s

-----------------------------------------------------------------------------
PtxInit(p) ==
  /\ PtxEnters(p, "TRANSMIT_INIT")
  /\ csm' = [csm EXCEPT ![p].ptx = "TRANSMIT_INIT"]
  /\ cbits' = SetComm(p, {"newInfo", "newInfoMsti"}, {})
  /\ ctmr' = [ctmr EXCEPT ![p].txCount = 0]
  /\ Loop(<<>>)
  /\ UNCHANGED <<treeVars, bridgeVars, rx, dbVars, envVars>>

\* The do-while goes on only when IDLE was entered from TRANSMIT_PERIODIC.
PtxIdle(p) ==
  /\ PtxEnters(p, "IDLE")
  /\ csm' = [csm EXCEPT ![p].ptx = "IDLE"]
  /\ ctmr' = [ctmr EXCEPT ![p].helloWhen = vec[CIST][p].portTimes.hello]
  /\ LoopIf(csm[p].ptx = "TRANSMIT_PERIODIC", <<>>)
  /\ UNCHANGED <<cbits, treeVars, bridgeVars, rx, dbVars, envVars>>

Refreshed(t, p) ==
  \/ info[t][p].role = "DESIGNATED"
  \/ info[t][p].role = "ROOT" /\ tmr[t][p].tcWhile # 0

PtxPeriodic(p) ==
  /\ PtxEnters(p, "TRANSMIT_PERIODIC")
  /\ csm' = [csm EXCEPT ![p].ptx = "TRANSMIT_PERIODIC"]
  /\ cbits' = SetComm(p, {NewInfo(t) : t \in {u \in Tree : Refreshed(u, p)}}, {})
  /\ Loop(<<>>)
  /\ UNCHANGED <<ctmr, treeVars, bridgeVars, rx, dbVars, envVars>>

-----------------------------------------------------------------------------
TxRole(r) ==
  IF r \in {"ALTERNATE", "BACKUP"} THEN "ALTERNATE_OR_BACKUP"
  ELSE IF r \in {"ROOT", "DESIGNATED"} THEN r ELSE "MASTER"

TxFlags(t, p) ==
  {f \in {"learning", "forwarding"} : On(t, p, f)}
    \cup (IF On(t, p, "agree") THEN {"agreement"} ELSE {})
    \cup (IF On(t, p, "proposing") THEN {"proposal"} ELSE {})
    \cup (IF tmr[t][p].tcWhile # 0 THEN {"tc"} ELSE {})

TxTimes(t, p) ==
  [vec[t][p].dsnTimes EXCEPT
     !.hello = IF t = CIST THEN vec[CIST][p].portTimes.hello ELSE @]

\* mstp_txMstp: one message per MSTI whose role is known and not Disabled
MstBpdu(p) ==
  [type |-> "MST", src |-> p, region |-> Region[Owner[p]],
   trees |-> {t \in Msti : info[t][p].role \notin {"UNKNOWN", "DISABLED"}},
   pri   |-> [t \in Tree |-> vec[t][p].dsnPri],
   times |-> [t \in Tree |-> TxTimes(t, p)],
   role  |-> [t \in Tree |-> TxRole(info[t][p].role)],
   flags |-> [t \in Tree |-> TxFlags(t, p)]]

\* mstp_txConfig: no region, no role, the TC and TC Ack flags only
ConfigBpdu(p) ==
  [MstBpdu(p) EXCEPT
     !.type = "CFG", !.region = 0, !.trees = {}, !.role[CIST] = "MASTER",
     !.pri[CIST].rgn = vec[CIST][p].dsnPri.dsn,
     !.flags[CIST] = (@ \cap {"tc"})
                       \cup (IF Comm(p, "tcAck") THEN {"tcAck"} ELSE {})]

\* mstp_txTcn: no content
TcnBpdu(p) == [MstBpdu(p) EXCEPT !.type = "TCN", !.region = 0, !.trees = {}]

\* A frame sent on a link that is down, or to a full queue, is lost.
Send(p, bpdu) ==
  wire' = IF \/ Peer[p] = NoPort \/ ~up[p]
             \/ Len(wire[Peer[p]]) >= WireCap
          THEN wire
          ELSE [wire EXCEPT ![Peer[p]] = Append(@, bpdu)]

Transmitted(p, s) ==
  /\ csm' = [csm EXCEPT ![p].ptx = s]
  /\ ctmr' = [ctmr EXCEPT ![p].txCount = @ + 1]
  /\ Loop(<<>>)
  /\ UNCHANGED <<treeVars, bridgeVars, rx, dbVars, up, due, left>>

\* wrong: the acknowledgement is sent and stays pending
WrongPtxConfig(p) ==
  /\ PtxEnters(p, "TRANSMIT_CONFIG")
  /\ Send(p, ConfigBpdu(p))
  /\ cbits' = SetComm(p, {}, {"newInfo", "newInfoMsti"})
  /\ Transmitted(p, "TRANSMIT_CONFIG")

PtxConfig(p) ==
  /\ PtxEnters(p, "TRANSMIT_CONFIG")
  /\ Send(p, ConfigBpdu(p))
  /\ cbits' = SetComm(p, {}, {"newInfo", "newInfoMsti", "tcAck"})
  /\ Transmitted(p, "TRANSMIT_CONFIG")

PtxTcn(p) ==
  /\ PtxEnters(p, "TRANSMIT_TCN")
  /\ Send(p, TcnBpdu(p))
  /\ cbits' = SetComm(p, {}, {"newInfo", "newInfoMsti"})
  /\ Transmitted(p, "TRANSMIT_TCN")

\* mstp_txMstp sends nothing for a Disabled port, the rest happens all the same
PtxRstp(p) ==
  /\ PtxEnters(p, "TRANSMIT_RSTP")
  /\ IF info[CIST][p].role = "DISABLED" THEN UNCHANGED wire
     ELSE Send(p, MstBpdu(p))
  /\ cbits' = SetComm(p, {}, {"newInfo", "newInfoMsti", "tcAck"})
  /\ Transmitted(p, "TRANSMIT_RSTP")

PtxReturn(p) ==
  /\ PtxEnters(p, Stay)
  /\ Return(<<>>)
  /\ UNCHANGED <<commVars, treeVars, bridgeVars, rx, dbVars, envVars>>

PtxSm(p) == \/ PtxInit(p) \/ PtxIdle(p) \/ PtxPeriodic(p)
            \/ PtxConfig(p) \/ PtxTcn(p) \/ PtxRstp(p) \/ PtxReturn(p)
=============================================================================
