-------------------------------- MODULE Pim --------------------------------
(***************************************************************************)
(* Port Information machine (mstpd_pim_sm.c) and the functions of          *)
(* mstpd_util.c that classify and record a received message (mstp_rcvInfo, *)
(* mstp_recordXxx, mstp_setTcFlags, mstp_updtRcvdInfoWhile).               *)
(* An action that has to wait for mstp_prsSm to return goes on in a frame  *)
(* of its own (PIM_AGED, PIM_RECORD, PIM_SELECTED, PIM_DONE); the regional *)
(* root it had read before the call travels in that frame.                 *)
(***************************************************************************)
EXTENDS MstpBase

-----------------------------------------------------------------------------
(* Conditions                                                              *)

PimGeneral(t, p) ==
  IF /\ \/ ~Comm(p, "portEnabled") /\ info[t][p].infoIs # "DISABLED"
        \/ Begin(p)
     /\ fsm[t][p].pim # "DISABLED"
  THEN "DISABLED" ELSE Stay

Updates(t, p) == On(t, p, "selected") /\ On(t, p, "updtInfo")

\* rcvdXstMsg and updtXstInfo: an MSTI waits for the CIST's message
RcvdXst(t, p) == On(t, p, "rcvdMsg") /\ (t = CIST \/ ~On(CIST, p, "rcvdMsg"))
UpdtXst(t, p) == On(t, p, "updtInfo") \/ On(CIST, p, "updtInfo")

PimCurrentCond(t, p) ==
  IF Updates(t, p) THEN "UPDATE"
  ELSE IF /\ info[t][p].infoIs = "RECEIVED" /\ tmr[t][p].rcvdInfoWhile = 0
          /\ ~On(t, p, "updtInfo") /\ ~RcvdXst(t, p) THEN "AGED"
  ELSE IF RcvdXst(t, p) /\ ~UpdtXst(t, p) /\ Head(stk).pkt THEN "RECEIVE"
  ELSE Stay

Handler == [i \in RcvdInfo |-> IF i = "UNKNOWN" THEN Stay
                               ELSE IF i = "INFERIOR_ROOT_ALTERNATE" THEN "NOT_DESIGNATED"
                               ELSE i]

PimCond(t, p) ==
  CASE fsm[t][p].pim = "UNKNOWN"  -> Stay
    [] fsm[t][p].pim = "DISABLED" -> IF Comm(p, "portEnabled") THEN "AGED" ELSE Stay
    [] fsm[t][p].pim = "AGED"     -> IF Updates(t, p) THEN "UPDATE" ELSE Stay
    [] fsm[t][p].pim = "CURRENT"  -> PimCurrentCond(t, p)
    [] fsm[t][p].pim = "RECEIVE"  -> Handler[info[t][p].rcvdInfo]
    [] OTHER                      -> "CURRENT"

PimEnters(t, p, s) ==
  /\ Running("PIM", t, p)
  /\ Target(PimGeneral(t, p), PimCond(t, p)) = s

-----------------------------------------------------------------------------
(* The received message                                                    *)

\* mstp_fromSameRegion: only for a frame just recorded as RSTP or MSTP
SameRgn(p) == Comm(p, "rcvdRSTP") /\ MyRegionBpdu(p)

MsgPri(t, p) ==
  LET carried == rx.pri[t]
  IN  IF t # CIST THEN carried
      ELSE [carried EXCEPT !.int = IF SameRgn(p) THEN @ ELSE 0,
                           !.dsn = IF rx.type = "MST" THEN @ ELSE carried.rgn]

MsgTimes(t, p) ==
  IF t # CIST THEN [NoTimes EXCEPT !.hops = rx.times[t].hops]
  ELSE [rx.times[CIST] EXCEPT !.hops = IF SameRgn(p) THEN @ ELSE MaxHops]

\* mstp_isOldRootPropagation: information about a root this bridge used to be
OwnMac(id, p) == MacOf(id) = Mac[Owner[p]]
StaleOwnId(id, t, p) == OwnMac(id, p) /\ id # BridgeId(t, Owner[p])

StaleRegion(t, p) ==
  IF t = CIST THEN SameRgn(p) /\ StaleOwnId(rx.pri[CIST].rgn, CIST, p)
  ELSE StaleOwnId(rx.pri[t].rgn, t, p)
StaleRoot(t, p) ==
  /\ t = CIST
  /\ IF SameRgn(p)
     THEN /\ rx.pri[CIST].rgn = BridgeId(CIST, Owner[p])
          /\ MacOf(rx.pri[CIST].root) # MacOf(root[CIST][Owner[p]].pri.root)
     ELSE StaleOwnId(rx.pri[CIST].root, CIST, p)
OldRoot(t, p) == StaleRegion(t, p) \/ StaleRoot(t, p)

\* the message times it leaves behind: such information ages at once
OldRootTimes(t, p) ==
  [MsgTimes(t, p) EXCEPT
     !.hops = IF StaleRegion(t, p) \/ SameRgn(p) THEN 0 ELSE @,
     !.age = IF StaleRoot(t, p) THEN rx.times[CIST].maxAge ELSE @]

MsgTimesEqual(t, p) ==
  LET m == MsgTimes(t, p)
      w == vec[t][p].portTimes
  IN  /\ t = CIST => m.fwd = w.fwd /\ m.maxAge = w.maxAge /\ m.age = w.age /\ m.hello = w.hello
      /\ t # CIST \/ SameRgn(p) => m.hops = w.hops

RgnRootChanged(t, p) ==
  LET known == MsgPri(t, p).rgn = root[t][Owner[p]].pri.rgn
  IN  IF t = CIST /\ ~SameRgn(p) THEN known ELSE ~known

SameTransmitter(v, w) == MacOf(v.dsn) = MacOf(w.dsn) /\ PortNum(v.port) = PortNum(w.port)

DesignatedMsg(t, p) ==
  LET m == MsgPri(t, p)
      w == vec[t][p].portPri
  IN  IF /\ SameRgn(p) /\ info[t][p].role = "DESIGNATED"
         /\ ~On(t, p, "proposing") /\ MsgTimes(t, p).hops <= 1 THEN "OTHER"
      ELSE IF RgnRootChanged(t, p) THEN "SUPERIOR_DESIGNATED"
      ELSE IF m = w /\ MsgTimesEqual(t, p) /\ info[t][p].infoIs = "RECEIVED"
      THEN "REPEATED_DESIGNATED"
      ELSE IF Better(m, w) \/ (SameTransmitter(m, w) /\ (m # w \/ ~MsgTimesEqual(t, p)))
      THEN "SUPERIOR_DESIGNATED"
      ELSE "INFERIOR_DESIGNATED"

\* mstp_rcvInfoCist and mstp_rcvInfoMsti give up before they look at the message
Unusable(t, p) ==
  \/ Comm(p, "rcvdSelfSentPkt") /\ tmr[t][p].rcvdInfoWhile # 0
  \/ t = CIST /\ rx.type = "TCN"
  \/ t # CIST /\ (~SameRgn(p) \/ t \notin rx.trees)

SelfSent(p) == rx.src = p

Classified(t, p) ==
  IF Unusable(t, p) THEN "OTHER"
  ELSE IF OldRoot(t, p) \/ SelfSent(p) THEN "SUPERIOR_DESIGNATED"
  ELSE IF (t = CIST /\ rx.type = "CFG") \/ rx.role[t] = "DESIGNATED" THEN DesignatedMsg(t, p)
  ELSE IF /\ rx.role[t] \in {"ROOT", "ALTERNATE_OR_BACKUP"}
          /\ ~Better(MsgPri(t, p), vec[t][p].portPri) THEN "INFERIOR_ROOT_ALTERNATE"
  ELSE "OTHER"

-----------------------------------------------------------------------------
(* Recording it.  What the functions do to the flags of tree t at port p   *)
(* is given as an operator on flag sets, u being the tree whose flags they *)
(* are: a CIST message of another region speaks for the MSTIs as well.     *)

Concerns(t, u, p) == u = t \/ (t = CIST /\ ~Comm(p, "rcvdInternal"))

Proposes(t) == rx.role[t] = "DESIGNATED" /\ "proposal" \in rx.flags[t]

RecordProposal(t, u, p, fs) ==
  IF ~Concerns(t, u, p) THEN fs
  ELSE IF Proposes(t) THEN fs \cup {"proposed"}
  ELSE IF u # t THEN fs \ {"proposed"} ELSE fs

SetTcFlags(t, u, p, fs) ==
  IF Concerns(t, u, p) /\ "tc" \in rx.flags[t] THEN fs \cup {"rcvdTc"} ELSE fs

\* an MSTI agreement holds only under the CIST root both sides agree on
SameCistRoot(p) ==
  LET m == vec[CIST][p].msgPri
      w == vec[CIST][p].portPri
  IN  m.root = w.root /\ m.ext = w.ext /\ m.rgn = w.rgn

Agrees(t, p) ==
  /\ Cfg(p, "pointToPoint") /\ "agreement" \in rx.flags[t]
  /\ t # CIST => SameCistRoot(p)

\* fsT: the flags of tree t itself, whose proposing the MSTIs take over
RecordAgreement(t, u, p, fs, fsT) ==
  IF ~Concerns(t, u, p) THEN fs
  ELSE IF Agrees(t, p) THEN (fs \ {"proposing"}) \cup {"agreed"}
  ELSE IF u = t THEN fs \ {"agreed"}
  ELSE (fs \ {"agreed", "proposing"}) \cup (fsT \cap {"proposing"})

RecordDispute(t, u, p, fs) ==
  IF \/ u = t /\ "learning" \in rx.flags[t]
     \/ u # t /\ Concerns(t, u, p)
  THEN (fs \ {"agreed"}) \cup {"disputed"} ELSE fs

RcvdTcAckBits(t) == IF t = CIST /\ "tcAck" \in rx.flags[CIST] THEN {"rcvdTcAck"} ELSE {}

\* setTcFlags runs tcmSm for the MSTIs itself
TcFlagCalls(t, p) ==
  IF t = CIST /\ ~Comm(p, "rcvdInternal") /\ "tc" \in rx.flags[CIST]
  THEN MstiCalls("TCM", p) ELSE <<>>

\* mstp_betterOrSameInfo
BetterOrSame(t, p, newInfoIs) ==
  /\ info[t][p].infoIs = newInfoIs
  /\ LET v == IF newInfoIs = "RECEIVED" THEN vec[t][p].msgPri ELSE vec[t][p].dsnPri
     IN  ~Better(vec[t][p].portPri, v)

\* wrong: any hello time is accepted
WrongRecordedTimes(t, p) ==
  LET m == vec[t][p].msgTimes
  IN  IF t # CIST THEN [vec[t][p].portTimes EXCEPT !.hops = m.hops] ELSE m

\* mstp_recordTimes
RecordedTimes(t, p) ==
  LET m == vec[t][p].msgTimes
  IN  IF t # CIST THEN [vec[t][p].portTimes EXCEPT !.hops = m.hops]
      ELSE [m EXCEPT !.hello = IF @ < 1 THEN 1 ELSE IF @ > HelloMaxSec THEN HelloMaxSec ELSE @]

\* mstp_updtRcvdInfoWhile, given the port times of the CIST and of tree t.  A
\* looped back CIST BPDU is held for a random time, its MSTI messages as long.
InfoWhile(t, p, cist, mine) ==
  IF Comm(p, "rcvdSelfSentPkt")
  THEN IF t = CIST THEN HoldTime ELSE {tmr[CIST][p].rcvdInfoWhile}
  ELSE IF \/ cist.age + 1 <= cist.maxAge /\ ~Comm(p, "rcvdInternal")
          \/ mine.hops > 1 /\ Comm(p, "rcvdInternal")
  THEN {3 * cist.hello} ELSE {0}

-----------------------------------------------------------------------------
PimTo(t, p, s) == fsm' = [fsm EXCEPT ![t][p].pim = s]
PimKeeps == UNCHANGED <<csm, ctmr, bridgeVars, rx, dbVars, envVars>>
\* the flags of port p, in every tree
PortBits(p, flagsOf(_)) == bits' = [u \in Tree |-> [bits[u] EXCEPT ![p] = flagsOf(u)]]

PimDisabled(t, p) ==
  /\ PimEnters(t, p, "DISABLED")
  /\ PimTo(t, p, "DISABLED")
  /\ bits' = SetBits(t, p, {"reselect"},
                     {"rcvdMsg", "proposing", "proposed", "agree", "agreed", "selected"})
  /\ tmr' = [tmr EXCEPT ![t][p].rcvdInfoWhile = 0]
  /\ info' = [info EXCEPT ![t][p].infoIs = "DISABLED"]
  /\ Loop(IF Begin(p) THEN <<>> ELSE <<Call("PRS", t, p)>>)
  /\ PimKeeps /\ UNCHANGED <<cbits, vec>>

OldRgn(p) == root[CIST][Owner[p]].pri.rgn

\* wrong: the roles are not selected again
WrongPimAged(t, p) ==
  /\ PimEnters(t, p, "AGED")
  /\ PimTo(t, p, "AGED")
  /\ info' = [info EXCEPT ![t][p].infoIs = "AGED"]
  /\ bits' = SetBits(t, p, {}, {"selected"})
  /\ Return(IF Begin(p) THEN <<>> ELSE <<Call("PRS", t, p)>>)
  /\ PimKeeps /\ UNCHANGED <<cbits, tmr, vec>>

PimAged(t, p) ==
  /\ PimEnters(t, p, "AGED")
  /\ PimTo(t, p, "AGED")
  /\ info' = [info EXCEPT ![t][p].infoIs = "AGED"]
  /\ bits' = SetBits(t, p, {"reselect"}, {"selected"})
  /\ Return(IF Begin(p) THEN <<>>
            ELSE <<Call("PRS", t, p)>>
                 \o (IF t = CIST THEN <<Rest("PIM_AGED", t, p, OldRgn(p))>> ELSE <<>>))
  /\ PimKeeps /\ UNCHANGED <<cbits, tmr, vec>>

\* mstp_syncMstiPortsWithCist
SyncMstiCalls(p) == MstiCalls("SYNC_MSTI", p)

PimAgedRest(p) ==
  LET now == OldRgn(p)
  IN  /\ Running("PIM_AGED", CIST, p)
      /\ Return(IF \/ now = BridgeId(CIST, Owner[p]) \/ now # Head(stk).v
                   \/ ~Comm(p, "rcvdInternal")
                THEN SyncMstiCalls(p) ELSE <<>>)
      /\ UNCHANGED <<commVars, treeVars, bridgeVars, rx, dbVars, envVars>>

SyncMsti(t, p) ==
  /\ Running("SYNC_MSTI", t, p)
  /\ bits' = SetBits(t, p, {"reselect"}, {"selected"})
  /\ Return(<<Call("PRS", t, p)>>)
  /\ UNCHANGED <<commVars, fsm, tmr, info, vec, bridgeVars, rx, dbVars, envVars>>

UpdatedTimes(t, p) ==
  IF t # CIST THEN vec[t][p].dsnTimes
  ELSE [vec[t][p].dsnTimes EXCEPT
          !.hello = IF root[CIST][Owner[p]].port # NoPort THEN RootTimes(CIST, p).hello
                    ELSE HelloTime]

PimUpdate(t, p) ==
  LET agreed == /\ On(t, p, "agreed") /\ BetterOrSame(t, p, "MINE")
                /\ ~Comm(p, "rcvdSelfSentPkt")
  IN  /\ PimEnters(t, p, "UPDATE")
      /\ PimTo(t, p, "UPDATE")
      /\ bits' = SetBits(t, p, {}, {"proposing", "proposed", "updtInfo"}
                                     \cup (IF agreed THEN {} ELSE {"agreed", "synced"}))
      /\ vec' = [vec EXCEPT ![t][p] = [@ EXCEPT !.portPri = vec[t][p].dsnPri,
                                               !.portTimes = UpdatedTimes(t, p)]]
      /\ info' = [info EXCEPT ![t][p].infoIs = "MINE"]
      /\ cbits' = SetComm(p, {NewInfo(t)}, {})
      /\ Loop(IF Begin(p) THEN <<>> ELSE <<Call("PRT", t, p), Call("PTX", CIST, p)>>)
      /\ PimKeeps /\ UNCHANGED tmr

PimCurrent(t, p) ==
  /\ PimEnters(t, p, "CURRENT")
  /\ PimTo(t, p, "CURRENT")
  /\ LoopIf(fsm[t][p].pim \in {"SUPERIOR_DESIGNATED", "REPEATED_DESIGNATED"}, <<>>)
  /\ PimKeeps /\ UNCHANGED <<cbits, bits, tmr, info, vec>>

-----------------------------------------------------------------------------
\* mstp_rcvInfo; a TCN tells the CIST, and the MSTIs of a topology change
PimReceive(t, p) ==
  LET tcn == t = CIST /\ rx.type = "TCN"
      unusable == Unusable(t, p)
      cBits == IF tcn THEN {"rcvdTcn"}
               ELSE IF ~unusable /\ ~OldRoot(t, p) /\ SelfSent(p) THEN {"rcvdSelfSentPkt"}
               ELSE {}
  IN  /\ PimEnters(t, p, "RECEIVE")
      /\ PimTo(t, p, "RECEIVE")
      /\ info' = [info EXCEPT ![t][p].rcvdInfo = Classified(t, p)]
      /\ vec' = IF unusable THEN vec
                ELSE [vec EXCEPT ![t][p].msgPri = MsgPri(t, p),
                                 ![t][p].msgTimes = IF OldRoot(t, p) THEN OldRootTimes(t, p)
                                                    ELSE MsgTimes(t, p)]
      /\ cbits' = SetComm(p, cBits, IF unusable \/ OldRoot(t, p) THEN {} ELSE {"rcvdSelfSentPkt"})
      /\ bits' = IF tcn THEN [u \in Tree |-> IF u = CIST THEN bits[u]
                                             ELSE [bits[u] EXCEPT ![p] = @ \cup {"rcvdTc"}]]
                 ELSE bits
      /\ Loop(IF tcn THEN TreeCalls("TCM", p) ELSE <<>>)
      /\ PimKeeps /\ UNCHANGED tmr

InfoInternal(p, set) ==
  cbits' = IF Comm(p, "rcvdInternal") THEN SetComm(p, set \cup {"infoInternal"}, {})
           ELSE SetComm(p, set, {"infoInternal"})

\* up to the calls of setTcFlags ...
PimSuperior(t, p) ==
  LET flagsOf(u) ==
        LET fs == IF u = t THEN bits[u][p] \ {"agreed", "proposing"} ELSE bits[u][p]
        IN  SetTcFlags(t, u, p, RecordProposal(t, u, p, fs))
  IN  /\ PimEnters(t, p, "SUPERIOR_DESIGNATED")
      /\ PimTo(t, p, "SUPERIOR_DESIGNATED")
      /\ InfoInternal(p, RcvdTcAckBits(t))
      /\ PortBits(p, flagsOf)
      /\ Loop(TcFlagCalls(t, p) \o <<Call("PIM_RECORD", t, p)>>)
      /\ PimKeeps /\ UNCHANGED <<tmr, info, vec>>

\* ... up to the call of prsSm ...
PimRecord(t, p) ==
  LET mine == RecordedTimes(t, p)
      cist == IF t = CIST THEN mine ELSE vec[CIST][p].portTimes
      fsT == IF BetterOrSame(t, p, "RECEIVED") THEN bits[t][p] ELSE bits[t][p] \ {"agree"}
      agreedT == RecordAgreement(t, t, p, fsT, fsT)
      clear == {"selected"} \cup (IF "agreed" \in agreedT THEN {} ELSE {"synced"})
                 \cup (IF t = CIST THEN {} ELSE {"rcvdMsg"})
      flagsOf(u) == IF u = t THEN (agreedT \ clear) \cup {"reselect"}
                    ELSE RecordAgreement(t, u, p, bits[u][p], agreedT)
  IN  /\ Running("PIM_RECORD", t, p)
      /\ PortBits(p, flagsOf)
      /\ vec' = [vec EXCEPT ![t][p] = [@ EXCEPT !.portPri = vec[t][p].msgPri, !.portTimes = mine]]
      /\ \E w \in InfoWhile(t, p, cist, mine) :
           tmr' = [tmr EXCEPT ![t][p].rcvdInfoWhile = w]
      /\ info' = [info EXCEPT ![t][p].infoIs = "RECEIVED"]
      /\ Return(<<Call("PRS", t, p)>>
                \o (IF t = CIST THEN <<Rest("PIM_SELECTED", t, p, OldRgn(p)), Call("PIM_DONE", t, p)>>
                    ELSE <<Call("TCM", t, p)>>))
      /\ PimKeeps /\ UNCHANGED <<cbits, fsm>>

\* ... up to the calls of syncMstiPortsWithCist, and the end
PimSelected(p) ==
  /\ Running("PIM_SELECTED", CIST, p)
  /\ Return(IF ~Comm(p, "rcvdInternal") \/ OldRgn(p) # Head(stk).v
            THEN SyncMstiCalls(p) ELSE <<>>)
  /\ UNCHANGED <<commVars, treeVars, bridgeVars, rx, dbVars, envVars>>

PimDone(p) ==
  /\ Running("PIM_DONE", CIST, p)
  /\ bits' = SetBits(CIST, p, {}, {"rcvdMsg"})
  /\ Return(<<Call("TCM", CIST, p)>>)
  /\ UNCHANGED <<commVars, fsm, tmr, info, vec, bridgeVars, rx, dbVars, envVars>>

PimRepeated(t, p) ==
  LET fsT == RecordProposal(t, t, p, bits[t][p])
      flagsOf(u) ==
        LET fs == SetTcFlags(t, u, p, RecordProposal(t, u, p, bits[u][p]))
        IN  RecordAgreement(t, u, p, fs, fsT \ (IF Agrees(t, p) THEN {"proposing"} ELSE {}))
              \ (IF u = t THEN {"rcvdMsg"} ELSE {})
  IN  /\ PimEnters(t, p, "REPEATED_DESIGNATED")
      /\ PimTo(t, p, "REPEATED_DESIGNATED")
      /\ InfoInternal(p, RcvdTcAckBits(t))
      /\ PortBits(p, flagsOf)
      /\ \E w \in InfoWhile(t, p, vec[CIST][p].portTimes, vec[t][p].portTimes) :
           tmr' = [tmr EXCEPT ![t][p].rcvdInfoWhile = w]
      /\ Loop(TcFlagCalls(t, p) \o <<Call("PRT", t, p), Call("TCM", t, p)>>)
      /\ PimKeeps /\ UNCHANGED <<info, vec>>

ExternalSync(t, p) ==
  IF t = CIST /\ ~Comm(p, "rcvdInternal") THEN SyncMstiCalls(p) ELSE <<>>

PimInferior(t, p) ==
  LET flagsOf(u) == RecordDispute(t, u, p, bits[u][p]) \ (IF u = t THEN {"rcvdMsg"} ELSE {})
  IN  /\ PimEnters(t, p, "INFERIOR_DESIGNATED")
      /\ PimTo(t, p, "INFERIOR_DESIGNATED")
      /\ PortBits(p, flagsOf)
      /\ Loop(<<Call("PRT", t, p)>> \o ExternalSync(t, p))
      /\ PimKeeps /\ UNCHANGED <<cbits, tmr, info, vec>>

PimNotDesignated(t, p) ==
  LET fsT == bits[t][p] \ (IF Agrees(t, p) THEN {"proposing"} ELSE {})
      flagsOf(u) == SetTcFlags(t, u, p, RecordAgreement(t, u, p, bits[u][p], fsT))
                      \ (IF u = t THEN {"rcvdMsg"} ELSE {})
  IN  /\ PimEnters(t, p, "NOT_DESIGNATED")
      /\ PimTo(t, p, "NOT_DESIGNATED")
      /\ PortBits(p, flagsOf)
      /\ cbits' = SetComm(p, RcvdTcAckBits(t), {})
      /\ Loop(TcFlagCalls(t, p) \o <<Call("PRT", t, p)>> \o ExternalSync(t, p)
              \o <<Call("TCM", t, p)>>)
      /\ PimKeeps /\ UNCHANGED <<tmr, info, vec>>

\* wrong: the message stays pending
WrongPimOther(t, p) ==
  /\ PimEnters(t, p, "OTHER")
  /\ PimTo(t, p, "OTHER")
  /\ Loop(<<>>)
  /\ PimKeeps /\ UNCHANGED <<cbits, bits, tmr, info, vec>>

PimOther(t, p) ==
  /\ PimEnters(t, p, "OTHER")
  /\ PimTo(t, p, "OTHER")
  /\ bits' = SetBits(t, p, {}, {"rcvdMsg"})
  /\ Loop(<<>>)
  /\ PimKeeps /\ UNCHANGED <<cbits, tmr, info, vec>>

PimReturn(t, p) ==
  /\ PimEnters(t, p, Stay)
  /\ Return(<<>>)
  /\ UNCHANGED <<commVars, treeVars, bridgeVars, rx, dbVars, envVars>>

PimSm(t, p) ==
  \/ PimDisabled(t, p) \/ PimAged(t, p) \/ PimUpdate(t, p) \/ PimCurrent(t, p)
  \/ PimReceive(t, p) \/ PimSuperior(t, p) \/ PimRepeated(t, p)
  \/ PimInferior(t, p) \/ PimNotDesignated(t, p) \/ PimOther(t, p)
  \/ PimReturn(t, p) \/ PimRecord(t, p) \/ SyncMsti(t, p)
  \/ (t = CIST /\ (PimAgedRest(p) \/ PimSelected(p) \/ PimDone(p)))
=============================================================================
