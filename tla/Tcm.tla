-------------------------------- MODULE Tcm --------------------------------
(***************************************************************************)
(* Topology Change machine (mstpd_tcm_sm.c).  In state DETECTED, NOTIFIED_ *)
(* TC, ... the port tells its siblings (tcProp) and runs their machines    *)
(* one after the other; a sibling that detects a change of its own tells   *)
(* this port in turn, while this call has not returned.                    *)
(* rcvdTcn, rcvdTcAck and tcAck are of the port and concern the CIST only. *)
(***************************************************************************)
EXTENDS MstpBase

ActiveRole == {"ROOT", "DESIGNATED", "MASTER"}

RcvdTcn(t, p) == t = CIST /\ Comm(p, "rcvdTcn")
RcvdTcAck(t, p) == t = CIST /\ Comm(p, "rcvdTcAck")

TcmGeneral(t, p) ==
  IF Begin(p) /\ fsm[t][p].tcm # "INACTIVE" THEN "INACTIVE" ELSE Stay

TcmInactiveCond(t, p) == IF On(t, p, "learn") THEN "LEARNING" ELSE Stay

TcmLearningCond(t, p) ==
  IF /\ info[t][p].role \in ActiveRole
     /\ On(t, p, "forward") /\ ~Comm(p, "operEdge") THEN "DETECTED"
  ELSE IF \/ On(t, p, "rcvdTc") \/ RcvdTcn(t, p)
          \/ RcvdTcAck(t, p) \/ On(t, p, "tcProp") THEN "LEARNING"
  ELSE IF /\ info[t][p].role \notin ActiveRole
          /\ ~On(t, p, "learn") /\ ~On(t, p, "learning") THEN "INACTIVE"
  ELSE Stay

TcmActiveCond(t, p) ==
  IF info[t][p].role \notin ActiveRole \/ Comm(p, "operEdge") THEN "LEARNING"
  ELSE IF RcvdTcn(t, p) THEN "NOTIFIED_TCN"
  ELSE IF On(t, p, "rcvdTc") THEN "NOTIFIED_TC"
  ELSE IF On(t, p, "tcProp") THEN "PROPAGATING"
  ELSE IF RcvdTcAck(t, p) THEN "ACKNOWLEDGED"
  ELSE Stay

TcmCond(t, p) ==
  CASE fsm[t][p].tcm = "UNKNOWN"      -> Stay
    [] fsm[t][p].tcm = "INACTIVE"     -> TcmInactiveCond(t, p)
    [] fsm[t][p].tcm = "LEARNING"     -> TcmLearningCond(t, p)
    [] fsm[t][p].tcm = "ACTIVE"       -> TcmActiveCond(t, p)
    [] fsm[t][p].tcm = "NOTIFIED_TCN" -> "NOTIFIED_TC"
    [] OTHER                          -> "ACTIVE"

TcmEnters(t, p, s) ==
  /\ Running("TCM", t, p)
  /\ Target(TcmGeneral(t, p), TcmCond(t, p)) = s

-----------------------------------------------------------------------------
\* mstp_newTcWhile: a running tcWhile is not restarted
NewTcWhile(t, p) ==
  IF tmr[t][p].tcWhile # 0 THEN tmr[t][p].tcWhile
  ELSE IF Comm(p, "sendRSTP") THEN vec[CIST][p].portTimes.hello + 1
  ELSE RootTimes(CIST, p).maxAge + RootTimes(CIST, p).fwd

NewTcInfo(t, p) ==
  IF tmr[t][p].tcWhile = 0 /\ Comm(p, "sendRSTP") THEN {NewInfo(t)} ELSE {}

\* wrong: the last sibling is forgotten
WrongTcPropCalls(t, p) ==
  LET lps == SiblingSeq(p)
  IN  [i \in 1..Len(lps) - 1 |-> Call("TC_PROP", t, lps[i])]

\* mstp_setTcPropTree
TcPropCalls(t, p) ==
  IF Cfg(p, "restrictedTcn") THEN <<>>
  ELSE LET lps == SiblingSeq(p)
       IN  [i \in DOMAIN lps |-> Call("TC_PROP", t, lps[i])]

\* mstp_flush, which only a port that is no edge port calls
Flush(t, p) ==
  IF Comm(p, "operEdge") THEN UNCHANGED dbVars
  ELSE /\ flushReq' = [flushReq EXCEPT ![t][p] = TRUE]
       /\ treeQ' = [treeQ EXCEPT ![Owner[p]] = Enqueued(@, t)]
       /\ UNCHANGED <<pend, db, blockAll>>

TcmTo(t, p, s) == fsm' = [fsm EXCEPT ![t][p].tcm = s]
TcmKeeps == UNCHANGED <<csm, ctmr, info, vec, bridgeVars, rx, envVars>>

TcmInactive(t, p) ==
  /\ TcmEnters(t, p, "INACTIVE")
  /\ TcmTo(t, p, "INACTIVE")
  /\ Flush(t, p)
  /\ tmr' = [tmr EXCEPT ![t][p].tcWhile = 0]
  /\ cbits' = IF t = CIST THEN SetComm(p, {}, {"tcAck", "rcvdTcn"}) ELSE cbits
  /\ LoopIf(ByGeneral(TcmGeneral(t, p)), <<>>)
  /\ TcmKeeps /\ UNCHANGED bits

TcmLearning(t, p) ==
  /\ TcmEnters(t, p, "LEARNING")
  /\ TcmTo(t, p, "LEARNING")
  /\ cbits' = IF t = CIST THEN SetComm(p, {}, {"rcvdTcn", "rcvdTcAck"}) ELSE cbits
  /\ bits' = SetBits(t, p, {}, {"rcvdTc", "tcProp"})
  /\ LoopIf(fsm[t][p].tcm # "LEARNING", <<>>)
  /\ TcmKeeps /\ UNCHANGED <<tmr, dbVars>>

\* newInfo is set after the propagation in the code: the nested calls transmit
\* on other ports only.
TcmDetected(t, p) ==
  /\ TcmEnters(t, p, "DETECTED")
  /\ TcmTo(t, p, "DETECTED")
  /\ tmr' = [tmr EXCEPT ![t][p].tcWhile = NewTcWhile(t, p)]
  /\ cbits' = SetComm(p, {NewInfo(t)}, {})
  /\ Loop(TcPropCalls(t, p) \o <<Call("PTX", CIST, p)>>)
  /\ TcmKeeps /\ UNCHANGED <<bits, dbVars>>

TcmActive(t, p) ==
  /\ TcmEnters(t, p, "ACTIVE")
  /\ TcmTo(t, p, "ACTIVE")
  /\ Loop(<<>>)
  /\ TcmKeeps /\ UNCHANGED <<cbits, bits, tmr, dbVars>>

TcmNotifiedTcn(t, p) ==
  /\ TcmEnters(t, p, "NOTIFIED_TCN")
  /\ TcmTo(t, p, "NOTIFIED_TCN")
  /\ tmr' = [tmr EXCEPT ![t][p].tcWhile = NewTcWhile(t, p)]
  /\ cbits' = SetComm(p, NewTcInfo(t, p), {})
  /\ Loop(<<>>)
  /\ TcmKeeps /\ UNCHANGED <<bits, dbVars>>

TcmNotifiedTc(t, p) ==
  /\ TcmEnters(t, p, "NOTIFIED_TC")
  /\ TcmTo(t, p, "NOTIFIED_TC")
  /\ cbits' = IF t # CIST THEN cbits
              ELSE IF info[CIST][p].role = "DESIGNATED"
              THEN SetComm(p, {"tcAck"}, {"rcvdTcn"})
              ELSE SetComm(p, {}, {"rcvdTcn"})
  /\ bits' = SetBits(t, p, {}, {"rcvdTc"})
  /\ Loop(TcPropCalls(t, p))
  /\ TcmKeeps /\ UNCHANGED <<tmr, dbVars>>

TcmPropagating(t, p) ==
  /\ TcmEnters(t, p, "PROPAGATING")
  /\ TcmTo(t, p, "PROPAGATING")
  /\ Flush(t, p)
  /\ tmr' = [tmr EXCEPT ![t][p].tcWhile = NewTcWhile(t, p)]
  /\ cbits' = SetComm(p, NewTcInfo(t, p), {})
  /\ bits' = SetBits(t, p, {}, {"tcProp"})
  /\ Loop(<<>>)
  /\ TcmKeeps

TcmAcknowledged(t, p) ==
  /\ TcmEnters(t, p, "ACKNOWLEDGED")
  /\ TcmTo(t, p, "ACKNOWLEDGED")
  /\ tmr' = [tmr EXCEPT ![t][p].tcWhile = 0]
  /\ cbits' = SetComm(p, {}, {"rcvdTcAck"})
  /\ Loop(<<>>)
  /\ TcmKeeps /\ UNCHANGED <<bits, dbVars>>

TcmReturn(t, p) ==
  /\ TcmEnters(t, p, Stay)
  /\ Return(<<>>)
  /\ UNCHANGED <<commVars, treeVars, bridgeVars, rx, dbVars, envVars>>

\* one turn of mstp_setTcPropTree's loop: p is the sibling
TcProp(t, p) ==
  /\ Running("TC_PROP", t, p)
  /\ bits' = SetBits(t, p, {"tcProp"}, {})
  /\ Return(<<Call("TCM", t, p)>>)
  /\ UNCHANGED <<commVars, fsm, tmr, info, vec, bridgeVars, rx, dbVars, envVars>>

TcmSm(t, p) ==
  \/ TcmInactive(t, p) \/ TcmLearning(t, p) \/ TcmDetected(t, p)
  \/ TcmActive(t, p) \/ TcmNotifiedTcn(t, p) \/ TcmNotifiedTc(t, p)
  \/ TcmPropagating(t, p) \/ TcmAcknowledged(t, p) \/ TcmReturn(t, p)
  \/ TcProp(t, p)
=============================================================================
