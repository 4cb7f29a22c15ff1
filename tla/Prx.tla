-------------------------------- MODULE Prx --------------------------------
(***************************************************************************)
(* Port Receive machine (mstpd_prx_sm.c): takes a BPDU apart, marks the    *)
(* trees it carries a message for (rcvdMsg) and runs Port Information for  *)
(* each of them.                                                           *)
(***************************************************************************)
EXTENDS MstpBase

\* Not guarded by the current state: DISCARD may be re-entered.
PrxGeneral(p) ==
  IF \/ Begin(p)
     \/ /\ Comm(p, "rcvdBPDU") \/ ctmr[p].edgeDelayWhile # MigrateTime
        /\ ~Comm(p, "portEnabled")
  THEN "DISCARD" ELSE Stay

RcvdAnyMsg(p) == \E t \in Tree : On(t, p, "rcvdMsg")

PrxCond(p) ==
  IF /\ Comm(p, "rcvdBPDU") /\ Comm(p, "portEnabled")
     /\ \/ csm[p].prx = "DISCARD"
        \/ csm[p].prx = "RECEIVE" /\ ~RcvdAnyMsg(p)
  THEN "RECEIVE" ELSE Stay

PrxEnters(p, s) ==
  /\ Running("PRX", CIST, p)
  /\ Target(PrxGeneral(p), PrxCond(p)) = s

-----------------------------------------------------------------------------
PrxDiscard(p) ==
  /\ PrxEnters(p, "DISCARD")
  /\ csm' = [csm EXCEPT ![p].prx = "DISCARD"]
  /\ cbits' = SetComm(p, {}, {"rcvdBPDU", "rcvdRSTP", "rcvdSTP"})
  /\ bits' = [t \in Tree |-> [bits[t] EXCEPT ![p] = @ \ {"rcvdMsg"}]]
  /\ ctmr' = [ctmr EXCEPT ![p].edgeDelayWhile = MigrateTime]
  /\ Loop(IF Begin(p) THEN <<>> ELSE <<Call("BDM", CIST, p), Call("PPM", CIST, p)>>)
  /\ UNCHANGED <<fsm, tmr, info, vec, bridgeVars, rx, dbVars, envVars>>

\* mstp_updtBPDUVersion
VersionBit == IF rx.type \in {"RST", "MST"} THEN "rcvdRSTP" ELSE "rcvdSTP"

\* mstp_fromSameRegion, just after mstp_updtBPDUVersion has set rcvdRSTP
FromSameRegion(p) == MyRegionBpdu(p)

\* mstp_setRcvdMsgs: the trees the BPDU has a message for
MsgTrees(p) == IF FromSameRegion(p) THEN {CIST} \cup rx.trees ELSE {CIST}

\* a message lifts the loop guard block of its tree
GuardLift(p) == IF Cfg(p, "loopGuard") THEN {"loopInconsistent"} ELSE {}

\* pimSm for every MSTI message of the BPDU, in the order they are carried
MsgCalls(p) ==
  LET ts == Only(MstiSeq, MsgTrees(p))
  IN  [i \in DOMAIN ts |-> Call("PRX_MSTI", ts[i], p)]

\* rcvdBPDU is cleared again after bdmSm, which leaves it alone.
PrxReceive(p) ==
  /\ PrxEnters(p, "RECEIVE")
  /\ csm' = [csm EXCEPT ![p].prx = "RECEIVE"]
  /\ cbits' = IF FromSameRegion(p)
              THEN SetComm(p, {VersionBit, "rcvdInternal"}, {"operEdge", "rcvdBPDU"})
              ELSE SetComm(p, {VersionBit}, {"operEdge", "rcvdBPDU", "rcvdInternal"})
  /\ bits' = [t \in Tree |->
               IF t \notin MsgTrees(p) THEN bits[t]
               ELSE [bits[t] EXCEPT ![p] =
                      {"rcvdMsg"} \cup (IF t = CIST THEN @ \ GuardLift(p) ELSE @)]]
  /\ ctmr' = [ctmr EXCEPT ![p].edgeDelayWhile = MigrateTime + 1]
  /\ Loop(<<Call("BDM", CIST, p), Call("PPM", CIST, p), CallPkt("PIM", CIST, p)>>
          \o MsgCalls(p))
  /\ UNCHANGED <<fsm, tmr, info, vec, bridgeVars, rx, dbVars, envVars>>

\* one turn of the loop over the MSTI messages
PrxMsti(t, p) ==
  /\ Running("PRX_MSTI", t, p)
  /\ bits' = SetBits(t, p, {}, GuardLift(p))
  /\ Return(<<CallPkt("PIM", t, p)>>)
  /\ UNCHANGED <<commVars, fsm, tmr, info, vec, bridgeVars, rx, dbVars, envVars>>

PrxReturn(p) ==
  /\ PrxEnters(p, Stay)
  /\ Return(<<>>)
  /\ UNCHANGED <<commVars, treeVars, bridgeVars, rx, dbVars, envVars>>

PrxSm(p) == \/ PrxDiscard(p) \/ PrxReceive(p) \/ PrxReturn(p)
            \/ \E t \in Msti : PrxMsti(t, p)
=============================================================================
