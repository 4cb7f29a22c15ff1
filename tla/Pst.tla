-------------------------------- MODULE Pst --------------------------------
(***************************************************************************)
(* Port State Transition machine (mstpd_pst_sm.c): turns learn and forward *)
(* into learning and forwarding and queues the change for the database     *)
(* (mstp_updtMstiPortStateChgMsg in mstpd_util.c).  No loop: one general   *)
(* and one state condition per call.                                       *)
(***************************************************************************)
EXTENDS MstpBase

PstGeneral(t, p) ==
  IF Begin(p) /\ fsm[t][p].pst # "DISCARDING" THEN "DISCARDING" ELSE Stay

PstCond(t, p) ==
  CASE fsm[t][p].pst = "DISCARDING" ->
         IF On(t, p, "learn") THEN "LEARNING" ELSE Stay
    [] fsm[t][p].pst = "LEARNING" ->
         IF On(t, p, "forward") THEN "FORWARDING"
         ELSE IF ~On(t, p, "learn") THEN "DISCARDING" ELSE Stay
    [] fsm[t][p].pst = "FORWARDING" ->
         IF ~On(t, p, "forward") THEN "DISCARDING" ELSE Stay
    [] OTHER -> Stay

PstEnters(t, p, s) ==
  /\ Running("PST", t, p)
  /\ Target(PstGeneral(t, p), PstCond(t, p)) = s

\* mstp_updtMstiPortStateChgMsg: the port joins one port map of the message of
\* its tree and leaves the others
Queue(t, p, change) ==
  /\ pend' = [pend EXCEPT ![t][p] = change]
  /\ treeQ' = [treeQ EXCEPT ![Owner[p]] = Enqueued(@, t)]
  /\ UNCHANGED <<flushReq, db, blockAll>>

PstMoves(t, p, s, set, clr) ==
  /\ fsm' = [fsm EXCEPT ![t][p].pst = s]
  /\ bits' = SetBits(t, p, set, clr)
  /\ UNCHANGED <<commVars, tmr, info, vec, bridgeVars, rx, envVars>>

\* wrong: the database is told of the states that pass traffic only
WrongPstDiscarding(t, p) ==
  /\ PstEnters(t, p, "DISCARDING")
  /\ PstMoves(t, p, "DISCARDING", {}, {"learning", "forwarding"})
  /\ LoopIf(ByGeneral(PstGeneral(t, p)), <<>>)
  /\ UNCHANGED dbVars

PstDiscarding(t, p) ==
  /\ PstEnters(t, p, "DISCARDING")
  /\ PstMoves(t, p, "DISCARDING", {}, {"learning", "forwarding"})
  /\ Queue(t, p, "Blk")
  /\ LoopIf(ByGeneral(PstGeneral(t, p)), <<>>)

PstLearning(t, p) ==
  /\ PstEnters(t, p, "LEARNING")
  /\ PstMoves(t, p, "LEARNING", {"learning"}, {})
  /\ Queue(t, p, "Lrn")
  /\ Return(<<Call("TCM", t, p)>>)

PstForwarding(t, p) ==
  /\ PstEnters(t, p, "FORWARDING")
  /\ PstMoves(t, p, "FORWARDING", {"forwarding"}, {})
  /\ Queue(t, p, "Fwd")
  /\ Return(<<Call("TCM", t, p)>>)

PstReturn(t, p) ==
  /\ PstEnters(t, p, Stay)
  /\ Return(<<>>)
  /\ UNCHANGED <<commVars, treeVars, bridgeVars, rx, dbVars, envVars>>

PstSm(t, p) == \/ PstDiscarding(t, p) \/ PstLearning(t, p)
               \/ PstForwarding(t, p) \/ PstReturn(t, p)
=============================================================================
