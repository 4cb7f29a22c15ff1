-------------------------------- MODULE Bdm --------------------------------
(***************************************************************************)
(* Bridge Detection machine (mstpd_bdm_sm.c): operEdge.  It has no loop:   *)
(* after the general condition one state condition is evaluated.           *)
(***************************************************************************)
EXTENDS MstpBase

BdmGeneral(p) ==
  IF ~Begin(p) THEN Stay ELSE IF Cfg(p, "adminEdge") THEN "EDGE" ELSE "NOT_EDGE"

BdmEdgeCond(p) ==
  IF \/ ~Comm(p, "portEnabled") /\ ~Cfg(p, "adminEdge")
     \/ ~Comm(p, "operEdge")
  THEN "NOT_EDGE" ELSE Stay

BdmNotEdgeCond(p) ==
  IF \/ ~Comm(p, "portEnabled") /\ Cfg(p, "adminEdge")
     \/ /\ ctmr[p].edgeDelayWhile = 0 /\ Cfg(p, "autoEdge")
        /\ Comm(p, "sendRSTP") /\ On(CIST, p, "proposing")
  THEN "EDGE" ELSE Stay

BdmCond(p) ==
  CASE csm[p].bdm = "EDGE"     -> BdmEdgeCond(p)
    [] csm[p].bdm = "NOT_EDGE" -> BdmNotEdgeCond(p)
    [] OTHER                   -> Stay

BdmEnters(p, s) ==
  /\ Running("BDM", CIST, p)
  /\ Target(BdmGeneral(p), BdmCond(p)) = s

\* prtSm and tcmSm for the CIST and then every MSTI, unless initialising
BdmCalls(p) ==
  IF Begin(p) THEN <<>> ELSE Alternate(TreeCalls("PRT", p), TreeCalls("TCM", p))

BdmEdge(p) ==
  /\ BdmEnters(p, "EDGE")
  /\ csm' = [csm EXCEPT ![p].bdm = "EDGE"]
  /\ cbits' = SetComm(p, {"operEdge"}, {})
  /\ LoopIf(ByGeneral(BdmGeneral(p)), BdmCalls(p))
  /\ UNCHANGED <<ctmr, treeVars, bridgeVars, rx, dbVars, envVars>>

BdmNotEdge(p) ==
  /\ BdmEnters(p, "NOT_EDGE")
  /\ csm' = [csm EXCEPT ![p].bdm = "NOT_EDGE"]
  /\ cbits' = SetComm(p, {}, {"operEdge"})
  /\ LoopIf(ByGeneral(BdmGeneral(p)), BdmCalls(p))
  /\ UNCHANGED <<ctmr, treeVars, bridgeVars, rx, dbVars, envVars>>

BdmReturn(p) ==
  /\ BdmEnters(p, Stay)
  /\ Return(<<>>)
  /\ UNCHANGED <<commVars, treeVars, bridgeVars, rx, dbVars, envVars>>

BdmSm(p) == BdmEdge(p) \/ BdmNotEdge(p) \/ BdmReturn(p)
=============================================================================
