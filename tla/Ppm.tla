-------------------------------- MODULE Ppm --------------------------------
(***************************************************************************)
(* Port Protocol Migration machine (mstpd_ppm_sm.c): decides whether the   *)
(* port speaks RSTP/MSTP (sendRSTP) or legacy STP.                         *)
(***************************************************************************)
EXTENDS MstpBase

PpmGeneral(p) ==
  IF Begin(p) /\ csm[p].ppm # "CHECKING_RSTP" THEN "CHECKING_RSTP" ELSE Stay

PpmCheckingRstpCond(p) ==
  IF ctmr[p].mdelayWhile = 0 THEN "SENSING"
  ELSE IF ctmr[p].mdelayWhile # MigrateTime /\ ~Comm(p, "portEnabled")
       THEN "CHECKING_RSTP" ELSE Stay

PpmSelectingStpCond(p) ==
  IF ctmr[p].mdelayWhile = 0 \/ ~Comm(p, "portEnabled") \/ Comm(p, "mcheck")
  THEN "SENSING" ELSE Stay

PpmSensingCond(p) ==
  IF \/ ~Comm(p, "portEnabled")
     \/ Comm(p, "mcheck")
     \/ ForceVersion >= RST /\ ~Comm(p, "sendRSTP") /\ Comm(p, "rcvdRSTP")
  THEN "CHECKING_RSTP"
  ELSE IF Comm(p, "sendRSTP") /\ Comm(p, "rcvdSTP") THEN "SELECTING_STP"
  ELSE Stay

PpmCond(p) ==
  CASE csm[p].ppm = "CHECKING_RSTP" -> PpmCheckingRstpCond(p)
    [] csm[p].ppm = "SELECTING_STP" -> PpmSelectingStpCond(p)
    [] csm[p].ppm = "SENSING"       -> PpmSensingCond(p)
    [] OTHER                        -> Stay

PpmEnters(p, s) ==
  /\ Running("PPM", CIST, p)
  /\ Target(PpmGeneral(p), PpmCond(p)) = s

-----------------------------------------------------------------------------
PpmCheckingRstp(p) ==
  /\ PpmEnters(p, "CHECKING_RSTP")
  /\ csm' = [csm EXCEPT ![p].ppm = "CHECKING_RSTP"]
  /\ cbits' = IF ForceVersion >= RST THEN SetComm(p, {"sendRSTP"}, {"mcheck"})
              ELSE SetComm(p, {}, {"mcheck", "sendRSTP"})
  /\ ctmr' = [ctmr EXCEPT ![p].mdelayWhile = MigrateTime]
  /\ Loop(<<>>)
  /\ UNCHANGED <<treeVars, bridgeVars, rx, dbVars, envVars>>

PpmSelectingStp(p) ==
  /\ PpmEnters(p, "SELECTING_STP")
  /\ csm' = [csm EXCEPT ![p].ppm = "SELECTING_STP"]
  /\ cbits' = SetComm(p, {}, {"sendRSTP"})
  /\ ctmr' = [ctmr EXCEPT ![p].mdelayWhile = MigrateTime]
  /\ Loop(<<>>)
  /\ UNCHANGED <<treeVars, bridgeVars, rx, dbVars, envVars>>

PpmSensing(p) ==
  /\ PpmEnters(p, "SENSING")
  /\ csm' = [csm EXCEPT ![p].ppm = "SENSING"]
  /\ cbits' = SetComm(p, {}, {"rcvdRSTP", "rcvdSTP"})
  /\ Loop(<<>>)
  /\ UNCHANGED <<ctmr, treeVars, bridgeVars, rx, dbVars, envVars>>

PpmReturn(p) ==
  /\ PpmEnters(p, Stay)
  /\ Return(<<>>)
  /\ UNCHANGED <<commVars, treeVars, bridgeVars, rx, dbVars, envVars>>

PpmSm(p) ==
  PpmCheckingRstp(p) \/ PpmSelectingStp(p) \/ PpmSensing(p) \/ PpmReturn(p)
=============================================================================
