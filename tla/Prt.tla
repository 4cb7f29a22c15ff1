-------------------------------- MODULE Prt --------------------------------
(***************************************************************************)
(* Port Role Transitions machine (mstpd_prt_sm.c): moves a port into the   *)
(* role that was selected for it and, by the synchronisation handshakes    *)
(* (sync/synced, proposed/agreed, reRoot/rrWhile) of all ports of a tree,  *)
(* decides when it may learn and forward.                                  *)
(***************************************************************************)
EXTENDS MstpBase

-----------------------------------------------------------------------------
(* Conditions over the ports of the bridge                                 *)

Settled(t, p) == On(t, p, "selected") /\ ~On(t, p, "updtInfo")

\* mstp_AllSyncedCondition
MustBeSynced(t, p) ==
  CASE info[t][p].role = "ALTERNATE" ->
         {q \in PortsOf(Owner[p]) : info[t][q].role # "ROOT"}
    [] info[t][p].role \in {"ROOT", "DESIGNATED", "MASTER"} -> Siblings(p)
    [] OTHER -> {}

\* wrong: the other ports are not asked
WrongAllSynced(t, p) ==
  /\ info[t][p].role = info[t][p].selectedRole /\ ~On(t, p, "updtInfo")
  /\ \A q \in PortsOf(Owner[p]) : On(t, q, "selected")

AllSynced(t, p) ==
  /\ info[t][p].role = info[t][p].selectedRole /\ ~On(t, p, "updtInfo")
  /\ \A q \in PortsOf(Owner[p]) : On(t, q, "selected")
  /\ \A q \in MustBeSynced(t, p) : On(t, q, "synced")

\* mstp_ReRootedCondition
ReRooted(t, p) == \A q \in Siblings(p) : tmr[t][q].rrWhile = 0

NotMoving(t, p) == ~On(t, p, "learning") /\ ~On(t, p, "forwarding")

-----------------------------------------------------------------------------
RolePort == [r \in {"DISABLED", "MASTER", "ROOT", "DESIGNATED", "ALTERNATE", "BACKUP"} |->
               CASE r = "DISABLED" -> "DISABLE_PORT"
                 [] r \in {"ALTERNATE", "BACKUP"} -> "BLOCK_PORT"
                 [] r = "MASTER" -> "MASTER_PORT"
                 [] r = "ROOT" -> "ROOT_PORT"
                 [] r = "DESIGNATED" -> "DESIGNATED_PORT"]

PrtGeneral(t, p) ==
  IF Begin(p)
  THEN IF fsm[t][p].prt # "INIT_PORT" THEN "INIT_PORT" ELSE Stay
  ELSE IF /\ info[t][p].role # info[t][p].selectedRole
          /\ info[t][p].selectedRole \in DOMAIN RolePort /\ Settled(t, p)
  THEN RolePort[info[t][p].selectedRole] ELSE Stay

\* conditions the Master and the Designated port share
Syncs(t, p) ==
  \/ ~On(t, p, "synced") /\ (NotMoving(t, p) \/ On(t, p, "agreed") \/ Comm(p, "operEdge"))
  \/ On(t, p, "synced") /\ On(t, p, "sync")

Retires(t, p) == On(t, p, "reRoot") /\ tmr[t][p].rrWhile = 0

Discards(t, p) ==
  /\ \/ On(t, p, "sync") /\ ~On(t, p, "synced")
     \/ On(t, p, "reRoot") /\ tmr[t][p].rrWhile # 0
     \/ On(t, p, "disputed")
  /\ ~Comm(p, "operEdge")
  /\ On(t, p, "learn") \/ On(t, p, "forward")

\* once it may proceed, a port learns first and forwards next
Advance(t, p, may, toLearn, toForward) ==
  IF may /\ ~On(t, p, "learn") THEN toLearn
  ELSE IF may /\ ~On(t, p, "forward") THEN toForward
  ELSE Stay

RootMayAdvance(t, p) ==
  \/ tmr[t][p].fdWhile = 0
  \/ ReRooted(t, p) /\ tmr[t][p].rbWhile = 0 /\ ForceVersion >= RST

DesignatedMayAdvance(t, p) ==
  /\ tmr[t][p].fdWhile = 0 \/ On(t, p, "agreed") \/ Comm(p, "operEdge")
  /\ tmr[t][p].rrWhile = 0 \/ ~On(t, p, "reRoot")
  /\ ~On(t, p, "sync")

Agreement(t, p) == \/ AllSynced(t, p) /\ ~On(t, p, "agree")
                   \/ On(t, p, "proposed") /\ On(t, p, "agree")

PrtMasterCond(t, p) ==
  IF On(t, p, "proposed") /\ ~On(t, p, "agree") THEN "MASTER_PROPOSED"
  ELSE IF Agreement(t, p) THEN "MASTER_AGREED"
  ELSE IF Syncs(t, p) THEN "MASTER_SYNCED"
  ELSE IF Retires(t, p) THEN "MASTER_RETIRED"
  ELSE IF Discards(t, p) THEN "MASTER_DISCARD"
  ELSE Advance(t, p, tmr[t][p].fdWhile = 0 \/ AllSynced(t, p),
               "MASTER_LEARN", "MASTER_FORWARD")

PrtRootCond(t, p) ==
  IF On(t, p, "proposed") /\ ~On(t, p, "agree") THEN "ROOT_PROPOSED"
  ELSE IF Agreement(t, p) THEN "ROOT_AGREED"
  ELSE IF \/ On(t, p, "agreed") /\ ~On(t, p, "synced")
          \/ On(t, p, "sync") /\ On(t, p, "synced") THEN "ROOT_SYNCED"
  ELSE IF ~On(t, p, "forward") /\ ~On(t, p, "reRoot") THEN "REROOT"
  ELSE IF tmr[t][p].rrWhile # RootTimes(CIST, p).fwd THEN "ROOT_PORT"
  ELSE IF On(t, p, "reRoot") /\ On(t, p, "forward") THEN "REROOTED"
  ELSE Advance(t, p, RootMayAdvance(t, p), "ROOT_LEARN", "ROOT_FORWARD")

PrtDesignatedCond(t, p) ==
  IF /\ ~On(t, p, "forward") /\ ~On(t, p, "agreed") /\ ~On(t, p, "proposing")
     /\ ~Comm(p, "operEdge") THEN "DESIGNATED_PROPOSE"
  ELSE IF AllSynced(t, p) /\ (On(t, p, "proposed") \/ ~On(t, p, "agree"))
  THEN "DESIGNATED_AGREED"
  ELSE IF Syncs(t, p) THEN "DESIGNATED_SYNCED"
  ELSE IF Retires(t, p) THEN "DESIGNATED_RETIRED"
  ELSE IF Discards(t, p) THEN "DESIGNATED_DISCARD"
  ELSE Advance(t, p, DesignatedMayAdvance(t, p), "DESIGNATED_LEARN", "DESIGNATED_FORWARD")

PrtAlternateCond(t, p) ==
  IF On(t, p, "proposed") /\ ~On(t, p, "agree") THEN "ALTERNATE_PROPOSED"
  ELSE IF Agreement(t, p) THEN "ALTERNATE_AGREED"
  ELSE IF \/ tmr[t][p].fdWhile # ForwardDelay(p)
          \/ On(t, p, "sync") \/ On(t, p, "reRoot") \/ ~On(t, p, "synced")
  THEN "ALTERNATE_PORT"
  ELSE IF tmr[t][p].rbWhile # 2 * HelloTime /\ info[t][p].role = "BACKUP"
  THEN "BACKUP_PORT" ELSE Stay

PrtDisabledCond(t, p) ==
  IF \/ tmr[t][p].fdWhile # RootTimes(CIST, p).maxAge
     \/ On(t, p, "sync") \/ On(t, p, "reRoot") \/ ~On(t, p, "synced")
  THEN "DISABLED_PORT" ELSE Stay

\* the states that are left unconditionally, for the role they belong to
MasterStep == {"MASTER_PROPOSED", "MASTER_AGREED", "MASTER_SYNCED", "MASTER_RETIRED",
               "MASTER_FORWARD", "MASTER_LEARN", "MASTER_DISCARD"}
RootStep == {"ROOT_PROPOSED", "ROOT_AGREED", "ROOT_SYNCED", "REROOT", "ROOT_FORWARD",
             "ROOT_LEARN", "REROOTED"}
DesignatedStep == {"DESIGNATED_PROPOSE", "DESIGNATED_AGREED", "DESIGNATED_SYNCED",
                   "DESIGNATED_RETIRED", "DESIGNATED_FORWARD", "DESIGNATED_LEARN",
                   "DESIGNATED_DISCARD"}
AlternateStep == {"ALTERNATE_PROPOSED", "ALTERNATE_AGREED", "BACKUP_PORT"}

PrtCond(t, p) ==
  LET s == fsm[t][p].prt
  IN  CASE s = "UNKNOWN" -> Stay
        [] s = "INIT_PORT" -> "DISABLE_PORT"
        [] s = "DISABLE_PORT" ->
             IF Settled(t, p) /\ NotMoving(t, p) THEN "DISABLED_PORT" ELSE Stay
        [] s = "BLOCK_PORT" ->
             IF Settled(t, p) /\ NotMoving(t, p) THEN "ALTERNATE_PORT" ELSE Stay
        [] s = "DISABLED_PORT"   -> IF Settled(t, p) THEN PrtDisabledCond(t, p) ELSE Stay
        [] s = "MASTER_PORT"     -> IF Settled(t, p) THEN PrtMasterCond(t, p) ELSE Stay
        [] s = "ROOT_PORT"       -> IF Settled(t, p) THEN PrtRootCond(t, p) ELSE Stay
        [] s = "DESIGNATED_PORT" -> IF Settled(t, p) THEN PrtDesignatedCond(t, p) ELSE Stay
        [] s = "ALTERNATE_PORT"  -> IF Settled(t, p) THEN PrtAlternateCond(t, p) ELSE Stay
        [] s \in MasterStep    -> "MASTER_PORT"
        [] s \in RootStep      -> "ROOT_PORT"
        [] s \in AlternateStep -> "ALTERNATE_PORT"
        [] s \in DesignatedStep -> "DESIGNATED_PORT"

PrtEnters(t, p, s) ==
  /\ Running("PRT", t, p)
  /\ Target(PrtGeneral(t, p), PrtCond(t, p)) = s

\* the states whose condition functions end the do-while
LastStep == {"DISABLE_PORT", "DISABLED_PORT", "BLOCK_PORT", "MASTER_FORWARD",
             "DESIGNATED_FORWARD"}

-----------------------------------------------------------------------------
(* State actions.  Every one of them changes flags and timers of its port  *)
(* and goes on looping, or not, after some calls.                          *)

PrtTo(t, p, s, calls) ==
  /\ PrtEnters(t, p, s)
  /\ fsm' = [fsm EXCEPT ![t][p].prt = s]
  /\ LoopIf(ByGeneral(PrtGeneral(t, p)) \/ fsm[t][p].prt \notin LastStep, calls)
  /\ UNCHANGED <<csm, vec, bridgeVars, rx, dbVars, envVars>>

Flags(t, p, set, clr) == bits' = SetBits(t, p, set, clr)
Timers(t, p, timers) == tmr' = [tmr EXCEPT ![t][p] = timers]

\* mstp_setSyncTree, mstp_setReRootTree
WholeTree(t, p, flag) ==
  [bits EXCEPT ![t] = [q \in Port |-> IF Owner[q] = Owner[p] THEN @[q] \cup {flag} ELSE @[q]]]

\* the port takes the role selected for it
TakesRole(t, p) == info' = [info EXCEPT ![t][p].role = info[t][p].selectedRole]

Pst(t, p) == <<Call("PST", t, p)>>
PstTcm(t, p) == IF Begin(p) THEN <<>> ELSE <<Call("PST", t, p), Call("TCM", t, p)>>

PrtInitPort(t, p) ==
  /\ PrtTo(t, p, "INIT_PORT", PstTcm(t, p))
  /\ info' = [info EXCEPT ![t][p].role = "DISABLED"]
  /\ Flags(t, p, {"sync", "reRoot"}, {"learn", "forward", "synced"})
  /\ Timers(t, p, [tmr[t][p] EXCEPT !.rrWhile = RootTimes(CIST, p).fwd,
                                    !.fdWhile = RootTimes(CIST, p).maxAge,
                                    !.rbWhile = 0])
  /\ UNCHANGED <<cbits, ctmr>>

\* wrong: forward stays set
WrongPrtStops(t, p, s) ==
  /\ PrtTo(t, p, s, PstTcm(t, p))
  /\ TakesRole(t, p)
  /\ Flags(t, p, {}, {"learn"})
  /\ UNCHANGED <<cbits, ctmr, tmr>>

\* DISABLE_PORT and BLOCK_PORT
PrtStops(t, p, s) ==
  /\ PrtTo(t, p, s, PstTcm(t, p))
  /\ TakesRole(t, p)
  /\ Flags(t, p, {}, {"learn", "forward"})
  /\ UNCHANGED <<cbits, ctmr, tmr>>

PrtDisablePort(t, p) == PrtStops(t, p, "DISABLE_PORT")
PrtBlockPort(t, p) == PrtStops(t, p, "BLOCK_PORT")

\* DISABLED_PORT and ALTERNATE_PORT
PrtRests(t, p, s, delay) ==
  /\ PrtTo(t, p, s, <<>>)
  /\ Flags(t, p, {"synced"}, {"sync", "reRoot"})
  /\ Timers(t, p, [tmr[t][p] EXCEPT !.fdWhile = delay, !.rrWhile = 0])
  /\ UNCHANGED <<cbits, ctmr, info>>

PrtDisabledPort(t, p) == PrtRests(t, p, "DISABLED_PORT", RootTimes(CIST, p).maxAge)
PrtAlternatePort(t, p) == PrtRests(t, p, "ALTERNATE_PORT", ForwardDelay(p))

PrtBackupPort(t, p) ==
  /\ PrtTo(t, p, "BACKUP_PORT", <<>>)
  /\ Timers(t, p, [tmr[t][p] EXCEPT !.rbWhile = 2 * HelloTime])
  /\ UNCHANGED <<cbits, ctmr, info, bits>>

-----------------------------------------------------------------------------
PrtMasterPort(t, p) ==
  /\ PrtTo(t, p, "MASTER_PORT", <<>>)
  /\ TakesRole(t, p)
  /\ UNCHANGED <<cbits, ctmr, bits, tmr>>

PrtDesignatedPort(t, p) ==
  /\ PrtTo(t, p, "DESIGNATED_PORT", <<>>)
  /\ TakesRole(t, p)
  /\ UNCHANGED <<cbits, ctmr, bits, tmr>>

PrtRootPort(t, p) ==
  /\ PrtTo(t, p, "ROOT_PORT", <<>>)
  /\ TakesRole(t, p)
  /\ Timers(t, p, [tmr[t][p] EXCEPT !.rrWhile = RootTimes(CIST, p).fwd])
  /\ UNCHANGED <<cbits, ctmr, bits>>

\* a Designated port proposes to its neighbour
PrtPropose(t, p) ==
  /\ PrtTo(t, p, "DESIGNATED_PROPOSE", <<Call("PTX", CIST, p)>>)
  /\ Flags(t, p, {"proposing"}, {})
  /\ cbits' = SetComm(p, {NewInfo(t)}, {})
  /\ ctmr' = IF t # CIST THEN ctmr
             ELSE [ctmr EXCEPT ![p].edgeDelayWhile =
                     IF Cfg(p, "pointToPoint") THEN MigrateTime ELSE RootTimes(CIST, p).maxAge]
  /\ UNCHANGED <<info, tmr>>

\* wrong: the proposal stays
WrongPrtProposed(t, p) ==
  /\ \E s \in {"MASTER_PROPOSED", "ROOT_PROPOSED", "ALTERNATE_PROPOSED"} :
       PrtTo(t, p, s, <<>>)
  /\ bits' = WholeTree(t, p, "sync")
  /\ UNCHANGED <<cbits, ctmr, info, tmr>>

\* a proposal arrived: all ports of the tree have to be in sync first
PrtProposed(t, p) ==
  /\ \E s \in {"MASTER_PROPOSED", "ROOT_PROPOSED", "ALTERNATE_PROPOSED"} :
       PrtTo(t, p, s, <<>>)
  /\ bits' = [WholeTree(t, p, "sync") EXCEPT ![t][p] = @ \ {"proposed"}]
  /\ UNCHANGED <<cbits, ctmr, info, tmr>>

\* they are: a Root, Designated or Alternate port says so in a BPDU
PrtAgreed(t, p) ==
  /\ \E s \in {"ROOT_AGREED", "DESIGNATED_AGREED"} : PrtTo(t, p, s, <<Call("PTX", CIST, p)>>)
  /\ Flags(t, p, {"agree"}, {"proposed", "sync"})
  /\ cbits' = SetComm(p, {NewInfo(t)}, {})
  /\ UNCHANGED <<ctmr, info, tmr>>

PrtAlternateAgreed(t, p) ==
  /\ PrtTo(t, p, "ALTERNATE_AGREED", <<Call("PTX", CIST, p)>>)
  /\ Flags(t, p, {"agree"}, {"proposed"})
  /\ cbits' = SetComm(p, {NewInfo(t)}, {})
  /\ UNCHANGED <<ctmr, info, tmr>>

PrtMasterAgreed(t, p) ==
  /\ PrtTo(t, p, "MASTER_AGREED", <<>>)
  /\ Flags(t, p, {"agree"}, {"proposed", "sync"})
  /\ UNCHANGED <<cbits, ctmr, info, tmr>>

PrtSynced(t, p) ==
  /\ \E s \in {"MASTER_SYNCED", "DESIGNATED_SYNCED"} : PrtTo(t, p, s, <<>>)
  /\ Flags(t, p, {"synced"}, {"sync"})
  /\ Timers(t, p, [tmr[t][p] EXCEPT !.rrWhile = 0])
  /\ UNCHANGED <<cbits, ctmr, info>>

PrtRootSynced(t, p) ==
  /\ PrtTo(t, p, "ROOT_SYNCED", <<>>)
  /\ Flags(t, p, {"synced"}, {"sync"})
  /\ UNCHANGED <<cbits, ctmr, info, tmr>>

PrtReRoot(t, p) ==
  /\ PrtTo(t, p, "REROOT", <<>>)
  /\ bits' = WholeTree(t, p, "reRoot")
  /\ UNCHANGED <<cbits, ctmr, info, tmr>>

PrtRetired(t, p) ==
  /\ \E s \in {"MASTER_RETIRED", "DESIGNATED_RETIRED", "REROOTED"} : PrtTo(t, p, s, <<>>)
  /\ Flags(t, p, {}, {"reRoot"})
  /\ UNCHANGED <<cbits, ctmr, info, tmr>>

PrtLearn(t, p) ==
  /\ \E s \in {"MASTER_LEARN", "ROOT_LEARN", "DESIGNATED_LEARN"} : PrtTo(t, p, s, Pst(t, p))
  /\ Flags(t, p, {"learn"}, {})
  /\ Timers(t, p, [tmr[t][p] EXCEPT !.fdWhile = ForwardDelay(p)])
  /\ UNCHANGED <<cbits, ctmr, info>>

PrtForward(t, p) ==
  /\ \E s \in {"MASTER_FORWARD", "DESIGNATED_FORWARD"} : PrtTo(t, p, s, Pst(t, p))
  /\ IF Comm(p, "sendRSTP") THEN Flags(t, p, {"forward", "agreed"}, {})
     ELSE Flags(t, p, {"forward"}, {"agreed"})
  /\ Timers(t, p, [tmr[t][p] EXCEPT !.fdWhile = 0])
  /\ UNCHANGED <<cbits, ctmr, info>>

PrtRootForward(t, p) ==
  /\ PrtTo(t, p, "ROOT_FORWARD", Pst(t, p))
  /\ Flags(t, p, {"forward"}, {})
  /\ Timers(t, p, [tmr[t][p] EXCEPT !.fdWhile = 0])
  /\ UNCHANGED <<cbits, ctmr, info>>

PrtDiscard(t, p) ==
  /\ \E s \in {"MASTER_DISCARD", "DESIGNATED_DISCARD"} : PrtTo(t, p, s, Pst(t, p))
  /\ Flags(t, p, {}, {"learn", "forward", "disputed"})
  /\ Timers(t, p, [tmr[t][p] EXCEPT !.fdWhile = ForwardDelay(p)])
  /\ UNCHANGED <<cbits, ctmr, info>>

PrtReturn(t, p) ==
  /\ PrtEnters(t, p, Stay)
  /\ Return(<<>>)
  /\ UNCHANGED <<commVars, treeVars, bridgeVars, rx, dbVars, envVars>>

PrtSm(t, p) ==
  \/ PrtInitPort(t, p) \/ PrtDisablePort(t, p) \/ PrtDisabledPort(t, p)
  \/ PrtBlockPort(t, p) \/ PrtAlternatePort(t, p) \/ PrtBackupPort(t, p)
  \/ PrtMasterPort(t, p) \/ PrtDesignatedPort(t, p) \/ PrtRootPort(t, p)
  \/ PrtPropose(t, p) \/ PrtProposed(t, p) \/ PrtAgreed(t, p)
  \/ PrtAlternateAgreed(t, p) \/ PrtMasterAgreed(t, p) \/ PrtSynced(t, p)
  \/ PrtRootSynced(t, p) \/ PrtReRoot(t, p) \/ PrtRetired(t, p)
  \/ PrtLearn(t, p) \/ PrtForward(t, p) \/ PrtRootForward(t, p)
  \/ PrtDiscard(t, p) \/ PrtReturn(t, p)
=============================================================================
