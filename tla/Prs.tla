-------------------------------- MODULE Prs --------------------------------
(***************************************************************************)
(* Port Role Selection machine (mstpd_prs_sm.c) and mstp_updtRolesTree     *)
(* (mstpd_util.c): the root of the tree, the designated information and    *)
(* the selected role of every port of the bridge are recomputed in one     *)
(* uninterrupted pass; then Port Information and Port Role Transitions run *)
(* for the root port, every other port, and the root port again.           *)
(* A call carries one of the bridge's ports; any of them stands for it.    *)
(***************************************************************************)
EXTENDS MstpBase

-----------------------------------------------------------------------------
(* The root: the best root path vector, if it beats the bridge's own.      *)

RootCandidate(t, q) ==
  /\ Comm(q, "portEnabled")
  /\ info[t][q].infoIs = "RECEIVED" /\ tmr[t][q].rcvdInfoWhile # 0
  /\ MacOf(vec[t][q].portPri.dsn) # Mac[Owner[q]]
  /\ ~Cfg(q, "restrictedRole")

\* a CIST vector from another region ends at this bridge's regional root
RootPathPri(t, q) ==
  IF t = CIST /\ ~Comm(q, "rcvdInternal")
  THEN [vec[t][q].portPri EXCEPT !.ext = @ + ExtCost[q], !.rgn = BridgeId(t, Owner[q])]
  ELSE [vec[t][q].portPri EXCEPT !.int = @ + IntCost[t][q]]

BetterPath(t, q, r) ==
  \/ Better(RootPathPri(t, q), RootPathPri(t, r))
  \/ RootPathPri(t, q) = RootPathPri(t, r) /\ PortId(q) < PortId(r)

RootCandidates(t, b) ==
  {q \in PortsOf(b) : RootCandidate(t, q) /\ Better(RootPathPri(t, q), BridgePriority(t, b))}

BestPorts(t, b) ==
  {q \in RootCandidates(t, b) : \A r \in RootCandidates(t, b) : ~BetterPath(t, r, q)}

NewRootPort(t, b) ==
  IF BestPorts(t, b) = {} THEN NoPort ELSE CHOOSE q \in BestPorts(t, b) : TRUE

Dec(n) == IF n > 0 THEN n - 1 ELSE 0

\* times.hello of the CIST is cistRootHelloTime
NewRootTimes(t, b, q) ==
  IF q = NoPort THEN BridgeTimes(t)
  ELSE IF Comm(q, "rcvdInternal")
  THEN IF t = CIST THEN [vec[t][q].portTimes EXCEPT !.hops = Dec(@)]
       ELSE [root[t][b].times EXCEPT !.hops = Dec(vec[t][q].portTimes.hops)]
  ELSE IF t = CIST THEN [vec[t][q].portTimes EXCEPT !.age = @ + 1]
       ELSE root[t][b].times

NewRoot(t, b) ==
  LET q == NewRootPort(t, b)
  IN  [port  |-> q,
       pri   |-> IF q = NoPort THEN BridgePriority(t, b) ELSE RootPathPri(t, q),
       times |-> NewRootTimes(t, b, q)]

\* hadNonZeroCistEPC is TRUE when the old external cost is zero
SyncsMaster(b, new) ==
  LET old == root[CIST][b].pri
  IN  /\ old.rgn # new.pri.rgn
      /\ old.ext = 0 \/ new.pri.ext # 0

-----------------------------------------------------------------------------
(* Designated information and selected role of port q, given the new root. *)

DsnPri(t, q, new) ==
  LET b == Owner[q]
      pri == [new.pri EXCEPT !.dsn = BridgeId(t, b), !.port = PortId(q)]
  IN  IF t = CIST /\ ~Comm(q, "sendRSTP") THEN [pri EXCEPT !.rgn = BridgeId(t, b)]
      ELSE pri

SameTimes(t, q, new) ==
  LET w == vec[t][q].portTimes
  IN  /\ w.hops = new.times.hops
      /\ t = CIST => /\ w.fwd = new.times.fwd /\ w.maxAge = new.times.maxAge
                     /\ w.age = new.times.age
                     /\ new.port # NoPort => w.hello = new.times.hello

Current(t, q, new) ==
  vec[t][q].portPri = DsnPri(t, q, new) /\ SameTimes(t, q, new)

\* wrong: the MSTIs select their roles on a boundary port, too
WrongFollowsCist(t, q) == t # CIST /\ info[CIST][q].infoIs = "DISABLED"

\* an MSTI follows the CIST on a port that hears another region
FollowsCist(t, q) ==
  /\ t # CIST /\ info[t][q].infoIs # "DISABLED"
  /\ info[CIST][q].infoIs = "RECEIVED" /\ ~Comm(q, "rcvdInternal")

CistToMsti == [r \in {"ROOT", "ALTERNATE", "BACKUP"} |-> IF r = "ROOT" THEN "MASTER" ELSE r]

\* wrong: the port a bridge hears itself on is like any other
WrongReceivedRole(t, q, new) ==
  IF new.port = q THEN "ROOT"
  ELSE IF ~Better(vec[t][q].portPri, DsnPri(t, q, new)) THEN "DESIGNATED"
  ELSE IF vec[t][q].portPri.dsn = BridgeId(t, Owner[q]) THEN "BACKUP" ELSE "ALTERNATE"

ReceivedRole(t, q, new) ==
  IF Comm(q, "rcvdSelfSentPkt") THEN "BACKUP"
  ELSE IF new.port = q THEN "ROOT"
  ELSE IF Better(DsnPri(t, q, new), vec[t][q].portPri) THEN "DESIGNATED"
  ELSE IF /\ vec[t][q].portPri.dsn = BridgeId(t, Owner[q])
          /\ vec[t][q].portPri.port # PortId(q) THEN "BACKUP"
  ELSE "ALTERNATE"

\* UNKNOWN: the function leaves selectedRole as it was
RoleFor(t, q, new) ==
  LET is == info[t][q].infoIs
      blocked == On(t, q, "loopInconsistent")
  IN  IF is = "DISABLED" THEN "DISABLED"
      ELSE IF FollowsCist(t, q)
      THEN IF info[CIST][q].selectedRole \in DOMAIN CistToMsti
           THEN CistToMsti[info[CIST][q].selectedRole] ELSE "UNKNOWN"
      ELSE IF is = "RECEIVED" THEN ReceivedRole(t, q, new)
      ELSE IF is = "AGED" THEN IF blocked THEN "ALTERNATE" ELSE "DESIGNATED"
      ELSE IF is = "MINE" /\ ~blocked THEN "DESIGNATED"
      ELSE "UNKNOWN"

\* what becomes of updtInfo: the flag when it is left alone
UpdtInfoFor(t, q, new) ==
  LET is == info[t][q].infoIs
      r  == RoleFor(t, q, new)
      now == On(t, q, "updtInfo")
  IN  IF r \in {"DISABLED", "UNKNOWN"} THEN now
      ELSE IF FollowsCist(t, q) \/ is = "MINE" THEN now \/ ~Current(t, q, new)
      ELSE IF is = "AGED" THEN TRUE
      ELSE r = "DESIGNATED"

-----------------------------------------------------------------------------
PrsGeneral(t, p) ==
  IF Begin(p) /\ prs[t][Owner[p]] # "INIT_TREE" THEN "INIT_TREE" ELSE Stay

PrsCond(t, p) ==
  CASE prs[t][Owner[p]] = "INIT_TREE" -> "ROLE_SELECTION"
    [] prs[t][Owner[p]] = "ROLE_SELECTION" ->
         IF \E q \in PortsOf(Owner[p]) : On(t, q, "reselect")
         THEN "ROLE_SELECTION" ELSE Stay
    [] OTHER -> Stay

PrsEnters(t, p, s) ==
  /\ Running("PRS", t, p)
  /\ Target(PrsGeneral(t, p), PrsCond(t, p)) = s

\* mstp_updtRolesDisabledTree
PrsInitTree(t, p) ==
  /\ PrsEnters(t, p, "INIT_TREE")
  /\ prs' = [prs EXCEPT ![t][Owner[p]] = "INIT_TREE"]
  /\ info' = [info EXCEPT ![t] =
               [q \in Port |-> IF Owner[q] = Owner[p]
                               THEN [@[q] EXCEPT !.selectedRole = "DISABLED"] ELSE @[q]]]
  /\ Loop(<<>>)
  /\ UNCHANGED <<commVars, bits, fsm, tmr, vec, root, ctl, rx, dbVars, envVars>>

\* mstp_syncMaster, for the ports that hold information of their own region
SyncedMaster(q, flags) ==
  IF Comm(q, "infoInternal")
  THEN (flags \ {"agree", "agreed", "synced"}) \cup {"sync"} ELSE flags

\* clearReselectTree, updtInfo as the roles have it, setSelectedTree
Selected(t, q, new) ==
  ((bits[t][q] \ {"reselect", "updtInfo"})
     \cup (IF UpdtInfoFor(t, q, new) THEN {"updtInfo"} ELSE {})) \cup {"selected"}

\* wrong: the other ports are told of new information only
WrongPrsCalls(t, b, r) ==
  LET qs == Only(LPorts[b], PortsOf(b) \ {r})
  IN  (IF r = NoPort THEN <<>> ELSE <<Call("PIM", t, r), Call("PRT", t, r)>>)
      \o [i \in DOMAIN qs |-> Call("PIM", t, qs[i])]

PrsCalls(t, b, r) ==
  LET qs == Only(LPorts[b], PortsOf(b) \ {r})
  IN  (IF r = NoPort THEN <<>> ELSE <<Call("PIM", t, r), Call("PRT", t, r)>>)
      \o Alternate([i \in DOMAIN qs |-> Call("PIM", t, qs[i])],
                   [i \in DOMAIN qs |-> Call("PRT", t, qs[i])])
      \o (IF r = NoPort THEN <<>> ELSE <<Call("PRT", t, r)>>)

PrsRoleSelection(t, p) ==
  LET b == Owner[p]
      mine(q) == Owner[q] = b
  IN  /\ PrsEnters(t, p, "ROLE_SELECTION")
      /\ prs' = [prs EXCEPT ![t][b] = "ROLE_SELECTION"]
      /\ \E new \in {NewRoot(t, b)} :
           /\ root' = [root EXCEPT ![t][b] = new]
           /\ bits' = [u \in Tree |-> [q \in Port |->
                        IF ~mine(q) THEN bits[u][q]
                        ELSE IF u = t THEN Selected(t, q, new)
                        ELSE IF t = CIST /\ SyncsMaster(b, new) THEN SyncedMaster(q, bits[u][q])
                        ELSE bits[u][q]]]
           /\ vec' = [vec EXCEPT ![t] = [q \in Port |->
                        IF mine(q) THEN [@[q] EXCEPT !.dsnPri = DsnPri(t, q, new),
                                                     !.dsnTimes = new.times]
                        ELSE @[q]]]
           /\ info' = [info EXCEPT ![t] = [q \in Port |->
                        IF mine(q) /\ RoleFor(t, q, new) # "UNKNOWN"
                        THEN [@[q] EXCEPT !.selectedRole = RoleFor(t, q, new)] ELSE @[q]]]
           /\ Return(PrsCalls(t, b, new.port))
      /\ UNCHANGED <<commVars, fsm, tmr, ctl, rx, dbVars, envVars>>

PrsReturn(t, p) ==
  /\ PrsEnters(t, p, Stay)
  /\ Return(<<>>)
  /\ UNCHANGED <<commVars, treeVars, bridgeVars, rx, dbVars, envVars>>

PrsSm(t, p) == PrsInitTree(t, p) \/ PrsRoleSelection(t, p) \/ PrsReturn(t, p)
=============================================================================
