-------------------------------- MODULE Pti --------------------------------
(***************************************************************************)
(* Port Timers machine (mstpd_pti_sm.c), run for each port once a second.  *)
(* The TICK action counts the timers down one after the other and calls    *)
(* the machine a timer concerns as soon as it expires, before the next     *)
(* timer is looked at.                                                     *)
(***************************************************************************)
EXTENDS MstpBase

\* wrong: a timer that is not running is counted as well
WrongDown(n) == n - 1

Down(n) == IF n = 0 THEN 0 ELSE n - 1
\* wrong: one second late
WrongExpires(n) == n = 0

Expires(n) == n = 1

PtiGeneral(p) ==
  IF Begin(p) /\ csm[p].pti # "ONE_SECOND" THEN "ONE_SECOND" ELSE Stay

\* mstp_ptiSm sets tick on entry unless it is initialising
Ticks(p) == Comm(p, "tick") \/ (~Head(stk).loop /\ ~Begin(p))

PtiCond(p) ==
  CASE csm[p].pti = "ONE_SECOND" -> IF Ticks(p) THEN "TICK" ELSE Stay
    [] csm[p].pti = "TICK"       -> "ONE_SECOND"
    [] OTHER                     -> Stay

PtiEnters(p, s) ==
  /\ Running("PTI", CIST, p)
  /\ Target(PtiGeneral(p), PtiCond(p)) = s

PtiOneSecond(p) ==
  /\ PtiEnters(p, "ONE_SECOND")
  /\ csm' = [csm EXCEPT ![p].pti = "ONE_SECOND"]
  /\ cbits' = SetComm(p, {}, {"tick"})
  /\ LoopIf(ByGeneral(PtiGeneral(p)), <<>>)
  /\ UNCHANGED <<ctmr, treeVars, bridgeVars, rx, dbVars, envVars>>

PtiTick(p) ==
  /\ PtiEnters(p, "TICK")
  /\ csm' = [csm EXCEPT ![p].pti = "TICK"]
  /\ cbits' = SetComm(p, {"tick"}, {})
  /\ ctmr' = [ctmr EXCEPT ![p].edgeDelayWhile = Down(@)]
  /\ Loop((IF Expires(ctmr[p].edgeDelayWhile) THEN <<Call("BDM", CIST, p)>> ELSE <<>>)
          \o <<Call("TICK_HELLO", CIST, p), Call("TICK_MDELAY", CIST, p)>>
          \o Alternate(TreeCalls("TICK_TREE", p), TreeCalls("TICK_INFO", p)))
  /\ UNCHANGED <<treeVars, bridgeVars, rx, dbVars, envVars>>

TickHello(p) ==
  /\ Running("TICK_HELLO", CIST, p)
  /\ ctmr' = [ctmr EXCEPT ![p].helloWhen = Down(@)]
  /\ Return(IF Expires(ctmr[p].helloWhen) /\ Comm(p, "portEnabled")
            THEN <<Call("PTX", CIST, p)>> ELSE <<>>)
  /\ UNCHANGED <<cbits, csm, treeVars, bridgeVars, rx, dbVars, envVars>>

TickMdelay(p) ==
  /\ Running("TICK_MDELAY", CIST, p)
  /\ ctmr' = [ctmr EXCEPT ![p].mdelayWhile = Down(@)]
  /\ Return(IF Expires(ctmr[p].mdelayWhile) /\ Comm(p, "portEnabled")
            THEN <<Call("PPM", CIST, p)>> ELSE <<>>)
  /\ UNCHANGED <<cbits, csm, treeVars, bridgeVars, rx, dbVars, envVars>>

\* fdWhile stands still while the port is Disabled
FdRuns(t, p) == fsm[t][p].prt # "DISABLED_PORT"

RoleTimerExpires(t, p) ==
  \/ FdRuns(t, p) /\ Expires(tmr[t][p].fdWhile)
  \/ Expires(tmr[t][p].rrWhile)
  \/ Expires(tmr[t][p].rbWhile)

\* wrong: the transmit counter is never counted down
WrongTickTree(t, p) ==
  /\ Running("TICK_TREE", t, p)
  /\ tmr' = [tmr EXCEPT ![t][p] =
              [tmr[t][p] EXCEPT !.tcWhile = Down(@), !.rrWhile = Down(@), !.rbWhile = Down(@),
                                !.fdWhile = IF FdRuns(t, p) THEN Down(@) ELSE @]]
  /\ Return(IF RoleTimerExpires(t, p) THEN <<Call("PRT", t, p)>> ELSE <<>>)
  /\ UNCHANGED <<commVars, bits, fsm, info, vec, bridgeVars, rx, dbVars, envVars>>

\* txCount is counted down just before the timers of the CIST
TickTree(t, p) ==
  /\ Running("TICK_TREE", t, p)
  /\ ctmr' = IF t = CIST THEN [ctmr EXCEPT ![p].txCount = Down(@)] ELSE ctmr
  /\ tmr' = [tmr EXCEPT ![t][p] =
              [tmr[t][p] EXCEPT !.tcWhile = Down(@), !.rrWhile = Down(@), !.rbWhile = Down(@),
                                !.fdWhile = IF FdRuns(t, p) THEN Down(@) ELSE @]]
  /\ Return(IF RoleTimerExpires(t, p) THEN <<Call("PRT", t, p)>> ELSE <<>>)
  /\ UNCHANGED <<cbits, csm, bits, fsm, info, vec, bridgeVars, rx, dbVars, envVars>>

\* BPDUs stopped coming on a port that depends on them
Starved(t, p) ==
  /\ Expires(tmr[t][p].rcvdInfoWhile)
  /\ ~Comm(p, "rcvdSelfSentPkt")
  /\ info[t][p].role \in {"ROOT", "ALTERNATE", "BACKUP"}

LoopInconsistent(t, p) ==
  On(t, p, "loopInconsistent") \/ (Starved(t, p) /\ Cfg(p, "loopGuard"))

\* loop guard keeps the information of a non-root port from ageing out
TickInfo(t, p) ==
  /\ Running("TICK_INFO", t, p)
  /\ tmr' = [tmr EXCEPT ![t][p].rcvdInfoWhile = Down(@)]
  /\ bits' = IF LoopInconsistent(t, p) THEN SetBits(t, p, {"loopInconsistent"}, {})
             ELSE bits
  /\ Return(IF /\ Expires(tmr[t][p].rcvdInfoWhile)
               /\ ~LoopInconsistent(t, p) \/ info[t][p].role = "ROOT"
            THEN <<Call("PIM", t, p)>> ELSE <<>>)
  /\ UNCHANGED <<commVars, fsm, info, vec, bridgeVars, rx, dbVars, envVars>>

PtiReturn(p) ==
  /\ PtiEnters(p, Stay)
  /\ Return(<<>>)
  /\ UNCHANGED <<commVars, treeVars, bridgeVars, rx, dbVars, envVars>>

PtiSm(p) == \/ PtiOneSecond(p) \/ PtiTick(p) \/ PtiReturn(p)
            \/ TickHello(p) \/ TickMdelay(p)
            \/ \E t \in Tree : TickTree(t, p) \/ TickInfo(t, p)
=============================================================================
