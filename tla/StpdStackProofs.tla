--------------------------- MODULE StpdStackProofs ---------------------------
(* The calling discipline, for every network: the stack holds calls of one   *)
(* bridge, above the informer and the pending transmission that end every    *)
(* event; and what follows from it for the moments between two events.       *)
EXTENDS StpdTypeProofs, WellFoundedInduction

-----------------------------------------------------------------------------
(* Sequences of calls.                                                       *)

\* A set of numbers that is not empty has a least member.
LEMMA Least ==
  ASSUME NEW T, T \subseteq Nat, T # {}
  PROVE  \E m \in T : \A k \in T : m <= k
<1> DEFINE R == OpToRel(<, Nat)
<1>1. IsWellFoundedOn(R, Nat)
  BY NatLessThanWellFounded, Zenon
<1>2. \A x, y \in Nat : y < x => <<y, x>> \in R
  BY DEF OpToRel
<1> HIDE DEF R
<1>3. PICK x \in T : \A y \in T : ~(<<y, x>> \in R)
  BY <1>1, WFMin, Zenon
<1>4. \A y \in T : ~(y < x)
  BY <1>2, <1>3
<1> QED
  BY <1>3, <1>4

JoinsTo(f, ss, n) == f = [i \in 0..n |-> IF i = 0 THEN <<>> ELSE f[i - 1] \o ss[i]]

LEMMA JoinFunctionExists ==
  ASSUME NEW ss, NEW n \in Nat
  PROVE  \E f : JoinsTo(f, ss, n)
<1> DEFINE T == {k \in Nat : ~ \E f : JoinsTo(f, ss, k)}
<1>1. SUFFICES ASSUME T # {} PROVE FALSE
  OBVIOUS
<1>2. PICK m \in T : \A k \in T : m <= k
  BY <1>1, Least
<1>3. CASE m = 0
  <2> DEFINE f == [i \in 0..0 |-> <<>>]
  <2>1. JoinsTo(f, ss, 0)
    BY DEF JoinsTo
  <2> QED
    BY <1>3, <2>1
<1>4. CASE m # 0
  <2>1. m - 1 \in Nat /\ m - 1 \notin T
    BY <1>2, <1>4
  <2>2. PICK f : JoinsTo(f, ss, m - 1)
    BY <2>1
  <2> DEFINE g == [i \in 0..m |-> IF i = m THEN f[m - 1] \o ss[m] ELSE f[i]]
  <2>3. ASSUME NEW i \in 0..m
        PROVE  g[i] = IF i = 0 THEN <<>> ELSE g[i - 1] \o ss[i]
    <3>1. CASE i = m
      <4>1. m \in 0..m /\ m - 1 \in 0..m /\ m - 1 # m
        BY <2>1
      <4>2. g[m] = f[m - 1] \o ss[m] /\ g[m - 1] = f[m - 1]
        BY <4>1
      <4> HIDE DEF g
      <4> QED
        BY <1>4, <3>1, <4>2
    <3>2. CASE i # m
      <4>1. i \in 0..(m - 1) /\ f[i] = IF i = 0 THEN <<>> ELSE f[i - 1] \o ss[i]
        BY <2>1, <2>2, <3>2 DEF JoinsTo
      <4>2. i # 0 => i - 1 \in 0..m /\ i - 1 # m
        BY <2>1, <3>2
      <4> QED
        BY <3>2, <4>1, <4>2
    <3> QED
      BY <3>1, <3>2
  <2>4. g = [i \in 0..m |-> g[i]]
    OBVIOUS
  <2> HIDE DEF g
  <2>5. JoinsTo(g, ss, m)
    BY <2>3, <2>4 DEF JoinsTo
  <2> QED
    BY <2>5
<1> QED
  BY <1>3, <1>4

LEMMA JoinFunction ==
  ASSUME NEW ss, Len(ss) \in Nat
  PROVE  \E g : JoinsTo(g, ss, Len(ss)) /\ Join(ss) = g[Len(ss)]
<1> DEFINE g == CHOOSE g : g = [i \in 0..Len(ss) |-> IF i = 0 THEN <<>> ELSE g[i - 1] \o ss[i]]
<1>1. PICK f : f = [i \in 0..Len(ss) |-> IF i = 0 THEN <<>> ELSE f[i - 1] \o ss[i]]
  BY JoinFunctionExists DEF JoinsTo
<1>2. g = [i \in 0..Len(ss) |-> IF i = 0 THEN <<>> ELSE g[i - 1] \o ss[i]]
  BY <1>1, Zenon
<1>3. Join(ss) = g[Len(ss)]
  BY DEF Join
<1> HIDE DEF g
<1> QED
  BY <1>2, <1>3 DEF JoinsTo

LEMMA Concatenation ==
  ASSUME NEW S, NEW r \in Seq(S), NEW s \in Seq(S)
  PROVE  /\ r \o s \in Seq(S)
         /\ Len(r \o s) = Len(r) + Len(s)
         /\ \A i \in DOMAIN r : i \in DOMAIN (r \o s) /\ (r \o s)[i] = r[i]
         /\ \A j \in DOMAIN s : /\ Len(r) + j \in DOMAIN (r \o s)
                               /\ (r \o s)[Len(r) + j] = s[j]
OBVIOUS

\* Joined, sequences over a set are a sequence over it, and nothing is lost.
LEMMA JoinHolds ==
  ASSUME NEW S, NEW ss \in Seq(Seq(S))
  PROVE  /\ Join(ss) \in Seq(S)
         /\ \A k \in DOMAIN ss : \A j \in DOMAIN ss[k] :
              \E i \in DOMAIN Join(ss) : Join(ss)[i] = ss[k][j]
<1>1. PICK g : JoinsTo(g, ss, Len(ss)) /\ Join(ss) = g[Len(ss)]
  BY JoinFunction
<1> DEFINE Good(n) == /\ g[n] \in Seq(S)
                      /\ \A k \in 1..n : \A j \in DOMAIN ss[k] :
                           \E i \in DOMAIN g[n] : g[n][i] = ss[k][j]
           T == {n \in 0..Len(ss) : ~Good(n)}
<1>2. g[0] = <<>> /\ \A n \in 1..Len(ss) : g[n] = g[n - 1] \o ss[n]
  <2>1. Len(ss) \in Nat
    OBVIOUS
  <2>2. \A i \in 0..Len(ss) : g[i] = IF i = 0 THEN <<>> ELSE g[i - 1] \o ss[i]
    BY <1>1, Zenon DEF JoinsTo
  <2>3. 0 \in 0..Len(ss) /\ \A n \in 1..Len(ss) : n \in 0..Len(ss) /\ n # 0
    BY <2>1
  <2> QED
    BY <2>2, <2>3, Zenon
<1>3. Good(0)
  BY <1>2
<1>4. ASSUME NEW n \in 1..Len(ss), Good(n - 1)
      PROVE  Good(n)
  <2>1. g[n] = g[n - 1] \o ss[n] /\ g[n - 1] \in Seq(S)
    BY <1>2, <1>4
  <2>0. ss[n] \in Seq(S)
    OBVIOUS
  <2>2. g[n] \in Seq(S)
    BY <2>1, <2>0, Concatenation
  <2>3. /\ \A i \in DOMAIN g[n - 1] : i \in DOMAIN g[n] /\ g[n][i] = g[n - 1][i]
        /\ \A j \in DOMAIN ss[n] : /\ Len(g[n - 1]) + j \in DOMAIN g[n]
                                   /\ g[n][Len(g[n - 1]) + j] = ss[n][j]
    <3> DEFINE r == g[n - 1]
               s == ss[n]
    <3>1. r \in Seq(S) /\ s \in Seq(S) /\ g[n] = r \o s
      BY <2>1, <2>0
    <3> HIDE DEF r, s, T, Good
    <3>2. /\ \A i \in DOMAIN r : i \in DOMAIN (r \o s) /\ (r \o s)[i] = r[i]
          /\ \A j \in DOMAIN s : /\ Len(r) + j \in DOMAIN (r \o s)
                                /\ (r \o s)[Len(r) + j] = s[j]
      <4>1. r \in Seq(S) /\ s \in Seq(S)
        BY <3>1
      <4> QED
        BY SMTT(30), <4>1, Concatenation
    <3>3. /\ \A i \in DOMAIN r : i \in DOMAIN g[n] /\ g[n][i] = r[i]
          /\ \A j \in DOMAIN s : /\ Len(r) + j \in DOMAIN g[n]
                                /\ g[n][Len(r) + j] = s[j]
      BY <3>1, <3>2
    <3> QED
      BY <3>3 DEF r, s
  <2>4. ASSUME NEW k \in 1..n, NEW j \in DOMAIN ss[k]
        PROVE  \E i \in DOMAIN g[n] : g[n][i] = ss[k][j]
    <3>1. CASE k = n
      BY <2>3, <3>1
    <3>2. CASE k # n
      <4>1. k \in 1..(n - 1)
        BY <3>2
      <4>2. PICK i \in DOMAIN g[n - 1] : g[n - 1][i] = ss[k][j]
        BY <1>4, <4>1
      <4> QED
        BY <2>3, <4>2
    <3> QED
      BY <3>1, <3>2
  <2> QED
    BY <2>2, <2>4
<1>5. T = {}
  <2>1. SUFFICES ASSUME T # {} PROVE FALSE
    OBVIOUS
  <2>2. T \subseteq Nat
    OBVIOUS
  <2> HIDE DEF Good
  <2>3. PICK m \in T : \A k \in T : m <= k
    BY <2>1, <2>2, Least
  <2>4. m # 0
    BY <1>3
  <2>5. m \in 1..Len(ss) /\ m - 1 \in 0..Len(ss) /\ m - 1 \notin T
    BY <2>3, <2>4
  <2> QED
    BY <1>4, <2>5
<1>6. Good(Len(ss))
  <2>1. Len(ss) \in 0..Len(ss)
    OBVIOUS
  <2> HIDE DEF Good
  <2> QED
    BY <1>5, <2>1
<1>7. DOMAIN ss = 1..Len(ss)
  OBVIOUS
<1>8. /\ g[Len(ss)] \in Seq(S)
      /\ \A k \in DOMAIN ss : \A j \in DOMAIN ss[k] :
           \E i \in DOMAIN g[Len(ss)] : g[Len(ss)][i] = ss[k][j]
  BY <1>6, <1>7
<1> DEFINE last == g[Len(ss)]
<1>9. Join(ss) = last
  BY <1>1
<1>10. /\ last \in Seq(S)
       /\ \A k \in DOMAIN ss : \A j \in DOMAIN ss[k] : \E i \in DOMAIN last : last[i] = ss[k][j]
  BY <1>8
<1> HIDE DEF Good, T, last
<1> QED
  BY <1>9, <1>10

LEMMA OnlyType ==
  ASSUME NEW X, NEW seq \in Seq(X), NEW S
  PROVE  Only(seq, S) \in Seq(X)
<1> DEFINE ss == [i \in DOMAIN seq |-> IF seq[i] \in S THEN <<seq[i]>> ELSE <<>>]
<1>1. ss \in Seq(Seq(X))
  <2>1. \A i \in DOMAIN seq : (IF seq[i] \in S THEN <<seq[i]>> ELSE <<>>) \in Seq(X)
    OBVIOUS
  <2>2. ss \in [1..Len(seq) -> Seq(X)] /\ Len(seq) \in Nat
    BY <2>1
  <2> QED
    BY <2>2
<1>2. Only(seq, S) = Join(ss)
  BY DEF Only
<1> HIDE DEF ss
<1> QED
  BY <1>1, <1>2, JoinHolds

-----------------------------------------------------------------------------
(* Frames, and the calls a handler makes.                                    *)

MachineName == {"PPM", "BDM", "PRX", "PTX", "PTI", "PST", "TCM", "PRS", "PIM", "PRT"}
RestName == {"PRX_MSTI", "TC_PROP"} \cup TickSteps \cup PimSteps

\* what a machine may call; the other frames an event puts there, or the end of BEGIN
Callable == MachineName \cup RestName \cup {"PENDING_TX"}
FrameName == Callable \cup {"ENABLE_PORT", "BEGIN_DONE", "INFORM_DB"}

\* the functions that run inside a step of Port Role Transitions
Quiet == {"PST", "TCM", "TC_PROP", "PTX"}

LEMMA QuietCallable == Quiet \subseteq Callable /\ Callable \subseteq FrameName
BY DEF Quiet, Callable, FrameName, MachineName, RestName

Frames(b, names) ==
  [sm : names, t : Tree, p : PortsOf(b), loop : BOOLEAN, pkt : BOOLEAN, v : Nat]
\* of calls that have yet to run
NewFrames(b, names) ==
  [sm : names, t : Tree, p : PortsOf(b), loop : {FALSE}, pkt : BOOLEAN, v : Nat]
Calls(b) == Seq(NewFrames(b, Callable))

LEMMA NewFramesAreFrames ==
  ASSUME NEW b, NEW names
  PROVE  /\ NewFrames(b, names) \subseteq Frames(b, names)
         /\ Seq(NewFrames(b, names)) \subseteq Seq(Frames(b, names))
<1>1. NewFrames(b, names) \subseteq Frames(b, names)
  BY DEF NewFrames, Frames
<1> QED
  BY <1>1

LEMMA CallTypes ==
  ASSUME NEW b, NEW names, NEW s \in names, NEW t \in Tree, NEW p \in PortsOf(b)
  PROVE  /\ Call(s, t, p) \in NewFrames(b, names)
         /\ CallPkt(s, t, p) \in NewFrames(b, names)
         /\ \A n \in Nat : Rest(s, t, p, n) \in NewFrames(b, names)
BY DEF Call, CallPkt, Rest, NewFrames

LEMMA MstiSeqType == MstiSeq \in Seq(Tree)
<1>1. MstiSeq \in Seq(Nat \ {0})
  BY ConstantsAssumption
<1>2. \A i \in 1..Len(MstiSeq) : MstiSeq[i] \in Tree
  BY DEF Tree, Msti
<1> QED
  BY <1>1, <1>2

LEMMA TreeCallTypes ==
  ASSUME NEW b, NEW s \in Callable, NEW p \in PortsOf(b)
  PROVE  /\ <<>> \in Calls(b)
         /\ \A t \in Tree : <<Call(s, t, p)>> \in Calls(b)
         /\ MstiCalls(s, p) \in Calls(b)
         /\ TreeCalls(s, p) \in Calls(b)
         /\ Len(TreeCalls(s, p)) = 1 + Len(MstiSeq)
<1>1. \A t \in Tree : Call(s, t, p) \in NewFrames(b, Callable)
  BY CallTypes
<1>2. Len(MstiSeq) \in Nat /\ \A i \in 1..Len(MstiSeq) : MstiSeq[i] \in Tree
  BY MstiSeqType
<1>3. MstiCalls(s, p) \in Calls(b) /\ Len(MstiCalls(s, p)) = Len(MstiSeq)
  <2>1. MstiCalls(s, p) \in [1..Len(MstiSeq) -> NewFrames(b, Callable)]
    BY <1>1, <1>2 DEF MstiCalls
  <2> QED
    BY <1>2, <2>1 DEF Calls
<1>4. \A t \in Tree : <<Call(s, t, p)>> \in Calls(b)
  BY <1>1 DEF Calls
<1>5. <<Call(s, CIST, p)>> \in Calls(b)
  BY <1>4, PortsAreNumbers
<1>6. TreeCalls(s, p) \in Calls(b) /\ Len(TreeCalls(s, p)) = 1 + Len(MstiSeq)
  BY <1>3, <1>5, Concatenation DEF TreeCalls, Calls
<1> QED
  BY <1>3, <1>4, <1>6 DEF Calls

LEMMA AlternateType ==
  ASSUME NEW S, NEW f \in Seq(S), NEW g \in Seq(S), Len(f) = Len(g)
  PROVE  Alternate(f, g) \in Seq(S)
<1>1. ASSUME NEW i \in 1..2 * Len(f)
      PROVE  (IF i % 2 = 1 THEN f[(i + 1) \div 2] ELSE g[i \div 2]) \in S
  BY <1>1
<1>2. Alternate(f, g) \in [1..2 * Len(f) -> S] /\ 2 * Len(f) \in Nat
  BY <1>1 DEF Alternate
<1> QED
  BY <1>2

LEMMA LPortsType ==
  ASSUME NEW b \in Bridge
  PROVE  /\ LPorts[b] \in Seq(PortsOf(b))
         /\ \A p \in PortsOf(b) : \E i \in DOMAIN LPorts[b] : LPorts[b][i] = p
         /\ FirstPort(b) \in PortsOf(b)
<1>1. /\ LPorts[b] \in Seq(Port) /\ LPorts[b] # <<>>
      /\ {LPorts[b][i] : i \in 1..Len(LPorts[b])} = PortsOf(b)
  BY ConstantsAssumption DEF PortsOf
<1>2. \A i \in 1..Len(LPorts[b]) : LPorts[b][i] \in PortsOf(b)
  BY <1>1
<1>3. LPorts[b] \in Seq(PortsOf(b))
  BY <1>1, <1>2
<1>4. 1 \in 1..Len(LPorts[b])
  BY <1>1
<1> QED
  BY SMTT(30), <1>1, <1>2, <1>3, <1>4 DEF FirstPort

JoinOver(b, f) == Join([i \in DOMAIN LPorts[b] |-> f[LPorts[b][i]]])

\* The calls for the ports of a bridge, each port having its own.
LEMMA JoinOverHolds ==
  ASSUME NEW S, NEW b \in Bridge, NEW f \in [PortsOf(b) -> Seq(S)]
  PROVE  /\ JoinOver(b, f) \in Seq(S)
         /\ \A p \in PortsOf(b) : \A j \in DOMAIN f[p] :
              \E i \in DOMAIN JoinOver(b, f) : JoinOver(b, f)[i] = f[p][j]
<1> DEFINE calls == JoinOver(b, f)
           ss == [i \in DOMAIN LPorts[b] |-> f[LPorts[b][i]]]
<1>1. /\ LPorts[b] \in Seq(PortsOf(b))
      /\ \A p \in PortsOf(b) : \E i \in DOMAIN LPorts[b] : LPorts[b][i] = p
  BY LPortsType
<1>2. ss \in Seq(Seq(S)) /\ DOMAIN ss = DOMAIN LPorts[b]
  <2>1. ss \in [1..Len(LPorts[b]) -> Seq(S)] /\ Len(LPorts[b]) \in Nat
    BY <1>1
  <2>2. DOMAIN ss = DOMAIN LPorts[b]
    OBVIOUS
  <2> HIDE DEF ss
  <2> QED
    BY <2>1, <2>2
<1>3. \A p \in PortsOf(b) : \E k \in DOMAIN ss : ss[k] = f[p]
  BY <1>1, <1>2
<1>4. calls = Join(ss)
  BY DEF JoinOver
<1> HIDE DEF ss, calls
<1>5. /\ Join(ss) \in Seq(S)
      /\ \A k \in DOMAIN ss : \A j \in DOMAIN ss[k] :
           \E i \in DOMAIN Join(ss) : Join(ss)[i] = ss[k][j]
  BY <1>2, JoinHolds
<1>6. ASSUME NEW p \in PortsOf(b), NEW j \in DOMAIN f[p]
      PROVE  \E i \in DOMAIN calls : calls[i] = f[p][j]
  <2>1. PICK k \in DOMAIN ss : ss[k] = f[p]
    BY <1>3
  <2>2. PICK i \in DOMAIN Join(ss) : Join(ss)[i] = ss[k][j]
    BY <1>5, <2>1
  <2> QED
    BY <1>4, <2>1, <2>2
<1> QED
  BY <1>4, <1>5, <1>6 DEF calls

-----------------------------------------------------------------------------
(* Every handler replaces the frame at the head by calls, on the same bridge, *)
(* and lets the rest of the stack alone.                                      *)

Looping == [Head(stk) EXCEPT !.loop = TRUE]
ExtendsBy(b, names) ==
  \E calls \in Seq(NewFrames(b, names)) : \/ stk' = calls \o Tail(stk)
                                       \/ stk' = calls \o <<Looping>> \o Tail(stk)
Extends(b) == ExtendsBy(b, Callable)

LEMMA CallsExtend ==
  ASSUME NEW b, NEW calls \in Calls(b), NEW a, Loop(calls) \/ Return(calls) \/ LoopIf(a, calls)
  PROVE  Extends(b)
BY DEF Extends, ExtendsBy, Calls, Loop, Return, LoopIf, Looping

LEMMA QuietCallsExtend ==
  ASSUME NEW b, NEW calls \in Seq(NewFrames(b, Quiet)), NEW a,
         Loop(calls) \/ Return(calls) \/ LoopIf(a, calls)
  PROVE  ExtendsBy(b, Quiet)
BY DEF ExtendsBy, Loop, Return, LoopIf, Looping

LEMMA PortNamesCallable ==
  /\ MachineName \subseteq Callable /\ RestName \subseteq Callable
  /\ \A b : <<>> \in Calls(b)
BY DEF Callable, Calls

LEMMA PortMachinesExtend ==
  ASSUME NEW b \in Bridge, NEW p \in PortsOf(b),
         PpmSm(p) \/ BdmSm(p) \/ PrxSm(p) \/ PtxSm(p) \/ PtiSm(p)
  PROVE  Extends(b)
<1>1. <<>> \in Calls(b)
  BY PortNamesCallable
<1>2. \A s \in MachineName \cup RestName : \A t \in Tree : <<Call(s, t, p)>> \in Calls(b)
  BY TreeCallTypes, PortNamesCallable
<1>3. CIST \in Tree
  BY PortsAreNumbers
<1>4. CASE PpmSm(p)
  BY <1>1, <1>4, CallsExtend DEF PpmSm, PpmCheckingRstp, PpmSelectingStp, PpmSensing, PpmReturn
<1>5. CASE BdmSm(p)
  <2>1. BdmCalls(p) \in Calls(b)
    <3>1. /\ TreeCalls("PRT", p) \in Calls(b) /\ TreeCalls("TCM", p) \in Calls(b)
          /\ Len(TreeCalls("PRT", p)) = Len(TreeCalls("TCM", p))
      BY TreeCallTypes, PortNamesCallable DEF MachineName
    <3> QED
      BY <1>1, <3>1, AlternateType DEF BdmCalls, Calls
  <2> QED
    BY <1>1, <1>5, <2>1, CallsExtend DEF BdmSm, BdmEdge, BdmNotEdge, BdmReturn
<1>6. CASE PrxSm(p)
  <2> DEFINE own == <<Call("BDM", CIST, p), Call("PPM", CIST, p)>>
             heard == <<Call("BDM", CIST, p), Call("PPM", CIST, p), CallPkt("PIM", CIST, p)>>
  <2>1. \A t \in Tree : CallPkt("PIM", t, p) \in NewFrames(b, Callable)
    BY CallTypes, PortNamesCallable DEF MachineName
  <2>2. own \in Calls(b) /\ heard \in Calls(b)
    <3>1. /\ Call("BDM", CIST, p) \in NewFrames(b, Callable)
          /\ Call("PPM", CIST, p) \in NewFrames(b, Callable)
      BY <1>3, CallTypes, PortNamesCallable DEF MachineName
    <3> QED
      BY <1>3, <2>1, <3>1 DEF Calls
  <2>3. MsgCalls(p) \in Calls(b)
    <3> DEFINE ts == Only(MstiSeq, MsgTrees(p))
    <3>1. MstiSeq \in Seq(Tree)
      BY MstiSeqType
    <3>2. ts \in Seq(Tree)
      BY <3>1, OnlyType
    <3>3. \A t \in Tree : Call("PRX_MSTI", t, p) \in NewFrames(b, Callable)
      BY CallTypes, PortNamesCallable DEF RestName
    <3>4. MsgCalls(p) = [i \in DOMAIN ts |-> Call("PRX_MSTI", ts[i], p)]
      BY DEF MsgCalls
    <3> HIDE DEF ts
    <3>5. MsgCalls(p) \in [1..Len(ts) -> NewFrames(b, Callable)] /\ Len(ts) \in Nat
      BY <3>2, <3>3, <3>4
    <3> QED
      BY <3>5 DEF Calls
  <2>4. heard \o MsgCalls(p) \in Calls(b)
    BY <2>2, <2>3 DEF Calls
  <2>5. CASE PrxDiscard(p)
    BY <1>1, <2>2, <2>5, CallsExtend DEF PrxDiscard
  <2>6. CASE PrxReceive(p)
    BY <2>4, <2>6, CallsExtend DEF PrxReceive
  <2>7. CASE \E t \in Msti : PrxMsti(t, p)
    <3>1. PICK t \in Msti : PrxMsti(t, p)
      BY <2>7
    <3>2. t \in Tree /\ <<CallPkt("PIM", t, p)>> \in Calls(b)
      BY <2>1, PortsAreNumbers DEF Calls
    <3> QED
      BY <3>1, <3>2, CallsExtend DEF PrxMsti
  <2>8. CASE PrxReturn(p)
    BY <1>1, <2>8, CallsExtend DEF PrxReturn
  <2> QED
    BY <1>6, <2>5, <2>6, <2>7, <2>8 DEF PrxSm
<1>7. CASE PtxSm(p)
  BY <1>1, <1>7, CallsExtend
     DEF PtxSm, PtxInit, PtxIdle, PtxPeriodic, PtxConfig, PtxTcn, PtxRstp, PtxReturn, Transmitted
<1>8. CASE PtiTick(p)
  <2> DEFINE first == IF Expires(ctmr[p].edgeDelayWhile) THEN <<Call("BDM", CIST, p)>> ELSE <<>>
             port == <<Call("TICK_HELLO", CIST, p), Call("TICK_MDELAY", CIST, p)>>
             trees == Alternate(TreeCalls("TICK_TREE", p), TreeCalls("TICK_INFO", p))
  <2>1. first \in Calls(b)
    BY <1>1, <1>2, <1>3 DEF MachineName
  <2>2. port \in Calls(b)
    <3>1. /\ Call("TICK_HELLO", CIST, p) \in NewFrames(b, Callable)
          /\ Call("TICK_MDELAY", CIST, p) \in NewFrames(b, Callable)
      BY <1>3, CallTypes, PortNamesCallable DEF RestName, TickSteps
    <3> QED
      BY <3>1 DEF Calls
  <2>3. trees \in Calls(b)
    <3>1. /\ TreeCalls("TICK_TREE", p) \in Calls(b) /\ TreeCalls("TICK_INFO", p) \in Calls(b)
          /\ Len(TreeCalls("TICK_TREE", p)) = Len(TreeCalls("TICK_INFO", p))
      BY TreeCallTypes, PortNamesCallable DEF RestName, TickSteps
    <3> QED
      BY <3>1, AlternateType DEF Calls
  <2>4. Loop(first \o port \o trees)
    BY <1>8 DEF PtiTick
  <2> HIDE DEF first, port, trees
  <2>5. first \o port \o trees \in Calls(b)
    BY <2>1, <2>2, <2>3 DEF Calls
  <2> QED
    BY <2>4, <2>5, CallsExtend
<1>9. CASE PtiOneSecond(p) \/ PtiReturn(p) \/ TickHello(p) \/ TickMdelay(p)
  BY <1>1, <1>2, <1>3, <1>9, CallsExtend
     DEF PtiOneSecond, PtiReturn, TickHello, TickMdelay, MachineName
<1>10. CASE \E t \in Tree : TickTree(t, p) \/ TickInfo(t, p)
  BY <1>1, <1>2, <1>10, CallsExtend DEF TickTree, TickInfo, MachineName
<1> QED
  BY <1>4, <1>5, <1>6, <1>7, <1>8, <1>9, <1>10 DEF PtiSm

\* Calls of one machine, for some ports of the bridge.
LEMMA PortListCalls ==
  ASSUME NEW b \in Bridge, NEW S, NEW names, NEW s \in names, NEW t \in Tree
  PROVE  LET qs == Only(LPorts[b], S)
         IN  [i \in DOMAIN qs |-> Call(s, t, qs[i])] \in Seq(NewFrames(b, names))
<1> DEFINE qs == Only(LPorts[b], S)
<1>1. qs \in Seq(PortsOf(b))
  BY LPortsType, OnlyType
<1>2. \A q \in PortsOf(b) : Call(s, t, q) \in NewFrames(b, names)
  BY CallTypes
<1> HIDE DEF qs
<1>3. [i \in DOMAIN qs |-> Call(s, t, qs[i])] \in [1..Len(qs) -> NewFrames(b, names)]
  BY <1>1, <1>2
<1>4. [i \in DOMAIN qs |-> Call(s, t, qs[i])] \in Seq(NewFrames(b, names))
  BY <1>1, <1>3
<1> QED
  BY <1>4 DEF qs

LEMMA PrsCallTypes ==
  ASSUME NEW b \in Bridge, NEW t \in Tree, NEW r \in PortsOf(b) \cup {NoPort}
  PROVE  PrsCalls(t, b, r) \in Calls(b)
<1> DEFINE qs == Only(LPorts[b], PortsOf(b) \ {r})
           pims == [i \in DOMAIN qs |-> Call("PIM", t, qs[i])]
           prts == [i \in DOMAIN qs |-> Call("PRT", t, qs[i])]
           first == IF r = NoPort THEN <<>> ELSE <<Call("PIM", t, r), Call("PRT", t, r)>>
           last == IF r = NoPort THEN <<>> ELSE <<Call("PRT", t, r)>>
<1>0. "PIM" \in Callable /\ "PRT" \in Callable
  BY DEF Callable, MachineName
<1>1. pims \in Calls(b) /\ prts \in Calls(b)
  BY <1>0, PortListCalls DEF Calls
<1>2. r # NoPort => /\ Call("PIM", t, r) \in NewFrames(b, Callable)
                    /\ Call("PRT", t, r) \in NewFrames(b, Callable)
  BY <1>0, CallTypes
<1>3. first \in Calls(b) /\ last \in Calls(b)
  BY <1>2 DEF Calls
<1>4. Len(pims) = Len(prts)
  OBVIOUS
<1>5. PrsCalls(t, b, r) = first \o Alternate(pims, prts) \o last
  BY DEF PrsCalls
<1> HIDE DEF pims, prts, first, last
<1>6. Alternate(pims, prts) \in Calls(b)
  BY <1>1, <1>4, AlternateType DEF Calls
<1> QED
  BY <1>3, <1>5, <1>6 DEF Calls

LEMMA NewRootPortHere ==
  ASSUME NEW t \in Tree, NEW b \in Bridge
  PROVE  NewRoot(t, b).port \in PortsOf(b) \cup {NoPort}
<1>1. NewRoot(t, b).port = NewRootPort(t, b)
  BY DEF NewRoot
<1>2. BestPorts(t, b) \subseteq PortsOf(b)
  BY DEF BestPorts, RootCandidates
<1>3. BestPorts(t, b) # {} => (CHOOSE q \in BestPorts(t, b) : TRUE) \in BestPorts(t, b)
  OBVIOUS
<1> QED
  BY <1>1, <1>2, <1>3, Zenon DEF NewRootPort

LEMMA RootParts ==
  ASSUME TypeOK
  PROVE  \A u \in Tree, c \in Bridge : root[u][c] \in RootRecord /\ root[u][c].pri.rgn \in Nat
BY DEF TypeOK, BridgeTypes, RootRecord, Vector

\* What Port Role Transitions calls, and what they call in turn.
LEMMA QuietMachinesExtend ==
  ASSUME NEW b \in Bridge, NEW p \in PortsOf(b), NEW t \in Tree,
         PstSm(t, p) \/ TcmSm(t, p) \/ PrtSm(t, p)
  PROVE  ExtendsBy(b, Quiet)
<1>0. p \in Port /\ Owner[p] = b
  BY DEF PortsOf
<1> DEFINE Q == Seq(NewFrames(b, Quiet))
<1>1. <<>> \in Q
  OBVIOUS
<1>3. CIST \in Tree
  BY PortsAreNumbers
<1>f. \A s \in Quiet : \A u \in Tree : Call(s, u, p) \in NewFrames(b, Quiet)
  BY CallTypes
<1>2. \A s \in Quiet : \A u \in Tree : <<Call(s, u, p)>> \in Q
  BY <1>f
<1>p. <<Call("PTX", CIST, p)>> \in Q /\ <<Call("TCM", t, p)>> \in Q /\ <<Call("PST", t, p)>> \in Q
  BY <1>2, <1>3 DEF Quiet
<1>e. \A calls \in Q : \A a : Loop(calls) \/ Return(calls) \/ LoopIf(a, calls) => ExtendsBy(b, Quiet)
  BY QuietCallsExtend
<1>4. CASE PstSm(t, p)
  BY <1>1, <1>p, <1>4, <1>e DEF PstSm, PstDiscarding, PstLearning, PstForwarding, PstReturn
<1>5. CASE TcmSm(t, p)
  <2>1. TcPropCalls(t, p) \in Q
    <3>1. "TC_PROP" \in Quiet
      BY DEF Quiet
    <3> QED
      BY <1>0, <1>1, <3>1, PortListCalls DEF TcPropCalls, SiblingSeq
  <2>2. TcPropCalls(t, p) \o <<Call("PTX", CIST, p)>> \in Q
    BY <1>p, <2>1
  <2> HIDE DEF Q
  <2> QED
    BY <1>1, <1>p, <1>5, <1>e, <2>1, <2>2
       DEF TcmSm, TcmInactive, TcmLearning, TcmDetected, TcmActive, TcmNotifiedTcn,
           TcmNotifiedTc, TcmPropagating, TcmAcknowledged, TcmReturn, TcProp
<1>6. CASE PrtSm(t, p)
  <2>1. Pst(t, p) \in Q
    BY <1>p DEF Pst
  <2>2. PstTcm(t, p) \in Q
    <3>1. Call("PST", t, p) \in NewFrames(b, Quiet) /\ Call("TCM", t, p) \in NewFrames(b, Quiet)
      BY <1>f DEF Quiet
    <3> QED
      BY <1>1, <3>1 DEF PstTcm
  <2> HIDE DEF Q
  <2>3. \A s : \A calls \in Q : PrtTo(t, p, s, calls) => ExtendsBy(b, Quiet)
    BY <1>e DEF PrtTo
  <2>4. PrtReturn(t, p) => ExtendsBy(b, Quiet)
    BY <1>1, <1>e DEF PrtReturn
  <2> QED
    BY <1>1, <1>p, <1>6, <2>1, <2>2, <2>3, <2>4
       DEF PrtSm, PrtInitPort, PrtStops, PrtDisablePort, PrtBlockPort, PrtRests,
           PrtDisabledPort, PrtAlternatePort, PrtBackupPort, PrtMasterPort,
           PrtDesignatedPort, PrtRootPort, PrtPropose, PrtProposed, PrtAgreed,
           PrtAlternateAgreed, PrtMasterAgreed, PrtSynced, PrtRootSynced, PrtReRoot,
           PrtRetired, PrtLearn, PrtForward, PrtRootForward, PrtDiscard
<1> QED
  BY <1>4, <1>5, <1>6

LEMMA TreeMachinesExtend ==
  ASSUME NEW b \in Bridge, NEW p \in PortsOf(b), NEW t \in Tree, TypeOK,
         PrsSm(t, p) \/ PimSm(t, p)
  PROVE  Extends(b)
<1>0. p \in Port /\ Owner[p] = b
  BY DEF PortsOf
<1>1. <<>> \in Calls(b)
  BY PortNamesCallable
<1>2. \A s \in MachineName \cup RestName : \A u \in Tree : <<Call(s, u, p)>> \in Calls(b)
  BY TreeCallTypes, PortNamesCallable
<1>3. CIST \in Tree
  BY PortsAreNumbers
<1>f. \A s \in MachineName \cup RestName : \A u \in Tree :
        Call(s, u, p) \in NewFrames(b, Callable)
  BY CallTypes, PortNamesCallable
<1>6. CASE PrsSm(t, p)
  <2>1. \A new \in {NewRoot(t, b)} : PrsCalls(t, b, new.port) \in Calls(b)
    BY NewRootPortHere, PrsCallTypes
  <2> QED
    BY <1>0, <1>1, <1>6, <2>1, CallsExtend DEF PrsSm, PrsInitTree, PrsRoleSelection, PrsReturn
<1>7. CASE PimSm(t, p)
  <2>1. OldRgn(p) \in Nat
    BY <1>0, <1>3, RootParts DEF OldRgn
  <2>2. SyncMstiCalls(p) \in Calls(b)
    BY TreeCallTypes, PortNamesCallable DEF SyncMstiCalls, RestName, PimSteps
  <2>3. TcFlagCalls(t, p) \in Calls(b) /\ ExternalSync(t, p) \in Calls(b)
    BY <1>1, <2>2, TreeCallTypes, PortNamesCallable DEF TcFlagCalls, ExternalSync, MachineName
  <2>4. TreeCalls("TCM", p) \in Calls(b)
    BY TreeCallTypes, PortNamesCallable DEF MachineName
  <2>5. \A f, g : f \in Calls(b) /\ g \in Calls(b) => f \o g \in Calls(b)
    BY Concatenation DEF Calls
  <2>6. \A calls \in Calls(b) : \A a : Loop(calls) \/ Return(calls) \/ LoopIf(a, calls) => Extends(b)
    BY CallsExtend
  <2>7. CASE PimDisabled(t, p) \/ PimCurrent(t, p) \/ PimOther(t, p) \/ PimReturn(t, p) \/ SyncMsti(t, p)
    BY <1>1, <1>2, <2>6, <2>7
       DEF PimDisabled, PimCurrent, PimOther, PimReturn, SyncMsti, MachineName
  <2>8. CASE PimAged(t, p) \/ PimRecord(t, p)
    <3>1. \A s \in RestName : <<Rest(s, t, p, OldRgn(p))>> \in Calls(b)
      <4>1. \A s \in RestName : Rest(s, t, p, OldRgn(p)) \in NewFrames(b, Callable)
        BY <2>1, CallTypes, PortNamesCallable
      <4> QED
        BY <4>1 DEF Calls
    <3>2. <<Call("PRS", t, p)>> \in Calls(b) /\ <<Call("TCM", t, p)>> \in Calls(b)
      BY <1>2 DEF MachineName
    <3>3. <<Call("PRS", t, p)>>
            \o (IF t = CIST THEN <<Rest("PIM_AGED", t, p, OldRgn(p))>> ELSE <<>>) \in Calls(b)
      BY <1>1, <2>5, <3>1, <3>2 DEF RestName, PimSteps
    <3>4. <<Rest("PIM_SELECTED", t, p, OldRgn(p)), Call("PIM_DONE", t, p)>> \in Calls(b)
      <4>1. /\ Rest("PIM_SELECTED", t, p, OldRgn(p)) \in NewFrames(b, Callable)
            /\ Call("PIM_DONE", t, p) \in NewFrames(b, Callable)
        BY <2>1, CallTypes, PortNamesCallable DEF RestName, PimSteps
      <4> QED
        BY <4>1 DEF Calls
    <3>5. <<Call("PRS", t, p)>>
            \o (IF t = CIST THEN <<Rest("PIM_SELECTED", t, p, OldRgn(p)), Call("PIM_DONE", t, p)>>
                ELSE <<Call("TCM", t, p)>>) \in Calls(b)
      BY <2>5, <3>2, <3>4
    <3> QED
      BY <1>1, <2>6, <2>8, <3>3, <3>5 DEF PimAged, PimRecord
  <2>9. CASE PimUpdate(t, p)
    <3>1. <<Call("PRT", t, p), Call("PTX", CIST, p)>> \in Calls(b)
      <4>1. /\ Call("PRT", t, p) \in NewFrames(b, Callable)
            /\ Call("PTX", CIST, p) \in NewFrames(b, Callable)
        BY <1>f, <1>3 DEF MachineName
      <4> QED
        BY <4>1 DEF Calls
    <3> QED
      BY <1>1, <2>6, <2>9, <3>1 DEF PimUpdate
  <2>10. CASE PimReceive(t, p)
    BY <1>1, <2>4, <2>6, <2>10 DEF PimReceive
  <2>11. CASE PimSuperior(t, p)
    <3>1. <<Call("PIM_RECORD", t, p)>> \in Calls(b)
      BY <1>2 DEF RestName, PimSteps
    <3> QED
      BY <2>3, <2>5, <2>6, <2>11, <3>1 DEF PimSuperior
  <2>12. CASE PimRepeated(t, p)
    <3>1. <<Call("PRT", t, p), Call("TCM", t, p)>> \in Calls(b)
      <4>1. /\ Call("PRT", t, p) \in NewFrames(b, Callable)
            /\ Call("TCM", t, p) \in NewFrames(b, Callable)
        BY <1>f DEF MachineName
      <4> QED
        BY <4>1 DEF Calls
    <3> QED
      BY <2>3, <2>5, <2>6, <2>12, <3>1 DEF PimRepeated
  <2>13. CASE PimInferior(t, p) \/ PimNotDesignated(t, p)
    <3>1. <<Call("PRT", t, p)>> \in Calls(b) /\ <<Call("TCM", t, p)>> \in Calls(b)
      BY <1>2 DEF MachineName
    <3> DEFINE flags == TcFlagCalls(t, p)
               prt == <<Call("PRT", t, p)>>
               sync == ExternalSync(t, p)
               tcm == <<Call("TCM", t, p)>>
    <3>2. prt \o sync \in Calls(b) /\ flags \o prt \o sync \o tcm \in Calls(b)
      <4>1. flags \in Calls(b) /\ prt \in Calls(b) /\ sync \in Calls(b) /\ tcm \in Calls(b)
        BY <2>3, <3>1
      <4> HIDE DEF flags, prt, sync, tcm
      <4> QED
        BY <2>5, <4>1
    <3>3. Loop(prt \o sync) \/ Loop(flags \o prt \o sync \o tcm)
      BY <2>13 DEF PimInferior, PimNotDesignated
    <3> HIDE DEF flags, prt, sync, tcm
    <3> QED
      BY <2>6, <3>2, <3>3
  <2>14. CASE PimAgedRest(p) \/ PimSelected(p) \/ PimDone(p)
    BY <1>1, <1>2, <1>3, <2>2, <2>6, <2>14 DEF PimAgedRest, PimSelected, PimDone, MachineName
  <2> QED
    BY <1>7, <2>7, <2>8, <2>9, <2>10, <2>11, <2>12, <2>13, <2>14 DEF PimSm
<1> QED
  BY <1>6, <1>7

LEMMA ControlStepsExtend ==
  ASSUME NEW b \in Bridge, NEW p \in PortsOf(b)
  PROVE  /\ BeginDone(p) => ExtendsBy(b, {"ENABLE_PORT"})
         /\ EnablePort(p) => Extends(b)
         /\ PendingTx(p) => ExtendsBy(b, {"PTX"})
         /\ InformDBStep(p) => stk' = <<>> \o Tail(stk)
<1>0. p \in Port /\ Owner[p] = b /\ CIST \in Tree
  BY PortsAreNumbers DEF PortsOf
<1>1. ASSUME BeginDone(p) PROVE ExtendsBy(b, {"ENABLE_PORT"})
  <2> DEFINE f == [q \in PortsOf(b) |-> EnableIfUp(q)]
             calls == JoinOver(b, f)
  <2>1. ASSUME NEW q \in PortsOf(b)
        PROVE  EnableIfUp(q) \in Seq(NewFrames(b, {"ENABLE_PORT"}))
    <3> DEFINE x == Call("ENABLE_PORT", CIST, q)
               S == NewFrames(b, {"ENABLE_PORT"})
    <3>1. x \in S
      BY <1>0, CallTypes
    <3>2. EnableIfUp(q) \in {<<>>, <<x>>}
      BY DEF EnableIfUp
    <3> HIDE DEF x, S
    <3>3. <<>> \in Seq(S) /\ <<x>> \in Seq(S)
      BY <3>1
    <3> QED
      BY <3>2, <3>3 DEF S
  <2>2. f \in [PortsOf(b) -> Seq(NewFrames(b, {"ENABLE_PORT"}))]
    BY <2>1
  <2>3. JoinPorts(b, EnableIfUp) = calls
    <3>1. \A i \in DOMAIN LPorts[b] : LPorts[b][i] \in PortsOf(b)
      BY LPortsType
    <3>2. [i \in DOMAIN LPorts[b] |-> EnableIfUp(LPorts[b][i])] = [i \in DOMAIN LPorts[b] |-> f[LPorts[b][i]]]
      BY <3>1
    <3> QED
      BY <3>2, Zenon DEF JoinPorts, JoinOver
  <2>4. stk' = calls \o Tail(stk)
    BY <1>0, <1>1, <2>3 DEF BeginDone, Return
  <2> HIDE DEF f
  <2>5. calls \in Seq(NewFrames(b, {"ENABLE_PORT"}))
    BY <2>2, JoinOverHolds
  <2> HIDE DEF calls
  <2> QED
    BY <2>4, <2>5 DEF ExtendsBy
<1>2. ASSUME EnablePort(p) PROVE Extends(b)
  <2> DEFINE first == <<Call("PRX", CIST, p), Call("PPM", CIST, p)>>
             last == <<Call("PENDING_TX", CIST, p)>>
  <2>1. /\ Call("PRX", CIST, p) \in NewFrames(b, Callable)
        /\ Call("PPM", CIST, p) \in NewFrames(b, Callable)
        /\ Call("PENDING_TX", CIST, p) \in NewFrames(b, Callable)
    BY <1>0, CallTypes DEF Callable, MachineName
  <2>2. first \in Calls(b) /\ last \in Calls(b)
    BY <2>1 DEF Calls
  <2>3. TreeCalls("PIM", p) \in Calls(b) /\ <<>> \in Calls(b)
    BY TreeCallTypes, PortNamesCallable DEF MachineName
  <2>4. Return(first \o TreeCalls("PIM", p) \o last) \/ Return(<<>>)
    BY <1>2 DEF EnablePort
  <2> HIDE DEF first, last
  <2>5. first \o TreeCalls("PIM", p) \o last \in Calls(b)
    BY <2>2, <2>3, Concatenation DEF Calls
  <2> QED
    BY <2>3, <2>4, <2>5, CallsExtend
<1>3. ASSUME PendingTx(p) PROVE ExtendsBy(b, {"PTX"})
  <2> DEFINE f == [q \in PortsOf(b) |-> PendingTxCall(q)]
             calls == JoinOver(b, f)
  <2>1. ASSUME NEW q \in PortsOf(b)
        PROVE  PendingTxCall(q) \in Seq(NewFrames(b, {"PTX"}))
    <3> DEFINE x == Call("PTX", CIST, q)
               S == NewFrames(b, {"PTX"})
    <3>1. x \in S
      BY <1>0, CallTypes
    <3>2. PendingTxCall(q) \in {<<>>, <<x>>}
      BY DEF PendingTxCall
    <3> HIDE DEF x, S
    <3>3. <<>> \in Seq(S) /\ <<x>> \in Seq(S)
      BY <3>1
    <3> QED
      BY <3>2, <3>3 DEF S
  <2>2. f \in [PortsOf(b) -> Seq(NewFrames(b, {"PTX"}))]
    BY <2>1
  <2>3. JoinPorts(b, PendingTxCall) = calls
    <3>1. \A i \in DOMAIN LPorts[b] : LPorts[b][i] \in PortsOf(b)
      BY LPortsType
    <3>2. [i \in DOMAIN LPorts[b] |-> PendingTxCall(LPorts[b][i])] = [i \in DOMAIN LPorts[b] |-> f[LPorts[b][i]]]
      BY <3>1
    <3> QED
      BY <3>2, Zenon DEF JoinPorts, JoinOver
  <2>4. stk' = calls \o Tail(stk)
    BY <1>0, <1>3, <2>3 DEF PendingTx, Return
  <2> HIDE DEF f
  <2>5. calls \in Seq(NewFrames(b, {"PTX"}))
    BY <2>2, JoinOverHolds
  <2> HIDE DEF calls
  <2> QED
    BY <2>4, <2>5 DEF ExtendsBy
<1>4. ASSUME InformDBStep(p) PROVE stk' = <<>> \o Tail(stk)
  BY <1>4 DEF InformDBStep, Return
<1> QED
  BY <1>1, <1>2, <1>3, <1>4

-----------------------------------------------------------------------------
(* Where the frames of a stack are after a step.                             *)

LEMMA FramesMove ==
  ASSUME NEW b, NEW names, names \subseteq FrameName,
         stk \in Seq(Frames(b, FrameName)), stk # <<>>, ExtendsBy(b, names)
  PROVE  /\ stk' \in Seq(Frames(b, FrameName))
         /\ \E d \in Int :
              /\ Len(stk') = Len(stk) + d
              /\ \A i \in 2..Len(stk) : i + d \in 1..Len(stk') /\ stk'[i + d] = stk[i]
              /\ \A j \in 1..(1 + d) :
                   stk'[j] \in NewFrames(b, names) \/ (j = 1 + d /\ stk'[j] = Looping)
<1>1. PICK calls \in Seq(NewFrames(b, names)) :
        stk' = calls \o Tail(stk) \/ stk' = calls \o <<Looping>> \o Tail(stk)
  BY DEF ExtendsBy
<1>2. /\ Tail(stk) \in Seq(Frames(b, FrameName)) /\ Len(Tail(stk)) = Len(stk) - 1
      /\ \A i \in 2..Len(stk) : i - 1 \in DOMAIN Tail(stk) /\ Tail(stk)[i - 1] = stk[i]
  OBVIOUS
<1>3. Looping \in Frames(b, FrameName)
  <2>1. Head(stk) \in Frames(b, FrameName)
    OBVIOUS
  <2> QED
    BY <2>1 DEF Looping, Frames
<1>4. calls \in Seq(Frames(b, FrameName))
  <2>1. NewFrames(b, names) \subseteq Frames(b, FrameName)
    BY DEF Frames, NewFrames
  <2> QED
    BY <2>1
<1>5. \A j \in 1..Len(calls) : calls[j] \in NewFrames(b, names)
  OBVIOUS
<1> DEFINE T == Tail(stk)
           D == Frames(b, FrameName)
           L == Looping
<1>6. T \in Seq(D) /\ calls \in Seq(D) /\ <<L>> \in Seq(D)
  BY <1>2, <1>3, <1>4
<1>7. CASE stk' = calls \o T
  <2> HIDE DEF T, D
  <2>1. /\ stk' \in Seq(D) /\ Len(stk') = Len(calls) + Len(T)
        /\ \A i \in DOMAIN calls : stk'[i] = calls[i]
        /\ \A j \in DOMAIN T : Len(calls) + j \in DOMAIN stk' /\ stk'[Len(calls) + j] = T[j]
    BY <1>6, <1>7, Concatenation
  <2>2. Len(calls) \in Nat /\ Len(stk) \in Nat /\ Len(T) = Len(stk) - 1
    BY <1>2 DEF T
  <2>3. \A i \in 2..Len(stk) : /\ i + (Len(calls) - 1) \in 1..Len(stk')
                              /\ stk'[i + (Len(calls) - 1)] = stk[i]
    <3> SUFFICES ASSUME NEW i \in 2..Len(stk)
                 PROVE  /\ i + (Len(calls) - 1) \in 1..Len(stk')
                        /\ stk'[i + (Len(calls) - 1)] = stk[i]
      OBVIOUS
    <3>1. i - 1 \in DOMAIN T /\ T[i - 1] = stk[i]
      BY <1>2 DEF T
    <3>2. Len(calls) + (i - 1) \in DOMAIN stk' /\ stk'[Len(calls) + (i - 1)] = T[i - 1]
      BY <2>1, <3>1
    <3>3. Len(calls) + (i - 1) = i + (Len(calls) - 1) /\ DOMAIN stk' = 1..Len(stk')
      BY <2>1, <2>2
    <3> QED
      BY <3>1, <3>2, <3>3
  <2>4. /\ Len(calls) - 1 \in Int /\ Len(stk') = Len(stk) + (Len(calls) - 1)
        /\ \A j \in 1..(1 + (Len(calls) - 1)) : stk'[j] \in NewFrames(b, names)
    BY <1>5, <2>1, <2>2
  <2> QED
    BY <2>1, <2>3, <2>4 DEF D
<1>8. CASE stk' = calls \o <<L>> \o T
  <2> DEFINE c == calls \o <<L>>
  <2>1. /\ c \in Seq(D) /\ Len(c) = Len(calls) + 1
        /\ \A j \in 1..Len(c) : c[j] \in NewFrames(b, names) \/ (j = Len(c) /\ c[j] = L)
    <3> HIDE DEF T, D, L
    <3> QED
      BY <1>5, <1>6
  <2>2. stk' = c \o T
    BY <1>8
  <2>a. T \in Seq(D) /\ c \in Seq(D)
    BY <1>6, <2>1
  <2> HIDE DEF T, D, c, L
  <2>3. /\ stk' \in Seq(D) /\ Len(stk') = Len(c) + Len(T)
        /\ \A i \in DOMAIN c : stk'[i] = c[i]
        /\ \A j \in DOMAIN T : Len(c) + j \in DOMAIN stk' /\ stk'[Len(c) + j] = T[j]
    <3>1. /\ c \o T \in Seq(D) /\ Len(c \o T) = Len(c) + Len(T)
          /\ \A i \in DOMAIN c : (c \o T)[i] = c[i]
          /\ \A j \in DOMAIN T : Len(c) + j \in DOMAIN (c \o T) /\ (c \o T)[Len(c) + j] = T[j]
      BY <2>a, Concatenation
    <3> QED
      BY <2>2, <3>1
  <2>4. Len(c) \in Nat /\ Len(stk) \in Nat /\ Len(T) = Len(stk) - 1
    BY <1>2, <2>1 DEF T
  <2>5. \A i \in 2..Len(stk) : /\ i + (Len(c) - 1) \in 1..Len(stk')
                              /\ stk'[i + (Len(c) - 1)] = stk[i]
    <3> SUFFICES ASSUME NEW i \in 2..Len(stk)
                 PROVE  /\ i + (Len(c) - 1) \in 1..Len(stk')
                        /\ stk'[i + (Len(c) - 1)] = stk[i]
      OBVIOUS
    <3>1. i - 1 \in DOMAIN T /\ T[i - 1] = stk[i]
      BY <1>2 DEF T
    <3>2. Len(c) + (i - 1) \in DOMAIN stk' /\ stk'[Len(c) + (i - 1)] = T[i - 1]
      BY <2>3, <3>1
    <3>3. Len(c) + (i - 1) = i + (Len(c) - 1) /\ DOMAIN stk' = 1..Len(stk')
      BY <2>3, <2>4
    <3> QED
      BY <3>1, <3>2, <3>3
  <2> DEFINE e == Len(c) - 1
  <2>7. e \in Int /\ Len(stk') = Len(stk) + e /\ 1 + e = Len(c)
    BY <2>3, <2>4
  <2>8. \A i \in 2..Len(stk) : i + e \in 1..Len(stk') /\ stk'[i + e] = stk[i]
    BY <2>5
  <2>9. \A j \in 1..Len(c) : stk'[j] \in NewFrames(b, names) \/ (j = Len(c) /\ stk'[j] = Looping)
    <3>1. \A j \in 1..Len(c) : stk'[j] = c[j]
      BY <2>1, <2>3
    <3>2. L = Looping
      BY DEF L
    <3> QED
      BY <2>1, <3>1, <3>2
  <2> HIDE DEF e
  <2>10. \A j \in 1..(1 + e) : stk'[j] \in NewFrames(b, names) \/ (j = 1 + e /\ stk'[j] = Looping)
    BY <2>7, <2>9
  <2>11. stk' \in Seq(Frames(b, FrameName))
    BY <2>3 DEF D
  <2> QED
    BY <2>7, <2>8, <2>10, <2>11
<1> QED
  BY <1>1, <1>7, <1>8

-----------------------------------------------------------------------------
(* The stack of a step, and the stacks events start with.                    *)

\* what a frame may put above itself
CalledBy(s) ==
  CASE s = "PENDING_TX" -> {"PTX"}
    [] s = "BEGIN_DONE" -> {"ENABLE_PORT"}
    [] s \in {"PTX", "INFORM_DB"} -> {}
    [] s \in {"PRT", "PST", "TCM", "TC_PROP"} -> Quiet
    [] OTHER -> Callable

LEMMA CalledByNames ==
  ASSUME NEW s
  PROVE  CalledBy(s) \subseteq FrameName
BY QuietCallable DEF CalledBy, FrameName, Callable, MachineName

LEMMA PtxExtends ==
  ASSUME NEW b, NEW p, PtxSm(p)
  PROVE  ExtendsBy(b, {})
<1>1. <<>> \in Seq(NewFrames(b, {}))
  OBVIOUS
<1>2. \A a : Loop(<<>>) \/ Return(<<>>) \/ LoopIf(a, <<>>) => ExtendsBy(b, {})
  BY <1>1 DEF ExtendsBy, Loop, Return, LoopIf, Looping
<1> QED
  BY <1>2 DEF PtxSm, PtxInit, PtxIdle, PtxPeriodic, PtxConfig, PtxTcn, PtxRstp, PtxReturn,
              Transmitted

LEMMA RunStepExtends ==
  ASSUME NEW b \in Bridge, TypeOK, stk \in Seq(Frames(b, FrameName)), stk # <<>>, RunStep
  PROVE  ExtendsBy(b, CalledBy(Head(stk).sm))
<1>1. PICK t \in Tree, p \in Port : Head(stk).t = t /\ Head(stk).p = p /\ Runs(Head(stk).sm, t, p)
  BY DEF RunStep
<1> DEFINE s == Head(stk).sm
<1>2. p \in PortsOf(b)
  <2>1. Head(stk) \in Frames(b, FrameName)
    OBVIOUS
  <2> QED
    BY <1>1, <2>1 DEF Frames
<1>3. CASE s \notin {"PENDING_TX", "BEGIN_DONE", "PTX", "INFORM_DB", "PRT", "PST", "TCM", "TC_PROP"}
  <2>1. CalledBy(s) = Callable
    BY <1>3 DEF CalledBy
  <2>2. CASE EnablePort(p)
    BY <1>2, <2>1, <2>2, ControlStepsExtend DEF Extends
  <2>3. ~BeginDone(p) /\ ~PendingTx(p) /\ ~InformDBStep(p)
    BY <1>3 DEF BeginDone, PendingTx, InformDBStep, Running
  <2>4. CASE PpmSm(p) \/ BdmSm(p) \/ PrxSm(p) \/ PtiSm(p)
    BY <1>2, <2>1, <2>4, PortMachinesExtend DEF Extends
  <2>5. CASE PrsSm(t, p) \/ PimSm(t, p)
    BY <1>2, <2>1, <2>5, TreeMachinesExtend DEF Extends
  <2> QED
    BY <1>1, <1>3, <2>2, <2>3, <2>4, <2>5 DEF Runs
<1>4. CASE s = "PTX"
  <2>1. PtxSm(p)
    BY <1>1, <1>4 DEF Runs, TickSteps, PimSteps, BeginDone, EnablePort, PendingTx, InformDBStep, Running
  <2> QED
    BY <1>4, <2>1, PtxExtends DEF CalledBy
<1>5. CASE s = "PENDING_TX"
  <2>1. PendingTx(p)
    BY <1>1, <1>5 DEF Runs, TickSteps, PimSteps, BeginDone, EnablePort, InformDBStep, Running
  <2> QED
    BY <1>2, <1>5, <2>1, ControlStepsExtend DEF CalledBy
<1>6. CASE s = "INFORM_DB"
  <2>1. InformDBStep(p)
    BY <1>1, <1>6 DEF Runs, TickSteps, PimSteps, BeginDone, EnablePort, PendingTx, Running
  <2>2. <<>> \in Seq(NewFrames(b, {})) /\ stk' = <<>> \o Tail(stk)
    BY <1>2, <2>1, ControlStepsExtend
  <2> QED
    BY <1>6, <2>2 DEF CalledBy, ExtendsBy
<1>7. CASE s \in {"PRT", "PST", "TCM", "TC_PROP"}
  <2>1. PstSm(t, p) \/ TcmSm(t, p) \/ PrtSm(t, p)
    BY <1>1, <1>7 DEF Runs, TickSteps, PimSteps, BeginDone, EnablePort, PendingTx, InformDBStep,
       Running
  <2> QED
    BY <1>2, <1>7, <2>1, QuietMachinesExtend DEF CalledBy
<1>8. CASE s = "BEGIN_DONE"
  <2>1. BeginDone(p)
    BY <1>1, <1>8 DEF Runs, TickSteps, PimSteps, EnablePort, PendingTx, InformDBStep, Running
  <2> QED
    BY <1>2, <1>8, <2>1, ControlStepsExtend DEF CalledBy
<1> QED
  BY <1>3, <1>4, <1>5, <1>6, <1>7, <1>8

LEMMA TreeMachineCallsHold ==
  ASSUME NEW b \in Bridge, NEW p \in PortsOf(b)
  PROVE  /\ TreeMachineCalls(p) \in Calls(b)
         /\ \A t \in Tree : \E j \in DOMAIN TreeMachineCalls(p) :
              TreeMachineCalls(p)[j] = Call("PST", t, p)
<1> DEFINE n == Len(MstiSeq)
           sm(i) == <<"PRT", "PST", "TCM">>[1 + ((i - 1) % 3)]
           t(i) == IF i <= 3 THEN CIST ELSE MstiSeq[(i - 1) \div 3]
<1>1. n \in Nat /\ \A k \in 1..n : MstiSeq[k] \in Tree
  BY MstiSeqType
<1>2. ASSUME NEW i \in 1..3 * (1 + n)
      PROVE  sm(i) \in MachineName /\ t(i) \in Tree
  <2>1. 1 + ((i - 1) % 3) \in 1..3
    BY <1>1
  <2>2. i > 3 => (i - 1) \div 3 \in 1..n
    BY <1>1
  <2> QED
    BY <1>1, <2>1, <2>2, PortsAreNumbers DEF MachineName
<1>3. TreeMachineCalls(p) = [i \in 1..3 * (1 + n) |-> Call(sm(i), t(i), p)]
  BY DEF TreeMachineCalls
<1>4. \A k \in 1..n : /\ 3 * k + 2 \in 1..3 * (1 + n)
                      /\ sm(3 * k + 2) = "PST" /\ t(3 * k + 2) = MstiSeq[k]
  <2> SUFFICES ASSUME NEW k \in 1..n
               PROVE  /\ 3 * k + 2 \in 1..3 * (1 + n)
                      /\ sm(3 * k + 2) = "PST" /\ t(3 * k + 2) = MstiSeq[k]
    OBVIOUS
  <2>1. /\ 3 * k + 2 \in 1..3 * (1 + n) /\ 3 * k + 2 > 3
        /\ (3 * k + 1) % 3 = 1 /\ (3 * k + 1) \div 3 = k /\ (3 * k + 2) - 1 = 3 * k + 1
    BY <1>1
  <2> QED
    BY <2>1
<1>5. 2 \in 1..3 * (1 + n) /\ sm(2) = "PST" /\ t(2) = CIST
  BY <1>1
<1> HIDE DEF sm, t, n
<1>6. \A i \in 1..3 * (1 + n) : Call(sm(i), t(i), p) \in NewFrames(b, Callable)
  BY <1>2, CallTypes, PortNamesCallable
<1>7. TreeMachineCalls(p) \in Calls(b)
  <2>1. TreeMachineCalls(p) \in [1..3 * (1 + n) -> NewFrames(b, Callable)] /\ 3 * (1 + n) \in Nat
    BY <1>1, <1>3, <1>6
  <2> QED
    BY <2>1 DEF Calls
<1>8. ASSUME NEW u \in Tree
      PROVE  \E j \in DOMAIN TreeMachineCalls(p) : TreeMachineCalls(p)[j] = Call("PST", u, p)
  <2>1. CASE u = CIST
    BY <1>3, <1>5, <2>1
  <2>2. CASE u # CIST
    <3>1. PICK k \in 1..n : MstiSeq[k] = u
      BY <2>2 DEF Tree, Msti, n
    <3> QED
      BY <1>3, <1>4, <3>1
  <2> QED
    BY <2>1, <2>2
<1> QED
  BY <1>7, <1>8

LEMMA AllMachineCallsHold ==
  ASSUME NEW b \in Bridge, NEW p \in PortsOf(b)
  PROVE  /\ AllMachineCalls(p) \in Calls(b)
         /\ \A t \in Tree : \E j \in DOMAIN AllMachineCalls(p) :
              AllMachineCalls(p)[j] = Call("PST", t, p)
<1> DEFINE c == PortMachineCalls(p)
           d == TreeMachineCalls(p)
<1>1. c \in Calls(b)
  <2>1. \A s \in MachineName : Call(s, CIST, p) \in NewFrames(b, Callable)
    BY CallTypes, PortNamesCallable, PortsAreNumbers
  <2>2. /\ Call("PPM", CIST, p) \in NewFrames(b, Callable) /\ Call("BDM", CIST, p) \in NewFrames(b, Callable)
        /\ Call("PRX", CIST, p) \in NewFrames(b, Callable) /\ Call("PTX", CIST, p) \in NewFrames(b, Callable)
        /\ Call("PTI", CIST, p) \in NewFrames(b, Callable)
    BY <2>1 DEF MachineName
  <2> QED
    BY <2>2 DEF PortMachineCalls, Calls
<1>2. /\ d \in Calls(b)
      /\ \A t \in Tree : \E j \in DOMAIN d : d[j] = Call("PST", t, p)
  BY TreeMachineCallsHold
<1> HIDE DEF c, d
<1>3. c \in Seq(NewFrames(b, Callable)) /\ d \in Seq(NewFrames(b, Callable))
  BY <1>1, <1>2 DEF Calls
<1>4. /\ c \o d \in Seq(NewFrames(b, Callable))
      /\ \A j \in DOMAIN d : Len(c) + j \in DOMAIN (c \o d) /\ (c \o d)[Len(c) + j] = d[j]
  BY <1>3, Concatenation
<1>5. \A t \in Tree : \E j \in DOMAIN (c \o d) : (c \o d)[j] = Call("PST", t, p)
  BY <1>2, <1>4
<1> QED
  BY <1>4, <1>5 DEF AllMachineCalls, Calls, c, d

\* every call but a transmission is made before the database is informed
Informed(s) ==
  \A i \in DOMAIN s : s[i].sm \notin {"PTX", "PENDING_TX"} =>
    \E k \in DOMAIN s : k >= i /\ s[k].sm = "INFORM_DB"

LEMMA InformedStack ==
  ASSUME NEW b, NEW calls \in Seq(NewFrames(b, FrameName)),
         NEW x \in NewFrames(b, FrameName), x.sm = "INFORM_DB"
  PROVE  /\ calls \o <<x>> \in Seq(NewFrames(b, FrameName))
         /\ \A i \in DOMAIN calls : i \in DOMAIN (calls \o <<x>>) /\ (calls \o <<x>>)[i] = calls[i]
         /\ Informed(calls \o <<x>>)
<1> DEFINE s == calls \o <<x>>
           n == Len(calls) + 1
<1>1. s \in Seq(NewFrames(b, FrameName)) /\ Len(s) = n /\ s[n] = x /\ n \in Nat
  OBVIOUS
<1>2. \A i \in DOMAIN calls : i \in DOMAIN s /\ s[i] = calls[i]
  OBVIOUS
<1> HIDE DEF s, n
<1>3. Informed(s)
  BY <1>1 DEF Informed
<1> QED
  BY <1>1, <1>2, <1>3 DEF s

LEMMA FrameNames ==
  ASSUME NEW b \in Bridge
  PROVE  /\ Calls(b) \subseteq Seq(NewFrames(b, FrameName))
         /\ InformDB(b) \in NewFrames(b, FrameName) /\ InformDB(b).sm = "INFORM_DB"
         /\ InformDBOnTimer(b) \in NewFrames(b, FrameName) /\ InformDBOnTimer(b).sm = "INFORM_DB"
         /\ Call("BEGIN_DONE", CIST, FirstPort(b)) \in NewFrames(b, FrameName)
<1>1. "INFORM_DB" \in FrameName /\ "BEGIN_DONE" \in FrameName /\ Callable \subseteq FrameName
  BY DEF FrameName
<1>2. FirstPort(b) \in PortsOf(b) /\ CIST \in Tree
  BY LPortsType, PortsAreNumbers
<1>3. NewFrames(b, Callable) \subseteq NewFrames(b, FrameName)
  BY <1>1 DEF NewFrames
<1>4. Calls(b) \subseteq Seq(NewFrames(b, FrameName))
  BY <1>3 DEF Calls
<1>5. InformDB(b).sm = "INFORM_DB" /\ InformDBOnTimer(b).sm = "INFORM_DB"
  BY DEF InformDB, InformDBOnTimer, Rest, Call
<1> QED
  BY <1>1, <1>2, <1>4, <1>5, CallTypes DEF InformDB, InformDBOnTimer

\* What mstp_initStateMachines does: Port State Transition of every port runs
\* before BEGIN is cleared.
LEMMA InitStateMachinesHolds ==
  ASSUME NEW b \in Bridge
  PROVE  \E calls \in Calls(b) :
           /\ InitStateMachines(b) = calls \o <<Call("BEGIN_DONE", CIST, FirstPort(b))>>
           /\ \A t \in Tree, p \in PortsOf(b) : \E i \in DOMAIN calls : calls[i] = Call("PST", t, p)
<1> DEFINE S == NewFrames(b, Callable)
           F == [p \in PortsOf(b) |-> PimCalls(p)]
           G == [p \in PortsOf(b) |-> AllMachineCalls(p)]
           pims == JoinOver(b, F)
           all == JoinOver(b, G)
           prss == TreeCalls("PRS", FirstPort(b))
<1>1. \A i \in DOMAIN LPorts[b] : LPorts[b][i] \in PortsOf(b)
  BY LPortsType
<1>2. JoinPorts(b, PimCalls) = pims
  <2>1. [i \in DOMAIN LPorts[b] |-> PimCalls(LPorts[b][i])] = [i \in DOMAIN LPorts[b] |-> F[LPorts[b][i]]]
    BY <1>1
  <2> QED
    BY <2>1, Zenon DEF JoinPorts, JoinOver
<1>3. JoinPorts(b, AllMachineCalls) = all
  <2>1. [i \in DOMAIN LPorts[b] |-> AllMachineCalls(LPorts[b][i])]
          = [i \in DOMAIN LPorts[b] |-> G[LPorts[b][i]]]
    BY <1>1
  <2> QED
    BY <2>1, Zenon DEF JoinPorts, JoinOver
<1>4. F \in [PortsOf(b) -> Seq(S)]
  BY TreeCallTypes, PortNamesCallable DEF PimCalls, Calls, MachineName
<1>5. G \in [PortsOf(b) -> Seq(S)]
  BY AllMachineCallsHold DEF Calls
<1>6. \A p \in PortsOf(b) : \A t \in Tree : \E j \in DOMAIN G[p] : G[p][j] = Call("PST", t, p)
  BY AllMachineCallsHold
<1>7. prss \in Seq(S)
  BY LPortsType, TreeCallTypes, PortNamesCallable DEF Calls, MachineName
<1>8. InitStateMachines(b) = ((pims \o prss) \o all) \o <<Call("BEGIN_DONE", CIST, FirstPort(b))>>
  BY <1>2, <1>3 DEF InitStateMachines
<1> HIDE DEF F, G, prss
<1>9. pims \in Seq(S)
  BY <1>4, JoinOverHolds
<1>10. /\ all \in Seq(S)
       /\ \A p \in PortsOf(b) : \A j \in DOMAIN G[p] : \E i \in DOMAIN all : all[i] = G[p][j]
  BY <1>5, JoinOverHolds
<1> HIDE DEF pims, all
<1>11. pims \o prss \in Seq(S)
  BY <1>7, <1>9, Concatenation
<1> DEFINE first == pims \o prss
<1> HIDE DEF first
<1>12. /\ first \o all \in Seq(S)
       /\ \A j \in DOMAIN all : /\ Len(first) + j \in DOMAIN (first \o all)
                              /\ (first \o all)[Len(first) + j] = all[j]
  BY <1>10, <1>11, Concatenation DEF first
<1>13. \A t \in Tree, p \in PortsOf(b) :
         \E i \in DOMAIN (first \o all) : (first \o all)[i] = Call("PST", t, p)
  <2> SUFFICES ASSUME NEW t \in Tree, NEW p \in PortsOf(b)
               PROVE  \E i \in DOMAIN (first \o all) : (first \o all)[i] = Call("PST", t, p)
    OBVIOUS
  <2>1. PICK j \in DOMAIN G[p] : G[p][j] = Call("PST", t, p)
    BY <1>6
  <2>2. PICK i \in DOMAIN all : all[i] = G[p][j]
    BY <1>10
  <2> QED
    BY <1>12, <2>1, <2>2
<1> QED
  BY <1>8, <1>12, <1>13 DEF Calls, first, S

\* The stack an event starts with.
Started(b) ==
  \/ stk' = <<>>
  \/ Spanning(b)' /\ stk' \in Seq(NewFrames(b, FrameName)) /\ Informed(stk')

LEMMA EnableStarts ==
  ASSUME NEW b \in Bridge, Enable(b), TypeOK
  PROVE  /\ Started(b) /\ ctl'[b].spanning
         /\ \E i \in DOMAIN stk' : stk'[i] = Call("BEGIN_DONE", CIST, FirstPort(b))
         /\ \A t \in Tree, p \in PortsOf(b) : \E i \in DOMAIN stk' :
              /\ stk'[i] = Call("PST", t, p)
              /\ \A j \in 1..i : stk'[j].sm # "BEGIN_DONE"
<1>1. ctl'[b].spanning
  BY DEF Enable, TypeOK, BridgeTypes
<1>2. PICK calls \in Calls(b) :
        /\ InitStateMachines(b) = calls \o <<Call("BEGIN_DONE", CIST, FirstPort(b))>>
        /\ \A t \in Tree, p \in PortsOf(b) : \E i \in DOMAIN calls : calls[i] = Call("PST", t, p)
  BY InitStateMachinesHolds
<1> DEFINE done == Call("BEGIN_DONE", CIST, FirstPort(b))
           init == calls \o <<done>>
           x == InformDB(b)
<1>3. stk' = init \o <<x>>
  BY <1>2 DEF Enable
<1>4. calls \in Seq(NewFrames(b, FrameName)) /\ done \in NewFrames(b, FrameName)
      /\ x \in NewFrames(b, FrameName) /\ x.sm = "INFORM_DB"
  BY FrameNames
<1>5. \A i \in DOMAIN calls : calls[i].sm # "BEGIN_DONE"
  <2>1. \A i \in DOMAIN calls : calls[i] \in NewFrames(b, Callable)
    BY DEF Calls
  <2>2. "BEGIN_DONE" \notin Callable
    BY DEF Callable, MachineName, RestName, TickSteps, PimSteps
  <2> QED
    BY <2>1, <2>2 DEF NewFrames
<1> HIDE DEF done, x
<1>6. /\ init \in Seq(NewFrames(b, FrameName)) /\ DOMAIN init = 1..(Len(calls) + 1)
      /\ Len(calls) \in Nat /\ DOMAIN calls = 1..Len(calls)
      /\ \A i \in DOMAIN calls : init[i] = calls[i]
      /\ init[Len(calls) + 1] = done
  BY <1>4
<1> HIDE DEF init
<1>7. /\ stk' \in Seq(NewFrames(b, FrameName)) /\ Informed(stk')
      /\ \A i \in DOMAIN init : i \in DOMAIN stk' /\ stk'[i] = init[i]
  BY <1>3, <1>4, <1>6, InformedStack
<1>8. \E i \in DOMAIN stk' : stk'[i] = done
  BY <1>6, <1>7
<1>9. ASSUME NEW t \in Tree, NEW p \in PortsOf(b)
      PROVE  \E i \in DOMAIN stk' : /\ stk'[i] = Call("PST", t, p)
                                  /\ \A j \in 1..i : stk'[j].sm # "BEGIN_DONE"
  <2>1. PICK i \in DOMAIN calls : calls[i] = Call("PST", t, p)
    BY <1>2
  <2>2. \A j \in 1..i : j \in DOMAIN calls /\ j \in DOMAIN init
    BY <1>6
  <2>3. i \in 1..i
    BY <1>6
  <2> QED
    BY <1>5, <1>6, <1>7, <2>1, <2>2, <2>3
<1> QED
  BY <1>1, <1>7, <1>8, <1>9 DEF Started, Spanning, done

LEMMA TickStarts ==
  ASSUME NEW b \in Bridge, Tick(b)
  PROVE  Started(b)
<1> DEFINE F == [p \in PortsOf(b) |-> PtiCall(p)]
           calls == JoinOver(b, F)
<1>1. JoinPorts(b, PtiCall) = calls
  <2>1. \A i \in DOMAIN LPorts[b] : LPorts[b][i] \in PortsOf(b)
    BY LPortsType
  <2>2. [i \in DOMAIN LPorts[b] |-> PtiCall(LPorts[b][i])] = [i \in DOMAIN LPorts[b] |-> F[LPorts[b][i]]]
    BY <2>1
  <2> QED
    BY <2>2, Zenon DEF JoinPorts, JoinOver
<1>2. F \in [PortsOf(b) -> Seq(NewFrames(b, Callable))]
  BY TreeCallTypes, PortNamesCallable, PortsAreNumbers DEF PtiCall, Calls, MachineName
<1>3. stk' = calls \o <<InformDBOnTimer(b)>> /\ Spanning(b)'
  BY <1>1 DEF Tick, Spanning, bridgeVars
<1> HIDE DEF F
<1>4. calls \in Calls(b)
  BY <1>2, JoinOverHolds DEF Calls
<1> HIDE DEF calls
<1> QED
  BY <1>3, <1>4, FrameNames, InformedStack DEF Started

LEMMA LinkStarts ==
  ASSUME NEW p \in Port, TypeOK, LinkUp(p) \/ LinkDown(p)
  PROVE  /\ Started(Owner[p])
         /\ ctl' # ctl => \E i \in DOMAIN stk' : stk'[i] = Call("PENDING_TX", CIST, p)
<1> DEFINE b == Owner[p]
<1>1. b \in Bridge /\ p \in PortsOf(b) /\ CIST \in Tree
  BY OwnerType, PortsAreNumbers DEF PortsOf
<1>2. InformDB(b) \in NewFrames(b, FrameName) /\ InformDB(b).sm = "INFORM_DB"
      /\ Calls(b) \subseteq Seq(NewFrames(b, FrameName))
  BY <1>1, FrameNames
<1>3. CASE LinkUp(p)
  <2>1. stk' # <<>> => Spanning(b) /\ stk' = <<Call("ENABLE_PORT", CIST, p), InformDB(b)>>
    BY <1>3 DEF LinkUp, NoStpLinkUp
  <2>2. <<Call("ENABLE_PORT", CIST, p), InformDB(b)>> = <<Call("ENABLE_PORT", CIST, p)>> \o <<InformDB(b)>>
    OBVIOUS
  <2>3. <<Call("ENABLE_PORT", CIST, p)>> \in Seq(NewFrames(b, FrameName))
    <3>1. Call("ENABLE_PORT", CIST, p) \in NewFrames(b, FrameName)
      BY <1>1, CallTypes DEF FrameName
    <3> QED
      BY <3>1
  <2>4. ctl' = ctl /\ Spanning(b)' = Spanning(b)
    BY <1>3 DEF LinkUp, bridgeVars, Spanning
  <2> QED
    BY ZenonT(30), <1>2, <1>3, <2>1, <2>2, <2>3, <2>4, InformedStack DEF Started
<1>4. CASE LinkDown(p)
  <2> DEFINE c == TreeCalls("PIM", p)
             d == <<Call("PRX", CIST, p), Call("PPM", CIST, p), Call("BDM", CIST, p),
                    Call("PENDING_TX", CIST, p)>>
  <2>1. (stk' # <<>> \/ ctl' # ctl) => Spanning(b) /\ stk' = (c \o d) \o <<InformDB(b)>>
    BY <1>4 DEF LinkDown, DisablePortCalls
  <2>2. /\ Call("PRX", CIST, p) \in NewFrames(b, Callable) /\ Call("PPM", CIST, p) \in NewFrames(b, Callable)
        /\ Call("BDM", CIST, p) \in NewFrames(b, Callable)
        /\ Call("PENDING_TX", CIST, p) \in NewFrames(b, Callable)
    BY <1>1, CallTypes DEF Callable, MachineName
  <2>3. c \in Calls(b)
    BY <1>1, TreeCallTypes, PortNamesCallable DEF MachineName
  <2>4. d \in Calls(b) /\ 4 \in DOMAIN d /\ d[4] = Call("PENDING_TX", CIST, p)
    BY <2>2 DEF Calls
  <2> HIDE DEF c, d
  <2>5. /\ c \o d \in Calls(b)
        /\ Len(c) + 4 \in DOMAIN (c \o d) /\ (c \o d)[Len(c) + 4] = Call("PENDING_TX", CIST, p)
    BY <2>3, <2>4, Concatenation DEF Calls
  <2> DEFINE cd == c \o d
  <2>6. PICK k \in DOMAIN cd : cd[k] = Call("PENDING_TX", CIST, p)
    BY <2>5
  <2>7. Spanning(b)' = Spanning(b)
    BY <1>1, <1>4 DEF LinkDown, Spanning, TypeOK, BridgeTypes, Control
  <2> HIDE DEF cd
  <2>8. cd \in Seq(NewFrames(b, FrameName)) /\ (stk' # <<>> \/ ctl' # ctl => stk' = cd \o <<InformDB(b)>>)
    BY <1>2, <2>1, <2>5 DEF cd
  <2>9. stk' # <<>> \/ ctl' # ctl =>
                      /\ stk' \in Seq(NewFrames(b, FrameName)) /\ Informed(stk')
                      /\ k \in DOMAIN stk' /\ stk'[k] = cd[k]
    <3> DEFINE x == InformDB(b)
    <3>1. /\ x \in NewFrames(b, FrameName) /\ x.sm = "INFORM_DB"
          /\ (stk' # <<>> \/ ctl' # ctl => stk' = cd \o <<x>>)
      BY <1>2, <2>8
    <3> HIDE DEF x
    <3>2. /\ cd \o <<x>> \in Seq(NewFrames(b, FrameName)) /\ Informed(cd \o <<x>>)
          /\ k \in DOMAIN (cd \o <<x>>) /\ (cd \o <<x>>)[k] = cd[k]
      BY <2>6, <2>8, <3>1, InformedStack
    <3> QED
      BY <3>1, <3>2
  <2> QED
    BY <2>1, <2>6, <2>7, <2>9 DEF Started
<1> QED
  BY <1>3, <1>4

LEMMA DeliverStarts ==
  ASSUME NEW p \in Port, TypeOK, Receive(p) \/ ReceiveForeign(p)
  PROVE  /\ Started(Owner[p])
         /\ ctl' # ctl => \E i \in DOMAIN stk' : stk'[i] = Call("PENDING_TX", CIST, p)
<1> DEFINE b == Owner[p]
           x == CallPkt("PRX", CIST, p)
           y == InformDB(b)
           z == Call("PENDING_TX", CIST, p)
<1>1. b \in Bridge /\ p \in PortsOf(b) /\ CIST \in Tree
  BY OwnerType, PortsAreNumbers DEF PortsOf
<1>2. /\ x \in NewFrames(b, FrameName) /\ z \in NewFrames(b, FrameName)
      /\ y \in NewFrames(b, FrameName) /\ y.sm = "INFORM_DB" /\ z.sm = "PENDING_TX"
  BY <1>1, FrameNames, CallTypes DEF FrameName, Callable, MachineName, Call
<1>3. PICK bpdu : Deliver(p, bpdu)
  BY DEF Receive, ReceiveForeign
<1>4. stk' # <<>> \/ ctl' # ctl => Spanning(b) /\ stk' = <<x, y, z>>
  BY <1>3 DEF Deliver
<1>5. Spanning(b)' = Spanning(b)
  BY <1>1, <1>3 DEF Deliver, Spanning, TypeOK, BridgeTypes, Control
<1> HIDE DEF x, y, z
<1>6. <<x, y, z>> \in Seq(NewFrames(b, FrameName)) /\ Informed(<<x, y, z>>)
      /\ 3 \in DOMAIN <<x, y, z>> /\ <<x, y, z>>[3] = z
  BY <1>2 DEF Informed
<1> QED
  BY <1>4, <1>5, <1>6 DEF Started, z

-----------------------------------------------------------------------------
(* What is on the stack, in every reachable state.                           *)

\* a call of s, on bridge b, is running or will run
Awaits(s, b) == \E i \in DOMAIN stk : stk[i].sm = s /\ Owner[stk[i].p] = b

StackType ==
  stk # <<>> => \E b \in Bridge : Spanning(b) /\ stk \in Seq(Frames(b, FrameName))

StackInv ==
  /\ StackType
  /\ Informed(stk)
  /\ \A b \in Bridge : /\ ctl[b].preventTx => Awaits("PENDING_TX", b)
                       /\ ctl[b].begin => Awaits("BEGIN_DONE", b)

LEMMA MachinesKeepControl ==
  ASSUME NEW p \in Port, NEW t \in Tree,
         \/ PpmSm(p) \/ BdmSm(p) \/ PrxSm(p) \/ PtxSm(p) \/ PtiSm(p)
         \/ PstSm(t, p) \/ TcmSm(t, p) \/ PrsSm(t, p) \/ PimSm(t, p) \/ PrtSm(t, p)
  PROVE  UNCHANGED ctl
<1>1. CASE PpmSm(p) \/ BdmSm(p)
  BY <1>1 DEF PpmSm, PpmCheckingRstp, PpmSelectingStp, PpmSensing, PpmReturn, BdmSm, BdmEdge,
              BdmNotEdge, BdmReturn, bridgeVars
<1>2. CASE PrxSm(p)
  BY <1>2 DEF PrxSm, PrxDiscard, PrxReceive, PrxMsti, PrxReturn, bridgeVars
<1>3. CASE PtxSm(p)
  BY <1>3 DEF PtxSm, PtxInit, PtxIdle, PtxPeriodic, PtxConfig, PtxTcn, PtxRstp, PtxReturn,
              Transmitted, bridgeVars
<1>4. CASE PtiSm(p)
  BY <1>4 DEF PtiSm, PtiOneSecond, PtiTick, PtiReturn, TickHello, TickMdelay, TickTree,
              TickInfo, bridgeVars
<1>5. CASE PstSm(t, p) \/ TcmSm(t, p)
  BY <1>5 DEF PstSm, PstDiscarding, PstLearning, PstForwarding, PstReturn, PstMoves, TcmSm,
              TcmInactive, TcmLearning, TcmDetected, TcmActive, TcmNotifiedTcn, TcmNotifiedTc,
              TcmPropagating, TcmAcknowledged, TcmReturn, TcProp, TcmKeeps, bridgeVars
<1>6. CASE PrsSm(t, p)
  BY <1>6 DEF PrsSm, PrsInitTree, PrsRoleSelection, PrsReturn, bridgeVars
<1>7. CASE PimSm(t, p)
  BY <1>7 DEF PimSm, PimDisabled, PimAged, PimUpdate, PimCurrent, PimReceive, PimSuperior,
              PimRepeated, PimInferior, PimNotDesignated, PimOther, PimReturn, PimRecord,
              SyncMsti, PimAgedRest, PimSelected, PimDone, PimKeeps, bridgeVars
<1>8. CASE PrtSm(t, p)
  BY <1>8 DEF PrtSm, PrtInitPort, PrtDisablePort, PrtDisabledPort, PrtBlockPort,
              PrtAlternatePort, PrtBackupPort, PrtMasterPort, PrtDesignatedPort, PrtRootPort,
              PrtPropose, PrtProposed, PrtAgreed, PrtAlternateAgreed, PrtMasterAgreed,
              PrtSynced, PrtRootSynced, PrtReRoot, PrtRetired, PrtLearn, PrtForward,
              PrtRootForward, PrtDiscard, PrtReturn, PrtTo, PrtStops, PrtRests, bridgeVars
<1> QED
  BY <1>1, <1>2, <1>3, <1>4, <1>5, <1>6, <1>7, <1>8

LEMMA ControlMoves ==
  ASSUME TypeOK, NEW t \in Tree, NEW p \in Port, Head(stk).p = p, Runs(Head(stk).sm, t, p),
         NEW b \in Bridge
  PROVE  /\ ctl'[b].spanning = ctl[b].spanning
         /\ ctl'[b].begin <=> (ctl[b].begin /\ ~(Head(stk).sm = "BEGIN_DONE" /\ Owner[p] = b))
         /\ ctl'[b].preventTx => \/ /\ ctl[b].preventTx
                                    /\ ~(Head(stk).sm = "PENDING_TX" /\ Owner[p] = b)
                                 \/ EnablePort(p) /\ ~Comm(p, "portEnabled") /\ Owner[p] = b
<1>1. ctl \in [Bridge -> Control] /\ Owner[p] \in Bridge
  BY OwnerType DEF TypeOK, BridgeTypes
<1>2. CASE BeginDone(p)
  BY <1>1, <1>2 DEF BeginDone, Running, Control
<1>3. CASE EnablePort(p)
  BY <1>1, <1>3 DEF EnablePort, Running, Control
<1>4. CASE PendingTx(p)
  BY <1>1, <1>4 DEF PendingTx, Running, Control
<1>5. CASE InformDBStep(p)
  <2>1. UNCHANGED ctl /\ Head(stk).sm \notin {"BEGIN_DONE", "PENDING_TX"}
    BY <1>5 DEF InformDBStep, Running, bridgeVars
  <2> QED
    BY <2>1
<1>6. CASE ~(BeginDone(p) \/ EnablePort(p) \/ PendingTx(p) \/ InformDBStep(p))
  <2>1. UNCHANGED ctl
    BY <1>6, MachinesKeepControl DEF Runs
  <2>2. Head(stk).sm \notin {"BEGIN_DONE", "PENDING_TX"}
    BY <1>6 DEF Runs, TickSteps, PimSteps
  <2> QED
    BY <2>1, <2>2
<1> QED
  BY <1>2, <1>3, <1>4, <1>5, <1>6

\* What waits below the head of the stack waits on.
LEMMA AwaitsKept ==
  ASSUME NEW b \in Bridge, TypeOK, stk \in Seq(Frames(b, FrameName)), stk # <<>>, RunStep
  PROVE  /\ stk' \in Seq(Frames(b, FrameName))
         /\ \A i \in 2..Len(stk) : \E k \in DOMAIN stk' : stk'[k] = stk[i]
         /\ \A s, c : Awaits(s, c) /\ ~(Head(stk).sm = s /\ Owner[Head(stk).p] = c) => Awaits(s, c)'
<1> DEFINE names == CalledBy(Head(stk).sm)
<1>1. ExtendsBy(b, names) /\ names \subseteq FrameName
  BY RunStepExtends, CalledByNames
<1> HIDE DEF names
<1>2. PICK d \in Int :
        /\ stk' \in Seq(Frames(b, FrameName)) /\ Len(stk') = Len(stk) + d
        /\ \A i \in 2..Len(stk) : i + d \in 1..Len(stk') /\ stk'[i + d] = stk[i]
  BY <1>1, FramesMove
<1>3. \A i \in 2..Len(stk) : \E k \in DOMAIN stk' : stk'[k] = stk[i]
  BY <1>2
<1>4. ASSUME NEW s, NEW c, Awaits(s, c), ~(Head(stk).sm = s /\ Owner[Head(stk).p] = c)
      PROVE  Awaits(s, c)'
  <2>1. PICK i \in DOMAIN stk : stk[i].sm = s /\ Owner[stk[i].p] = c
    BY <1>4 DEF Awaits
  <2>2. Head(stk) = stk[1]
    OBVIOUS
  <2>3. i \in 2..Len(stk)
    BY <1>4, <2>1, <2>2
  <2> QED
    BY <1>3, <2>1, <2>3 DEF Awaits
<1> QED
  BY <1>2, <1>3, <1>4

LEMMA InformedKept ==
  ASSUME NEW b \in Bridge, TypeOK, stk \in Seq(Frames(b, FrameName)), stk # <<>>, RunStep,
         Informed(stk)
  PROVE  Informed(stk')
<1> DEFINE s == Head(stk).sm
           names == CalledBy(s)
<1>1. ExtendsBy(b, names) /\ names \subseteq FrameName
  BY RunStepExtends, CalledByNames
<1>2. Looping.sm = s /\ Head(stk) = stk[1] /\ 1 \in DOMAIN stk
  <2>1. Head(stk) \in Frames(b, FrameName)
    OBVIOUS
  <2> QED
    BY <2>1 DEF Looping, Frames
<1>n. names = CalledBy(s)
  OBVIOUS
<1>l. Len(stk) \in Nat /\ DOMAIN stk = 1..Len(stk)
  OBVIOUS
<1> HIDE DEF names, s
<1>3. PICK d \in Int :
        /\ stk' \in Seq(Frames(b, FrameName)) /\ Len(stk') = Len(stk) + d
        /\ \A i \in 2..Len(stk) : i + d \in 1..Len(stk') /\ stk'[i + d] = stk[i]
        /\ \A j \in 1..(1 + d) : stk'[j] \in NewFrames(b, names) \/ stk'[j] = Looping
  BY <1>1, FramesMove
<1>4. ASSUME NEW j \in DOMAIN stk', stk'[j].sm \notin {"PTX", "PENDING_TX"}
      PROVE  \E k \in DOMAIN stk' : k >= j /\ stk'[k].sm = "INFORM_DB"
  <2>0. j \in Int /\ DOMAIN stk' = 1..Len(stk') /\ j >= 1 /\ j <= Len(stk')
    BY <1>3
  <2>1. CASE j > 1 + d
    <3>1. j - d \in 2..Len(stk) /\ stk'[j] = stk[j - d]
      <4>1. j - d \in 2..Len(stk) /\ (j - d) + d = j
        BY <1>3, <1>l, <2>0, <2>1
      <4> QED
        BY <1>3, <4>1
    <3>2. PICK k \in DOMAIN stk : k >= j - d /\ stk[k].sm = "INFORM_DB"
      BY <1>4, <1>l, <3>1 DEF Informed
    <3>3. k \in 2..Len(stk) /\ k + d >= j
      BY <1>l, <2>0, <3>1, <3>2
    <3> QED
      BY <1>3, <2>0, <3>2, <3>3
  <2>2. CASE j <= 1 + d /\ s \notin {"PTX", "PENDING_TX", "INFORM_DB"}
    <3>1. PICK k \in DOMAIN stk : k >= 1 /\ stk[k].sm = "INFORM_DB"
      BY <1>2, <2>2 DEF Informed, s
    <3>2. k # 1
      BY <1>2, <2>2, <3>1 DEF s
    <3>3. k \in 2..Len(stk) /\ k + d >= j
      BY <1>l, <2>0, <2>2, <3>1, <3>2
    <3> QED
      BY <1>3, <2>0, <3>1, <3>3
  <2>3. CASE j <= 1 + d /\ s \in {"PTX", "PENDING_TX", "INFORM_DB"}
    <3>1. j \in 1..(1 + d)
      BY <2>0, <2>3
    <3>2. stk'[j] \in NewFrames(b, names) \/ stk'[j] = Looping
      BY <1>3, <3>1
    <3>3. stk'[j] \in NewFrames(b, names) => stk'[j].sm \in names
      BY DEF NewFrames
    <3>4. stk'[j].sm = s
      BY <1>2, <1>4, <1>n, <2>3, <3>2, <3>3 DEF CalledBy
    <3>5. stk'[j].sm = "INFORM_DB" /\ j >= j
      BY <1>4, <2>0, <2>3, <3>4
    <3> QED
      BY <3>5
  <2> QED
    BY <2>0, <2>1, <2>2, <2>3
<1> QED
  BY <1>4 DEF Informed

LEMMA EnablePortAwaits ==
  ASSUME NEW p \in Port, stk \in Seq(Frames(Owner[p], FrameName)), stk # <<>>,
         EnablePort(p), ~Comm(p, "portEnabled")
  PROVE  Awaits("PENDING_TX", Owner[p])'
<1> DEFINE b == Owner[p]
           first == <<Call("PRX", CIST, p), Call("PPM", CIST, p)>> \o TreeCalls("PIM", p)
           x == Call("PENDING_TX", CIST, p)
           T == Tail(stk)
<1>1. b \in Bridge /\ p \in PortsOf(b) /\ CIST \in Tree
  BY OwnerType, PortsAreNumbers DEF PortsOf
<1>2. first \in Calls(b)
  <2>1. /\ Call("PRX", CIST, p) \in NewFrames(b, Callable)
        /\ Call("PPM", CIST, p) \in NewFrames(b, Callable)
    BY <1>1, CallTypes DEF Callable, MachineName
  <2>2. TreeCalls("PIM", p) \in Calls(b)
    BY <1>1, TreeCallTypes, PortNamesCallable DEF MachineName
  <2>3. <<Call("PRX", CIST, p), Call("PPM", CIST, p)>> \in Calls(b)
    BY <2>1 DEF Calls
  <2> QED
    BY <2>2, <2>3, Concatenation DEF Calls
<1>3. first \in Seq(Frames(b, FrameName)) /\ x \in Frames(b, FrameName)
      /\ T \in Seq(Frames(b, FrameName)) /\ x.sm = "PENDING_TX" /\ x.p = p
  <2>1. "PENDING_TX" \in FrameName
    BY DEF FrameName, Callable, MachineName, RestName
  <2>2. x \in Frames(b, FrameName)
    BY <1>1, <2>1, CallTypes, NewFramesAreFrames
  <2>3. x.sm = "PENDING_TX" /\ x.p = p
    BY DEF Call
  <2>4. first \in Seq(Frames(b, FrameName))
    <3>1. Calls(b) \subseteq Seq(Frames(b, FrameName))
      BY <1>1, FrameNames, NewFramesAreFrames
    <3> QED
      BY <1>2, <3>1
  <2>5. T \in Seq(Frames(b, FrameName))
    OBVIOUS
  <2> QED
    BY <2>2, <2>3, <2>4, <2>5
<1>4. stk' = (first \o <<x>>) \o T
  BY DEF EnablePort, Return
<1> DEFINE S == Frames(b, FrameName)
<1>s. first \in Seq(S) /\ x \in S /\ T \in Seq(S)
  BY <1>3
<1> HIDE DEF first, x, T, S
<1> DEFINE f == first \o <<x>>
<1>5. f \in Seq(S) /\ Len(f) = Len(first) + 1 /\ f[Len(f)] = x /\ Len(f) \in DOMAIN f
  BY <1>s
<1> HIDE DEF f
<1>6. Len(f) \in DOMAIN (f \o T) /\ (f \o T)[Len(f)] = x
  BY <1>s, <1>5, Concatenation
<1>7. stk' = f \o T
  BY <1>4 DEF f
<1> QED
  BY <1>3, <1>6, <1>7 DEF Awaits

LEMMA RunStepKeepsStack ==
  ASSUME TypeOK, StackInv, stk # <<>>, RunStep
  PROVE  StackInv'
<1>1. PICK b \in Bridge : Spanning(b) /\ stk \in Seq(Frames(b, FrameName))
  BY DEF StackInv, StackType
<1>2. PICK t \in Tree, p \in Port : Head(stk).t = t /\ Head(stk).p = p /\ Runs(Head(stk).sm, t, p)
  BY DEF RunStep
<1>3. stk' \in Seq(Frames(b, FrameName)) /\ Informed(stk')
  BY <1>1, AwaitsKept, InformedKept DEF StackInv
<1>4. Owner[p] = b
  <2>1. Head(stk) \in Frames(b, FrameName)
    BY <1>1
  <2> QED
    BY <1>2, <2>1 DEF Frames, PortsOf
<1>5. Spanning(b)'
  BY <1>1, <1>2, ControlMoves DEF Spanning
<1>6. ASSUME NEW c \in Bridge, ctl'[c].begin
      PROVE  Awaits("BEGIN_DONE", c)'
  <2>1. ctl[c].begin /\ ~(Head(stk).sm = "BEGIN_DONE" /\ Owner[p] = c)
    BY <1>2, <1>6, ControlMoves
  <2>2. Awaits("BEGIN_DONE", c)
    BY <2>1 DEF StackInv
  <2> QED
    BY <1>1, <1>2, <2>1, <2>2, AwaitsKept
<1>7. ASSUME NEW c \in Bridge, ctl'[c].preventTx
      PROVE  Awaits("PENDING_TX", c)'
  <2>1. CASE ctl[c].preventTx /\ ~(Head(stk).sm = "PENDING_TX" /\ Owner[p] = c)
    <3>1. Awaits("PENDING_TX", c)
      BY <2>1 DEF StackInv
    <3> QED
      BY <1>1, <1>2, <2>1, <3>1, AwaitsKept
  <2>2. CASE EnablePort(p) /\ ~Comm(p, "portEnabled") /\ Owner[p] = c
    BY <1>1, <1>4, <2>2, EnablePortAwaits
  <2> QED
    BY <1>2, <1>7, <2>1, <2>2, ControlMoves
<1> QED
  BY <1>1, <1>3, <1>5, <1>6, <1>7 DEF StackInv, StackType

LEMMA NothingAwaited ==
  ASSUME stk = <<>>
  PROVE  \A s, b : ~Awaits(s, b)
<1>1. DOMAIN stk = {}
  OBVIOUS
<1> QED
  BY <1>1 DEF Awaits

LEMMA EventKeepsStack ==
  ASSUME TypeOK, StackInv, Event
  PROVE  StackInv'
<1>1. stk = <<>>
  BY DEF Event, Enable, Disable, Reconfigure, Tick, LinkUp, LinkDown, Receive, ReceiveForeign, Lose
<1>2. \A b \in Bridge : ~ctl[b].preventTx /\ ~ctl[b].begin
  BY <1>1, NothingAwaited DEF StackInv
<1>3. ASSUME NEW b \in Bridge, Started(b)
      PROVE  StackType' /\ Informed(stk)'
  BY <1>3, NewFramesAreFrames DEF Started, StackType, Informed
<1>4. ctl \in [Bridge -> Control]
  BY DEF TypeOK, BridgeTypes
<1>5. ASSUME NEW b \in Bridge, Enable(b)
      PROVE  StackInv'
  <2>1. PICK i \in DOMAIN stk' : stk'[i] = Call("BEGIN_DONE", CIST, FirstPort(b))
    BY <1>5, EnableStarts
  <2>2. FirstPort(b) \in PortsOf(b)
    BY LPortsType
  <2>3. Awaits("BEGIN_DONE", b)'
    BY <2>1, <2>2 DEF Awaits, Call, PortsOf
  <2>4. \A c \in Bridge : ~ctl'[c].preventTx /\ (ctl'[c].begin => c = b)
    BY <1>2, <1>4, <1>5 DEF Enable
  <2> QED
    BY <1>3, <1>5, <2>3, <2>4, EnableStarts DEF StackInv
<1>6. ASSUME NEW b \in Bridge, Disable(b) \/ Reconfigure(b)
      PROVE  StackInv'
  <2>1. stk' = <<>>
    BY <1>1, <1>6 DEF Disable, Reconfigure
  <2>2. \A c \in Bridge : ~ctl'[c].preventTx /\ ~ctl'[c].begin
    <3>1. CASE Disable(b)
      <4>1. ctl' = [ctl EXCEPT ![b].spanning = FALSE]
        BY <3>1 DEF Disable, ClearProtocolData
      <4> QED
        BY <1>2, <1>4, <4>1 DEF Control
    <3>2. CASE Reconfigure(b)
      <4>1. ctl' = [ctl EXCEPT ![b].spanning = FALSE]
        BY <3>2 DEF Reconfigure, ClearProtocolData
      <4> QED
        BY <1>2, <1>4, <4>1 DEF Control
    <3> QED
      BY <1>6, <3>1, <3>2
  <2> QED
    BY <2>1, <2>2 DEF StackInv, StackType, Informed
<1>7. ASSUME NEW b \in Bridge, Tick(b)
      PROVE  StackInv'
  <2>1. ctl' = ctl
    BY <1>7 DEF Tick, bridgeVars
  <2> QED
    BY <1>2, <1>3, <1>7, <2>1, TickStarts DEF StackInv
<1>8. ASSUME NEW p \in Port, LinkUp(p) \/ LinkDown(p) \/ Receive(p) \/ ReceiveForeign(p)
      PROVE  StackInv'
  <2>1. Started(Owner[p]) /\ Owner[p] \in Bridge
    BY <1>8, LinkStarts, DeliverStarts, OwnerType
  <2>2. ctl' # ctl => Awaits("PENDING_TX", Owner[p])'
    <3>1. ctl' # ctl => \E i \in DOMAIN stk' : stk'[i] = Call("PENDING_TX", CIST, p)
      BY <1>8, LinkStarts, DeliverStarts
    <3> QED
      BY <3>1 DEF Awaits, Call
  <2>3. \A c \in Bridge : ~ctl'[c].begin /\ (ctl'[c].preventTx => c = Owner[p])
    <3>1. ctl' = ctl \/ ctl' = [ctl EXCEPT ![Owner[p]].preventTx = TRUE]
      BY <1>8 DEF LinkUp, LinkDown, Receive, ReceiveForeign, Deliver, bridgeVars
    <3> QED
      BY <1>2, <1>4, <2>1, <3>1 DEF Control
  <2> QED
    BY <1>2, <1>3, <2>1, <2>2, <2>3 DEF StackInv
<1>9. ASSUME NEW p \in Port, Lose(p)
      PROVE  StackInv'
  <2>1. stk' = stk /\ ctl' = ctl
    BY <1>9 DEF Lose, bridgeVars
  <2> QED
    BY <1>1, <1>2, <2>1 DEF StackInv, StackType, Informed
<1> QED
  BY <1>5, <1>6, <1>7, <1>8, <1>9 DEF Event

LEMMA InitStack == Init => StackInv
<1> SUFFICES ASSUME Init PROVE StackInv
  OBVIOUS
<1>1. stk = <<>> /\ \A b \in Bridge : ~ctl[b].preventTx /\ ~ctl[b].begin
  BY DEF Init
<1> QED
  BY <1>1 DEF StackInv, StackType, Informed

LEMMA StepKeepsStack == TypeOK /\ StackInv /\ [Next]_vars => StackInv'
<1> SUFFICES ASSUME TypeOK, StackInv, [Next]_vars PROVE StackInv'
  OBVIOUS
<1>1. CASE UNCHANGED vars
  BY <1>1 DEF vars, bridgeVars, StackInv, StackType, Spanning, Awaits
<1>2. RunStep => stk # <<>>
  BY DEF RunStep
<1> QED
  BY <1>1, <1>2, RunStepKeepsStack, EventKeepsStack DEF Next

\* Whatever arrives, and in whatever order: the calls a bridge's thread has yet
\* to make are calls of known functions for trees and ports of that bridge, and
\* whoever changes a port state does it before the database is informed.
THEOREM StackHolds == Spec => []StackInv
BY InitStack, StepKeepsStack, TypesHold, PTL DEF Spec

\* When the thread takes the next event, no bridge is left in BEGIN and none is
\* kept from transmitting (preventTx): mstp_initStateMachines, mstp_portEnable,
\* mstp_portDisable and the receive path undo what they set.
Released == stk = <<>> => \A b \in Bridge : ~ctl[b].begin /\ ~ctl[b].preventTx

THEOREM AlwaysReleased == Spec => []Released
<1>1. StackInv => Released
  BY NothingAwaited DEF StackInv, Released
<1> QED
  BY <1>1, StackHolds, PTL
=============================================================================
