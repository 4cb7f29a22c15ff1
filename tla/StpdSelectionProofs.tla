------------------------- MODULE StpdSelectionProofs -------------------------
(* Selection of roles, for every network: whoever asked for one, and in the  *)
(* midst of whatever, between two events mstp_updtRolesTree has answered for *)
(* every tree and port.                                                      *)
EXTENDS StpdHandlerProofs

-----------------------------------------------------------------------------
(* Where a frame is on the stack.                                            *)

\* a frame of s is in F ...
Has(s, F) == \E i \in DOMAIN s : s[i] \in F
\* ... with nothing but frames of A above it
Under(s, A, F) == \E i \in DOMAIN s : s[i] \in F /\ \A j \in 1..(i - 1) : s[j] \in A
LEMMA HasJoined ==
  ASSUME NEW D, NEW c \in Seq(D), NEW r \in Seq(D), NEW F
  PROVE  Has(c \o r, F) <=> Has(c, F) \/ Has(r, F)
<1> DEFINE s == c \o r
<1>1. /\ s \in Seq(D) /\ Len(s) = Len(c) + Len(r)
      /\ \A i \in DOMAIN c : i \in DOMAIN s /\ s[i] = c[i]
      /\ \A j \in DOMAIN r : Len(c) + j \in DOMAIN s /\ s[Len(c) + j] = r[j]
  BY Concatenation
<1>2. DOMAIN s = 1..Len(s) /\ DOMAIN c = 1..Len(c) /\ DOMAIN r = 1..Len(r)
      /\ Len(c) \in Nat /\ Len(r) \in Nat
  BY <1>1
<1> HIDE DEF s
<1>3. ASSUME NEW i \in DOMAIN s, s[i] \in F
      PROVE  Has(c, F) \/ Has(r, F)
  <2>1. CASE i \in DOMAIN c
    BY <1>1, <1>3, <2>1 DEF Has
  <2>2. CASE i \notin DOMAIN c
    <3>1. i - Len(c) \in DOMAIN r /\ Len(c) + (i - Len(c)) = i
      BY <1>1, <1>2, <2>2
    <3>2. s[i] = r[i - Len(c)]
      BY <1>1, <3>1
    <3> QED
      BY <1>3, <3>1, <3>2 DEF Has
  <2> QED
    BY <2>1, <2>2
<1>4. Has(s, F) => Has(c, F) \/ Has(r, F)
  BY <1>3 DEF Has
<1>5. Has(c, F) \/ Has(r, F) => Has(s, F)
  BY <1>1 DEF Has
<1> QED
  BY <1>4, <1>5 DEF s

LEMMA UnderJoined ==
  ASSUME NEW D, NEW c \in Seq(D), NEW r \in Seq(D), NEW A, NEW F
  PROVE  /\ Under(c, A, F) => Under(c \o r, A, F)
         /\ Under(r, A, F) /\ (\A j \in DOMAIN c : c[j] \in A) => Under(c \o r, A, F)
<1> DEFINE s == c \o r
<1>1. /\ s \in Seq(D) /\ Len(s) = Len(c) + Len(r)
      /\ \A i \in DOMAIN c : i \in DOMAIN s /\ s[i] = c[i]
      /\ \A j \in DOMAIN r : Len(c) + j \in DOMAIN s /\ s[Len(c) + j] = r[j]
  BY Concatenation
<1>2. DOMAIN s = 1..Len(s) /\ DOMAIN c = 1..Len(c) /\ DOMAIN r = 1..Len(r)
      /\ Len(c) \in Nat /\ Len(r) \in Nat
  BY <1>1
<1> HIDE DEF s
<1>3. Under(c, A, F) => Under(s, A, F)
  <2> SUFFICES ASSUME NEW i \in DOMAIN c, c[i] \in F, \A j \in 1..(i - 1) : c[j] \in A
               PROVE  Under(s, A, F)
    BY DEF Under
  <2>1. \A j \in 1..(i - 1) : j \in DOMAIN c
    BY <1>2
  <2>2. i \in DOMAIN s /\ s[i] \in F /\ \A j \in 1..(i - 1) : s[j] \in A
    BY <1>1, <2>1
  <2> QED
    BY <2>2 DEF Under
<1>4. Under(r, A, F) /\ (\A j \in DOMAIN c : c[j] \in A) => Under(s, A, F)
  <2> SUFFICES ASSUME NEW i \in DOMAIN r, r[i] \in F, \A j \in 1..(i - 1) : r[j] \in A,
                      \A j \in DOMAIN c : c[j] \in A
               PROVE  Under(s, A, F)
    BY DEF Under
  <2>1. ASSUME NEW j \in 1..(Len(c) + i - 1)
        PROVE  s[j] \in A
    <3>1. CASE j \in DOMAIN c
      BY <1>1, <3>1
    <3>2. CASE j \notin DOMAIN c
      <4>1. j - Len(c) \in 1..(i - 1) /\ Len(c) + (j - Len(c)) = j /\ j - Len(c) \in DOMAIN r
        BY <1>2, <3>2
      <4>2. s[j] = r[j - Len(c)]
        BY <1>1, <4>1
      <4> QED
        BY <4>1, <4>2
    <3> QED
      BY <3>1, <3>2
  <2>2. Len(c) + i \in DOMAIN s /\ s[Len(c) + i] \in F
    BY <1>1
  <2> QED
    BY <2>1, <2>2 DEF Under
<1> QED
  BY <1>3, <1>4 DEF s

LEMMA BelowHead ==
  ASSUME NEW D, NEW s \in Seq(D), s # <<>>
  PROVE  /\ Tail(s) \in Seq(D)
         /\ \A F : Has(s, F) <=> Head(s) \in F \/ Has(Tail(s), F)
         /\ \A A, F : Under(s, A, F) => Head(s) \in F \/ (Head(s) \in A /\ Under(Tail(s), A, F))
         /\ \A A, F : Head(s) \in F => Under(s, A, F)
<1> DEFINE r == Tail(s)
<1>1. /\ r \in Seq(D) /\ Head(s) = s[1] /\ Len(s) \in Nat /\ Len(s) >= 1 /\ DOMAIN s = 1..Len(s)
      /\ DOMAIN r = 1..(Len(s) - 1) /\ \A i \in DOMAIN r : i + 1 \in DOMAIN s /\ r[i] = s[i + 1]
  OBVIOUS
<1> HIDE DEF r
<1>2. \A i \in DOMAIN s : i # 1 => i - 1 \in DOMAIN r /\ r[i - 1] = s[i]
  <2> SUFFICES ASSUME NEW i \in DOMAIN s, i # 1 PROVE i - 1 \in DOMAIN r /\ r[i - 1] = s[i]
    OBVIOUS
  <2>1. i - 1 \in DOMAIN r /\ (i - 1) + 1 = i
    BY <1>1
  <2> QED
    BY <1>1, <2>1
<1>3. ASSUME NEW F PROVE Has(s, F) <=> Head(s) \in F \/ Has(r, F)
  <2>1. Has(s, F) => Head(s) \in F \/ Has(r, F)
    BY <1>1, <1>2 DEF Has
  <2>2. Head(s) \in F \/ Has(r, F) => Has(s, F)
    BY <1>1 DEF Has
  <2> QED
    BY <2>1, <2>2
<1>4. ASSUME NEW A, NEW F, Under(s, A, F), Head(s) \notin F
      PROVE  Head(s) \in A /\ Under(r, A, F)
  <2>1. PICK i \in DOMAIN s : s[i] \in F /\ \A j \in 1..(i - 1) : s[j] \in A
    BY <1>4 DEF Under
  <2>2. i # 1 /\ 1 \in 1..(i - 1)
    BY <1>1, <1>4, <2>1
  <2>3. i - 1 \in DOMAIN r /\ r[i - 1] \in F
    BY <1>2, <2>1, <2>2
  <2>4. ASSUME NEW j \in 1..((i - 1) - 1) PROVE r[j] \in A
    <3>1. j \in DOMAIN r /\ j + 1 \in 1..(i - 1)
      BY <1>1, <2>3
    <3> QED
      BY <1>1, <2>1, <3>1
  <2> QED
    BY <1>1, <2>1, <2>2, <2>3, <2>4 DEF Under
<1>5. ASSUME NEW A, NEW F, Head(s) \in F
      PROVE  Under(s, A, F)
  <2>1. 1 \in DOMAIN s /\ s[1] \in F /\ 1..(1 - 1) = {}
    BY <1>1, <1>5
  <2> QED
    BY <2>1 DEF Under
<1> QED
  BY <1>1, <1>3, <1>4, <1>5, Zenon DEF r

-----------------------------------------------------------------------------
(* What a step leaves on the stack, given the frames it may put there.       *)

Pushes(S) == \E calls \in Seq(S) : \/ stk' = calls \o Tail(stk)
                                   \/ stk' = calls \o <<Looping>> \o Tail(stk)

LEMMA LoopingType ==
  ASSUME NEW b, stk \in Seq(Frames(b, FrameName)), stk # <<>>
  PROVE  /\ Head(stk) \in Frames(b, FrameName) /\ Looping \in Frames(b, FrameName)
         /\ Looping.sm = Head(stk).sm /\ Looping.t = Head(stk).t /\ Looping.p = Head(stk).p
         /\ Looping.loop = TRUE /\ Looping.pkt = Head(stk).pkt /\ Looping.v = Head(stk).v
<1>1. Head(stk) \in Frames(b, FrameName)
  OBVIOUS
<1> QED
  BY <1>1 DEF Looping, Frames

\* what is above the frames that wait
LEMMA PushedAbove ==
  ASSUME NEW b, stk \in Seq(Frames(b, FrameName)), stk # <<>>,
         NEW S, S \subseteq NewFrames(b, FrameName), Pushes(S)
  PROVE  \E c \in Seq(Frames(b, FrameName)) :
           stk' = c \o Tail(stk) /\ \A j \in DOMAIN c : c[j] \in S \cup {Looping}
<1> DEFINE D == Frames(b, FrameName)
           L == Looping
           T == Tail(stk)
<1>1. L \in D /\ S \subseteq D /\ T \in Seq(D)
  BY LoopingType, NewFramesAreFrames, BelowHead
<1>2. PICK calls \in Seq(S) : stk' = calls \o T \/ stk' = calls \o <<L>> \o T
  BY DEF Pushes
<1> HIDE DEF D, L, T
<1>3. calls \in Seq(D) /\ \A j \in DOMAIN calls : calls[j] \in S
  BY <1>1, <1>2
<1> DEFINE c == calls \o <<L>>
<1>4. c \in Seq(D) /\ \A j \in DOMAIN c : c[j] \in S \cup {L}
  BY <1>1, <1>3
<1>5. CASE stk' = calls \o T
  BY <1>3, <1>5 DEF D, L, T
<1>6. CASE stk' = c \o T
  <2> HIDE DEF c
  <2> QED
    BY <1>4, <1>6 DEF D, L, T
<1> QED
  BY <1>2, <1>5, <1>6

LEMMA Pushed ==
  ASSUME NEW b, stk \in Seq(Frames(b, FrameName)), stk # <<>>,
         NEW S, S \subseteq NewFrames(b, FrameName), Pushes(S), NEW A, NEW F
  PROVE  /\ stk' \in Seq(Frames(b, FrameName))
         /\ Under(stk, A, F) /\ Head(stk) \notin F /\ S \subseteq A /\ Looping \in A
              => Under(stk', A, F)
         /\ Has(stk, F) /\ Head(stk) \notin F => Has(stk', F)
         /\ Has(stk', F) => Has(stk, F) \/ Looping \in F \/ \E f \in S : f \in F
         /\ Has(stk', F) => Has(Tail(stk), F) \/ Looping \in F \/ \E f \in S : f \in F
<1> DEFINE D == Frames(b, FrameName)
           T == Tail(stk)
<1>1. PICK c \in Seq(D) : stk' = c \o T /\ \A j \in DOMAIN c : c[j] \in S \cup {Looping}
  BY PushedAbove
<1>2. /\ T \in Seq(D)
      /\ Has(stk, F) <=> Head(stk) \in F \/ Has(T, F)
      /\ Under(stk, A, F) => Head(stk) \in F \/ (Head(stk) \in A /\ Under(T, A, F))
  BY BelowHead
<1> HIDE DEF T, D
<1>3. c \o T \in Seq(D)
  BY <1>1, <1>2, Concatenation
<1>4. Has(stk', F) <=> Has(c, F) \/ Has(T, F)
  BY <1>1, <1>2, HasJoined
<1>5. Has(c, F) => Looping \in F \/ \E f \in S : f \in F
  BY <1>1 DEF Has
<1>6. Under(T, A, F) /\ (\A j \in DOMAIN c : c[j] \in A) => Under(stk', A, F)
  BY <1>1, <1>2, UnderJoined
<1>7. S \subseteq A /\ Looping \in A => \A j \in DOMAIN c : c[j] \in A
  BY <1>1
<1> QED
  BY <1>1, <1>2, <1>3, <1>4, <1>5, <1>6, <1>7, Zenon DEF D, T

\* the frames a handler's own calls leave
LEMMA CallsPushed ==
  ASSUME NEW b, stk \in Seq(Frames(b, FrameName)), stk # <<>>,
         NEW calls, calls \in Seq(Frames(b, FrameName)), NEW A, NEW F
  PROVE  /\ Loop(calls) \/ Return(calls) => /\ Has(calls, F) => Has(stk', F)
                                            /\ Under(calls, A, F) => Under(stk', A, F)
         /\ Loop(calls) /\ Looping \in F =>
              Has(stk', F) /\ ((\A j \in DOMAIN calls : calls[j] \in A) => Under(stk', A, F))
<1> DEFINE D == Frames(b, FrameName)
           L == Looping
           T == Tail(stk)
           c == <<L>> \o T
<1>1. L \in D /\ T \in Seq(D)
  BY LoopingType, BelowHead
<1>2. Loop(calls) => stk' = calls \o <<L>> \o T
  BY DEF Loop, Looping
<1>3. Return(calls) => stk' = calls \o T
  BY DEF Return
<1> HIDE DEF L, T
<1>4. <<L>> \in Seq(D) /\ <<L>> # <<>> /\ c \in Seq(D) /\ calls \o <<L>> \o T = calls \o c
  BY <1>1
<1>5. Head(<<L>>) = L
  OBVIOUS
<1>6. L \in F => Under(<<L>>, A, F) /\ Has(<<L>>, F)
  BY <1>4, <1>5, BelowHead
<1>7. L \in F => Under(c, A, F) /\ Has(c, F)
  BY <1>1, <1>4, <1>6, UnderJoined, HasJoined
<1> HIDE DEF c
<1>8. /\ Has(calls, F) => Has(calls \o c, F) /\ Has(calls \o T, F)
      /\ Under(calls, A, F) => Under(calls \o c, A, F) /\ Under(calls \o T, A, F)
      /\ Under(c, A, F) /\ (\A j \in DOMAIN calls : calls[j] \in A) => Under(calls \o c, A, F)
      /\ Has(c, F) => Has(calls \o c, F)
  BY <1>1, <1>4, HasJoined, UnderJoined
<1> QED
  BY <1>2, <1>3, <1>4, <1>7, <1>8, Zenon DEF L

-----------------------------------------------------------------------------
(* Who changes the flags and states of the selection.                        *)

SelBits == {"selected", "reselect"}
SameSel(u, q) == \A x \in SelBits : x \in bits'[u][q] <=> x \in bits[u][q]
SelStays == \A u \in Tree, q \in Port : SameSel(u, q)
PimStays == \A u \in Tree, q \in Port : fsm'[u][q].pim = fsm[u][q].pim
LinksStay == \A q \in Port : Comm(q, "portEnabled")' <=> Comm(q, "portEnabled")

LEMMA CommStays ==
  ASSUME TypeOK, NEW p \in Port, NEW set, NEW clr,
         "portEnabled" \notin set, "portEnabled" \notin clr
  PROVE  cbits' = SetComm(p, set, clr) => LinksStay
<1>1. cbits \in [Port -> SUBSET CommBit]
  BY DEF TypeOK, PortTypes
<1>2. ASSUME cbits' = SetComm(p, set, clr), NEW q \in Port
      PROVE  Comm(q, "portEnabled")' <=> Comm(q, "portEnabled")
  <2>1. cbits'[q] = IF q = p THEN (cbits[q] \ clr) \cup set ELSE cbits[q]
    BY <1>1, <1>2 DEF SetComm
  <2> QED
    BY <2>1 DEF Comm
<1> QED
  BY <1>2 DEF LinksStay

LEMMA SelSet ==
  ASSUME TypeOK, NEW t \in Tree, NEW p \in Port, NEW set, NEW clr, bits' = SetBits(t, p, set, clr)
  PROVE  /\ \A u \in Tree, q \in Port : ~(u = t /\ q = p) => SameSel(u, q)
         /\ set \cap SelBits = {} /\ clr \cap SelBits = {} => SelStays
<1>1. /\ bits'[t][p] = (bits[t][p] \ clr) \cup set
      /\ \A u \in Tree, q \in Port : ~(u = t /\ q = p) => bits'[u][q] = bits[u][q]
  BY OneSet
<1>2. set \cap SelBits = {} /\ clr \cap SelBits = {} =>
        \A x \in SelBits : x \in (bits[t][p] \ clr) \cup set <=> x \in bits[t][p]
  OBVIOUS
<1> QED
  BY <1>1, <1>2, Zenon DEF SelStays, SameSel

\* the flags of port p in every tree
LEMMA PortSelStays ==
  ASSUME TypeOK, NEW p \in Port, NEW g,
         \A u \in Tree : bits'[u] = [bits[u] EXCEPT ![p] = g[u]],
         \A u \in Tree : \A x \in SelBits : x \in g[u] <=> x \in bits[u][p]
  PROVE  SelStays
<1>1. bits \in [Tree -> [Port -> SUBSET TreeBit]]
  BY DEF TypeOK, TreeTypes
<1>2. ASSUME NEW u \in Tree, NEW q \in Port
      PROVE  bits'[u][q] = IF q = p THEN g[u] ELSE bits[u][q]
  <2>1. bits[u] \in [Port -> SUBSET TreeBit] /\ bits'[u] = [bits[u] EXCEPT ![p] = g[u]]
    BY <1>1
  <2> QED
    BY <2>1
<1> QED
  BY <1>2, Zenon DEF SelStays, SameSel

LEMMA PimRests ==
  ASSUME TypeOK, NEW t \in Tree, NEW p \in Port, NEW s,
         \/ fsm' = [fsm EXCEPT ![t][p].prt = s]
         \/ fsm' = [fsm EXCEPT ![t][p].pst = s]
         \/ fsm' = [fsm EXCEPT ![t][p].tcm = s]
  PROVE  PimStays
<1>1. fsm \in [Tree -> [Port -> TreeMachines]]
  BY DEF TypeOK, TreeTypes
<1>2. CASE fsm' = [fsm EXCEPT ![t][p].prt = s]
  BY <1>1, <1>2 DEF TreeMachines, PimStays
<1>3. CASE fsm' = [fsm EXCEPT ![t][p].pst = s]
  BY <1>1, <1>3 DEF TreeMachines, PimStays
<1>4. CASE fsm' = [fsm EXCEPT ![t][p].tcm = s]
  BY <1>1, <1>4 DEF TreeMachines, PimStays
<1> QED
  BY <1>2, <1>3, <1>4

LEMMA PortMachinesKeepSel ==
  ASSUME TypeOK, NEW p \in Port, PpmSm(p) \/ BdmSm(p) \/ PrxSm(p) \/ PtxSm(p) \/ PtiSm(p)
  PROVE  SelStays /\ LinksStay /\ UNCHANGED <<fsm, prs>>
<1>1. (UNCHANGED bits => SelStays) /\ (UNCHANGED cbits => LinksStay)
  BY DEF SelStays, SameSel, LinksStay, Comm
<1>2. ASSUME NEW set \in SUBSET (CommBit \ {"portEnabled"}), NEW clr \in SUBSET (CommBit \ {"portEnabled"}),
             cbits' = SetComm(p, set, clr)
      PROVE  LinksStay
  BY <1>2, CommStays
<1> DEFINE Some == SUBSET (CommBit \ {"portEnabled"})
<1>3. CASE PpmSm(p)
  <2>1. UNCHANGED <<bits, fsm, prs>>
    BY <1>3 DEF PpmSm, PpmCheckingRstp, PpmSelectingStp, PpmSensing, PpmReturn, treeVars, bridgeVars
  <2>2. UNCHANGED cbits \/ \E set \in Some, clr \in Some : cbits' = SetComm(p, set, clr)
    BY <1>3 DEF PpmSm, PpmCheckingRstp, PpmSelectingStp, PpmSensing, PpmReturn, commVars, CommBit
  <2> QED
    BY <1>1, <1>2, <2>1, <2>2
<1>4. CASE BdmSm(p)
  <2>1. UNCHANGED <<bits, fsm, prs>>
    BY <1>4 DEF BdmSm, BdmEdge, BdmNotEdge, BdmReturn, treeVars, bridgeVars
  <2>2. UNCHANGED cbits \/ \E set \in Some, clr \in Some : cbits' = SetComm(p, set, clr)
    BY <1>4 DEF BdmSm, BdmEdge, BdmNotEdge, BdmReturn, commVars, CommBit
  <2> QED
    BY <1>1, <1>2, <2>1, <2>2
<1>5. CASE PtxSm(p)
  <2>1. UNCHANGED <<bits, fsm, prs>>
    BY <1>5 DEF PtxSm, PtxInit, PtxIdle, PtxPeriodic, PtxConfig, PtxTcn, PtxRstp,
       PtxReturn, Transmitted, treeVars, bridgeVars
  <2>2. {NewInfo(t) : t \in {u \in Tree : Refreshed(u, p)}} \in Some
    BY DEF NewInfo, CommBit
  <2>3. UNCHANGED cbits \/ \E set \in Some, clr \in Some : cbits' = SetComm(p, set, clr)
    <3>1. {} \in Some /\ {"newInfo", "newInfoMsti"} \in Some /\ {"newInfo", "newInfoMsti", "tcAck"} \in Some
      BY DEF CommBit
    <3> QED
      BY <1>5, <2>2, <3>1 DEF PtxSm, PtxInit, PtxIdle, PtxPeriodic, PtxConfig, PtxTcn, PtxRstp,
       PtxReturn, commVars
  <2> QED
    BY <1>1, <1>2, <2>1, <2>3
<1>6. CASE PtiSm(p)
  <2>1. UNCHANGED <<fsm, prs>>
    BY <1>6 DEF PtiSm, PtiOneSecond, PtiTick, PtiReturn, TickHello, TickMdelay,
       TickTree, TickInfo, treeVars, bridgeVars
  <2>2. UNCHANGED cbits \/ \E set \in Some, clr \in Some : cbits' = SetComm(p, set, clr)
    BY <1>6 DEF PtiSm, PtiOneSecond, PtiTick, PtiReturn, TickHello, TickMdelay,
       TickTree, TickInfo, commVars, CommBit
  <2>3. {"loopInconsistent"} \cap SelBits = {} /\ {} \cap SelBits = {}
    BY DEF SelBits
  <2>4. ASSUME NEW t \in Tree, bits' = SetBits(t, p, {"loopInconsistent"}, {})
        PROVE  SelStays
    BY <2>3, <2>4, SelSet
  <2>5. SelStays
    BY <1>6, <1>1, <2>4 DEF PtiSm, PtiOneSecond, PtiTick, PtiReturn, TickHello, TickMdelay,
       TickTree, TickInfo, treeVars
  <2> QED
    BY <1>1, <1>2, <2>1, <2>2, <2>5
<1>7. CASE PrxSm(p)
  <2>1. UNCHANGED <<fsm, prs>>
    BY <1>7 DEF PrxSm, PrxDiscard, PrxReceive, PrxMsti, PrxReturn, treeVars, bridgeVars
  <2>2. bits \in [Tree -> [Port -> SUBSET TreeBit]]
    BY DEF TypeOK, TreeTypes
  <2>3. CASE PrxDiscard(p)
    <3>1. \E set \in Some, clr \in Some : cbits' = SetComm(p, set, clr)
      BY <2>3 DEF PrxDiscard, CommBit
    <3>2. SelStays
      BY <2>2, <2>3 DEF PrxDiscard, SelStays, SameSel, SelBits
    <3> QED
      BY <1>2, <2>1, <3>1, <3>2
  <2>4. CASE PrxReceive(p)
    <3>1. \E set \in Some, clr \in Some : cbits' = SetComm(p, set, clr)
      BY <2>4 DEF PrxReceive, VersionBit, CommBit
    <3>2. SelStays
      BY <2>2, <2>4 DEF PrxReceive, SelStays, SameSel, SelBits, GuardLift
    <3> QED
      BY <1>2, <2>1, <3>1, <3>2
  <2>5. CASE \E t \in Msti : PrxMsti(t, p)
    <3>1. PICK t \in Tree : PrxMsti(t, p)
      BY <2>5, PortsAreNumbers
    <3>2. GuardLift(p) \cap SelBits = {} /\ {} \cap SelBits = {}
      BY DEF GuardLift, SelBits
    <3>3. SelStays /\ UNCHANGED cbits
      BY <3>1, <3>2, SelSet DEF PrxMsti, commVars
    <3> QED
      BY <1>1, <2>1, <3>3
  <2>6. CASE PrxReturn(p)
    BY <1>1, <2>1, <2>6 DEF PrxReturn, commVars, treeVars
  <2> QED
    BY <1>7, <2>3, <2>4, <2>5, <2>6 DEF PrxSm
<1> QED
  BY <1>3, <1>4, <1>5, <1>6, <1>7

-----------------------------------------------------------------------------
(* Where a selection stands.                                                 *)

\* calls of the machine s for tree t on bridge b; those that have yet to run
Of(s, t, b) == {f \in Frames(b, FrameName) : f.sm = s /\ f.t = t}
NotRun(s, t, b) == {f \in Of(s, t, b) : ~f.loop}
NotRunFor(t, p) == {f \in NotRun("PIM", t, Owner[p]) : f.p = p}
PimFrames(b) == {f \in Frames(b, FrameName) : f.sm = "PIM"}
InBegin(b) == {f \in Frames(b, FrameName) : f.sm # "BEGIN_DONE"}
Enabling(b) == {f \in Frames(b, FrameName) : f.sm = "ENABLE_PORT"}

\* mstp_updtRolesTree has yet to answer for t on b
Unselected(t, b) ==
  prs[t][b] # "ROLE_SELECTION" \/ \E q \in PortsOf(b) : On(t, q, "reselect")

TreeSelection(t, b) ==
  IF ~Spanning(b) THEN prs[t][b] = "UNKNOWN"
  ELSE /\ Unselected(t, b) => Has(stk, Of("PRS", t, b))
       /\ prs[t][b] = "UNKNOWN" => ctl[b].begin /\ Under(stk, InBegin(b), NotRun("PRS", t, b))
       /\ prs[t][b] = "INIT_TREE" => stk # <<>> /\ Head(stk) \in Of("PRS", t, b)

PortSelection(t, p) ==
  /\ Begin(p) => fsm[t][p].pim \in {"UNKNOWN", "DISABLED"}
  /\ IF ~Spanning(Owner[p]) THEN fsm[t][p].pim = "UNKNOWN"
     ELSE /\ fsm[t][p].pim = "UNKNOWN" => /\ prs[t][Owner[p]] = "UNKNOWN"
                                          /\ Under(stk, PimFrames(Owner[p]), NotRunFor(t, p))
          /\ prs[t][Owner[p]] = "ROLE_SELECTION" => On(t, p, "selected") \/ On(t, p, "reselect")

LinkEnabled(p) ==
  /\ Comm(p, "portEnabled") => Spanning(Owner[p]) /\ ~Begin(p)
  /\ Has(stk, Enabling(Owner[p])) => ~Begin(p)

SelInv ==
  /\ \A t \in Tree, b \in Bridge : TreeSelection(t, b)
  /\ \A t \in Tree, p \in Port : PortSelection(t, p)
  /\ \A p \in Port : LinkEnabled(p)

-----------------------------------------------------------------------------
(* What the steps do to it.                                                  *)

LEMMA TreeMachinesKeepSel ==
  ASSUME TypeOK, NEW t \in Tree, NEW p \in Port, PstSm(t, p) \/ TcmSm(t, p)
  PROVE  SelStays /\ PimStays /\ LinksStay /\ UNCHANGED prs
<1>1. /\ UNCHANGED bits => SelStays
      /\ UNCHANGED fsm => PimStays
      /\ UNCHANGED cbits => LinksStay
  BY DEF SelStays, SameSel, PimStays, LinksStay, Comm
<1>2. UNCHANGED prs
  BY DEF PstSm, PstDiscarding, PstLearning, PstForwarding, PstReturn, PstMoves, TcmSm,
         TcmInactive, TcmLearning, TcmDetected, TcmActive, TcmNotifiedTcn, TcmNotifiedTc,
         TcmPropagating, TcmAcknowledged, TcmReturn, TcProp, TcmKeeps, bridgeVars
<1>3. CASE PstSm(t, p)
  <2>1. UNCHANGED cbits
    BY <1>3 DEF PstSm, PstDiscarding, PstLearning, PstForwarding, PstReturn, PstMoves, commVars
  <2>2. ASSUME NEW s, NEW set, NEW clr, PstMoves(t, p, s, set, clr),
               set \subseteq PstBits, clr \subseteq PstBits
        PROVE  SelStays /\ PimStays
    <3>1. fsm' = [fsm EXCEPT ![t][p].pst = s] /\ bits' = SetBits(t, p, set, clr)
      BY <2>2 DEF PstMoves
    <3>2. set \cap SelBits = {} /\ clr \cap SelBits = {}
      BY <2>2 DEF PstBits, SelBits
    <3>3. SelStays
      BY <3>1, <3>2, SelSet
    <3>4. PimStays
      BY <3>1, PimRests, Zenon
    <3> QED
      BY <3>3, <3>4
  <2>3. \/ PstReturn(t, p)
        \/ \E s, set, clr : PstMoves(t, p, s, set, clr) /\ set \subseteq PstBits /\ clr \subseteq PstBits
    BY <1>3 DEF PstSm, PstDiscarding, PstLearning, PstForwarding, PstBits
  <2>4. CASE PstReturn(t, p)
    BY <1>1, <1>2, <2>1, <2>4 DEF PstReturn, treeVars
  <2> QED
    BY <1>1, <1>2, <2>1, <2>2, <2>3, <2>4
<1>4. CASE TcmSm(t, p)
  <2>1. PimStays
    <3>1. \/ UNCHANGED fsm
          \/ \E s : fsm' = [fsm EXCEPT ![t][p].tcm = s]
      BY <1>4 DEF TcmSm, TcmInactive, TcmLearning, TcmDetected, TcmActive, TcmNotifiedTcn,
         TcmNotifiedTc, TcmPropagating, TcmAcknowledged, TcmReturn, TcProp, TcmTo, treeVars
    <3>2. ASSUME NEW s, fsm' = [fsm EXCEPT ![t][p].tcm = s]
          PROVE  PimStays
      BY <3>2, PimRests, Zenon
    <3> QED
      BY <1>1, <3>1, <3>2
  <2>2. SelStays
    <3>1. \/ UNCHANGED bits
          \/ \E set \in SUBSET {"rcvdTc", "tcProp"}, clr \in SUBSET {"rcvdTc", "tcProp"} :
               bits' = SetBits(t, p, set, clr)
      BY <1>4 DEF TcmSm, TcmInactive, TcmLearning, TcmDetected, TcmActive, TcmNotifiedTcn,
         TcmNotifiedTc, TcmPropagating, TcmAcknowledged, TcmReturn, TcProp, treeVars
    <3>2. ASSUME NEW set \in SUBSET {"rcvdTc", "tcProp"}, NEW clr \in SUBSET {"rcvdTc", "tcProp"},
                 bits' = SetBits(t, p, set, clr)
          PROVE  SelStays
      <4>1. set \cap SelBits = {} /\ clr \cap SelBits = {}
        BY DEF SelBits
      <4> QED
        BY <3>2, <4>1, SelSet
    <3> QED
      BY <1>1, <3>1, <3>2
  <2>3. LinksStay
    <3> DEFINE Sets == \E set, clr : /\ cbits' = SetComm(p, set, clr)
                                    /\ "portEnabled" \notin set /\ "portEnabled" \notin clr
    <3>s. ASSUME NEW set, NEW clr, cbits' = SetComm(p, set, clr),
                 "portEnabled" \notin set, "portEnabled" \notin clr
          PROVE  Sets
      BY <3>s
    <3>2. Sets => LinksStay
      BY CommStays
    <3> HIDE DEF Sets
    <3>a. CASE TcmInactive(t, p) \/ TcmLearning(t, p) \/ TcmAcknowledged(t, p)
      BY <1>1, <3>s, <3>2, <3>a DEF TcmInactive, TcmLearning, TcmAcknowledged
    <3>b. CASE TcmNotifiedTc(t, p)
      BY <1>1, <3>s, <3>2, <3>b DEF TcmNotifiedTc
    <3>c. CASE TcmDetected(t, p) \/ TcmNotifiedTcn(t, p) \/ TcmPropagating(t, p)
      <4>1. \A u : "portEnabled" # NewInfo(u)
        BY DEF NewInfo
      <4>2. "portEnabled" \notin NewTcInfo(t, p)
        BY <4>1 DEF NewTcInfo
      <4> QED
        BY <3>s, <3>2, <3>c, <4>1, <4>2 DEF TcmDetected, TcmNotifiedTcn, TcmPropagating
    <3>d. CASE TcmActive(t, p) \/ TcmReturn(t, p) \/ TcProp(t, p)
      BY <1>1, <3>d DEF TcmActive, TcmReturn, TcProp, commVars
    <3> QED
      BY <1>4, <3>a, <3>b, <3>c, <3>d DEF TcmSm
  <2> QED
    BY <1>2, <2>1, <2>2, <2>3
<1> QED
  BY <1>3, <1>4

\* Port Role Transitions uses none of it but the flag "selected", which it reads.
LEMMA PrtKeepsSel ==
  ASSUME TypeOK, NEW t \in Tree, NEW p \in Port, PrtSm(t, p)
  PROVE  SelStays /\ PimStays /\ LinksStay /\ UNCHANGED prs
<1>1. /\ UNCHANGED bits => SelStays
      /\ UNCHANGED fsm => PimStays
      /\ UNCHANGED cbits => LinksStay
  BY DEF SelStays, SameSel, PimStays, LinksStay, Comm
<1> DEFINE To == \E s, calls : PrtTo(t, p, s, calls)
           Set == \E set, clr : /\ bits' = SetBits(t, p, set, clr)
                                /\ set \cap SelBits = {} /\ clr \cap SelBits = {}
           Wired == \E set : cbits' = SetComm(p, set, {}) /\ "portEnabled" \notin set
<1>2. CASE PrtReturn(t, p)
  BY <1>1, <1>2 DEF PrtReturn, commVars, treeVars, bridgeVars
<1>3. To => PimStays /\ UNCHANGED prs
  <2>1. ASSUME NEW s, NEW calls, PrtTo(t, p, s, calls)
        PROVE  PimStays /\ UNCHANGED prs
    <3>1. fsm' = [fsm EXCEPT ![t][p].prt = s] /\ UNCHANGED prs
      BY <2>1 DEF PrtTo, bridgeVars
    <3> QED
      BY <3>1, PimRests, Zenon
  <2> QED
    BY <2>1
<1>4. Set => SelStays
  BY SelSet
<1>5. Wired => LinksStay
  <2>1. ASSUME NEW set, cbits' = SetComm(p, set, {}), "portEnabled" \notin set
        PROVE  LinksStay
    BY <2>1, CommStays
  <2> QED
    BY <2>1
<1>6. \A s, calls : PrtTo(t, p, s, calls) => To
  OBVIOUS
<1>7. ASSUME NEW set, NEW clr, Flags(t, p, set, clr), set \cap SelBits = {}, clr \cap SelBits = {}
      PROVE  Set
  BY <1>7 DEF Flags
<1>8. /\ \A s : PrtStops(t, p, s) => To /\ Flags(t, p, {}, {"learn", "forward"}) /\ UNCHANGED cbits
      /\ \A s, delay : PrtRests(t, p, s, delay) =>
           To /\ Flags(t, p, {"synced"}, {"sync", "reRoot"}) /\ UNCHANGED cbits
  BY DEF PrtStops, PrtRests
<1>9. \A S : (\A x \in S : x \in TreeBit \ SelBits) => S \cap SelBits = {}
  OBVIOUS
<1>10. \A u : "portEnabled" \notin {NewInfo(u)}
  BY DEF NewInfo
<1> HIDE DEF To, Set, Wired
<1>11. CASE \/ PrtDisablePort(t, p) \/ PrtBlockPort(t, p)
            \/ PrtDisabledPort(t, p) \/ PrtAlternatePort(t, p)
  <2>1. \/ To /\ Flags(t, p, {}, {"learn", "forward"}) /\ UNCHANGED cbits
        \/ To /\ Flags(t, p, {"synced"}, {"sync", "reRoot"}) /\ UNCHANGED cbits
    BY <1>8, <1>11, Zenon DEF PrtDisablePort, PrtBlockPort, PrtDisabledPort, PrtAlternatePort
  <2>2. /\ {} \cap SelBits = {} /\ {"learn", "forward"} \cap SelBits = {}
        /\ {"synced"} \cap SelBits = {} /\ {"sync", "reRoot"} \cap SelBits = {}
    BY DEF SelBits
  <2> QED
    BY <1>1, <1>3, <1>4, <1>7, <2>1, <2>2, Zenon
<1>12. CASE \/ PrtBackupPort(t, p) \/ PrtMasterPort(t, p) \/ PrtDesignatedPort(t, p)
            \/ PrtRootPort(t, p)
  <2>1. To /\ UNCHANGED bits /\ UNCHANGED cbits
    BY <1>6, <1>12, Zenon DEF PrtBackupPort, PrtMasterPort, PrtDesignatedPort, PrtRootPort
  <2> QED
    BY <1>1, <1>3, <2>1
<1>13. CASE PrtProposed(t, p) \/ PrtReRoot(t, p)
  <2>1. bits \in [Tree -> [Port -> SUBSET TreeBit]]
    BY DEF TypeOK, TreeTypes
  <2>2. To /\ UNCHANGED cbits
    BY <1>6, <1>13 DEF PrtProposed, PrtReRoot
  <2>3. ASSUME PrtProposed(t, p) PROVE SelStays
    BY <2>1, <2>3 DEF PrtProposed, WholeTree, SelStays, SameSel, SelBits
  <2>4. ASSUME PrtReRoot(t, p) PROVE SelStays
    BY <2>1, <2>4 DEF PrtReRoot, WholeTree, SelStays, SameSel, SelBits
  <2> QED
    BY <1>1, <1>3, <1>13, <2>2, <2>3, <2>4
<1>14. CASE PrtPropose(t, p) \/ PrtAgreed(t, p) \/ PrtAlternateAgreed(t, p)
  <2>1. To /\ cbits' = SetComm(p, {NewInfo(t)}, {})
    BY <1>6, <1>14, Zenon DEF PrtPropose, PrtAgreed, PrtAlternateAgreed
  <2>2. \/ Flags(t, p, {"proposing"}, {}) \/ Flags(t, p, {"agree"}, {"proposed", "sync"})
        \/ Flags(t, p, {"agree"}, {"proposed"})
    BY <1>14, Zenon DEF PrtPropose, PrtAgreed, PrtAlternateAgreed
  <2>3. /\ {} \cap SelBits = {} /\ {"proposing"} \cap SelBits = {} /\ {"agree"} \cap SelBits = {}
        /\ {"proposed", "sync"} \cap SelBits = {} /\ {"proposed"} \cap SelBits = {}
    BY DEF SelBits
  <2>4. Set
    BY <1>7, <2>2, <2>3, Zenon
  <2>5. Wired
    BY <1>10, <2>1, Zenon DEF Wired
  <2> QED
    BY <1>3, <1>4, <1>5, <2>1, <2>4, <2>5
<1>15. CASE \/ PrtInitPort(t, p) \/ PrtMasterAgreed(t, p) \/ PrtSynced(t, p) \/ PrtRootSynced(t, p)
            \/ PrtRetired(t, p) \/ PrtLearn(t, p) \/ PrtForward(t, p) \/ PrtRootForward(t, p)
            \/ PrtDiscard(t, p)
  <2>1. To /\ UNCHANGED cbits
    BY <1>6, <1>15, Zenon DEF PrtInitPort, PrtMasterAgreed, PrtSynced, PrtRootSynced, PrtRetired,
       PrtLearn, PrtForward, PrtRootForward, PrtDiscard
  <2>2. \/ Flags(t, p, {"sync", "reRoot"}, {"learn", "forward", "synced"})
        \/ Flags(t, p, {"agree"}, {"proposed", "sync"}) \/ Flags(t, p, {"synced"}, {"sync"})
        \/ Flags(t, p, {}, {"reRoot"}) \/ Flags(t, p, {"learn"}, {})
        \/ Flags(t, p, {"forward", "agreed"}, {}) \/ Flags(t, p, {"forward"}, {"agreed"})
        \/ Flags(t, p, {"forward"}, {}) \/ Flags(t, p, {}, {"learn", "forward", "disputed"})
    BY <1>15 DEF PrtInitPort, PrtMasterAgreed, PrtSynced, PrtRootSynced, PrtRetired,
       PrtLearn, PrtForward, PrtRootForward, PrtDiscard
  <2>3. /\ {} \cap SelBits = {} /\ {"sync", "reRoot"} \cap SelBits = {}
        /\ {"learn", "forward", "synced"} \cap SelBits = {}
        /\ {"agree"} \cap SelBits = {} /\ {"proposed", "sync"} \cap SelBits = {}
        /\ {"synced"} \cap SelBits = {} /\ {"sync"} \cap SelBits = {}
        /\ {"reRoot"} \cap SelBits = {} /\ {"learn"} \cap SelBits = {}
        /\ {"forward", "agreed"} \cap SelBits = {} /\ {"forward"} \cap SelBits = {}
        /\ {"agreed"} \cap SelBits = {} /\ {"learn", "forward", "disputed"} \cap SelBits = {}
    BY DEF SelBits
  <2>4. Set
    BY <1>7, <2>2, <2>3, Zenon
  <2> QED
    BY <1>1, <1>3, <1>4, <2>1, <2>4
<1> QED
  BY <1>2, <1>11, <1>12, <1>13, <1>14, <1>15, Zenon DEF PrtSm

\* Port Role Selection: it starts, it selects, or it returns.
PrsStarts(t, p) ==
  /\ Begin(p) /\ SelStays /\ Loop(<<>>)
  /\ prs' = [prs EXCEPT ![t][Owner[p]] = "INIT_TREE"]
PrsSelectsAll(t, p) ==
  /\ prs' = [prs EXCEPT ![t][Owner[p]] = "ROLE_SELECTION"]
  /\ \A q \in PortsOf(Owner[p]) : "selected" \in bits'[t][q] /\ "reselect" \notin bits'[t][q]
  /\ \A u \in Tree, q \in Port : ~(u = t /\ Owner[q] = Owner[p]) => SameSel(u, q)
PrsRests(t, p) ==
  /\ SelStays /\ Return(<<>>) /\ UNCHANGED prs
  /\ prs[t][Owner[p]] # "INIT_TREE" /\ (Begin(p) => Head(stk).loop)
  /\ prs[t][Owner[p]] = "ROLE_SELECTION" => \A q \in PortsOf(Owner[p]) : ~On(t, q, "reselect")

LEMMA PrsEffects ==
  ASSUME TypeOK, NEW t \in Tree, NEW p \in Port, PrsSm(t, p)
  PROVE  /\ PimStays /\ LinksStay
         /\ PrsStarts(t, p) \/ PrsSelectsAll(t, p) \/ PrsRests(t, p)
<1>1. PimStays /\ LinksStay
  BY DEF PrsSm, PrsInitTree, PrsRoleSelection, PrsReturn, treeVars, commVars, PimStays, LinksStay, Comm
<1>2. UNCHANGED bits => SelStays
  BY DEF SelStays, SameSel
<1>3. ASSUME PrsInitTree(t, p) PROVE PrsStarts(t, p)
  <2>1. Target(PrsGeneral(t, p), PrsCond(t, p)) = "INIT_TREE"
    BY <1>3 DEF PrsInitTree, PrsEnters
  <2>2. PrsCond(t, p) # "INIT_TREE"
    BY DEF PrsCond, Stay
  <2>3. Begin(p)
    BY <2>1, <2>2 DEF Target, PrsGeneral, Stay
  <2> QED
    BY <1>2, <1>3, <2>3 DEF PrsInitTree, PrsStarts
<1>4. ASSUME PrsRoleSelection(t, p) PROVE PrsSelectsAll(t, p)
  <2>1. PICK new : bits' = [u \in Tree |-> [q \in Port |->
                        IF ~(Owner[q] = Owner[p]) THEN bits[u][q]
                        ELSE IF u = t THEN Selected(t, q, new)
                        ELSE IF t = CIST /\ SyncsMaster(Owner[p], new)
                        THEN SyncedMaster(q, bits[u][q])
                        ELSE bits[u][q]]]
    BY <1>4 DEF PrsRoleSelection
  <2>2. prs' = [prs EXCEPT ![t][Owner[p]] = "ROLE_SELECTION"]
    BY <1>4 DEF PrsRoleSelection
  <2>3. \A q : "selected" \in Selected(t, q, new) /\ "reselect" \notin Selected(t, q, new)
    BY DEF Selected
  <2>4. \A q, fs : \A x \in SelBits : x \in SyncedMaster(q, fs) <=> x \in fs
    BY DEF SyncedMaster, SelBits
  <2>5. \A q \in PortsOf(Owner[p]) : bits'[t][q] = Selected(t, q, new)
    BY <2>1 DEF PortsOf
  <2>6. ASSUME NEW u \in Tree, NEW q \in Port, ~(u = t /\ Owner[q] = Owner[p])
        PROVE  SameSel(u, q)
    <3>1. bits'[u][q] = bits[u][q] \/ bits'[u][q] = SyncedMaster(q, bits[u][q])
      BY <2>1, <2>6
    <3> QED
      BY <2>4, <3>1, Zenon DEF SameSel
  <2> QED
    BY <2>2, <2>3, <2>5, <2>6, Zenon DEF PrsSelectsAll
<1>5. ASSUME PrsReturn(t, p) PROVE PrsRests(t, p)
  <2>1. SelStays /\ Return(<<>>) /\ UNCHANGED prs
    BY <1>2, <1>5 DEF PrsReturn, treeVars, bridgeVars
  <2>2. Target(PrsGeneral(t, p), PrsCond(t, p)) = Stay
    BY <1>5 DEF PrsReturn, PrsEnters
  <2>3. (~Head(stk).loop => PrsGeneral(t, p) = Stay) /\ PrsCond(t, p) = Stay
    BY <2>2 DEF Target
  <2>4. prs[t][Owner[p]] # "INIT_TREE"
    BY <2>3 DEF PrsCond, Stay
  <2>5. Begin(p) => Head(stk).loop
    BY <2>3, <2>4 DEF PrsGeneral, Stay
  <2>6. prs[t][Owner[p]] = "ROLE_SELECTION" => \A q \in PortsOf(Owner[p]) : ~On(t, q, "reselect")
    BY <2>3 DEF PrsCond, Stay
  <2> QED
    BY <2>1, <2>4, <2>5, <2>6 DEF PrsRests
<1> QED
  BY <1>1, <1>3, <1>4, <1>5 DEF PrsSm

\* The steps that are no state machine: ports are enabled, and BEGIN ends.
LEMMA ControlKeepsSel ==
  ASSUME TypeOK, NEW p \in Port, BeginDone(p) \/ EnablePort(p) \/ PendingTx(p) \/ InformDBStep(p)
  PROVE  /\ SelStays /\ PimStays /\ UNCHANGED prs
         /\ LinksStay \/ (/\ Head(stk).sm = "ENABLE_PORT"
                          /\ \A q \in Port : q # p => (Comm(q, "portEnabled")' <=> Comm(q, "portEnabled")))
<1>1. UNCHANGED <<bits, fsm, prs>>
  BY DEF BeginDone, EnablePort, PendingTx, InformDBStep, treeVars, bridgeVars
<1>2. SelStays /\ PimStays
  BY <1>1 DEF SelStays, SameSel, PimStays
<1>3. CASE BeginDone(p) \/ PendingTx(p) \/ InformDBStep(p)
  BY <1>1, <1>2, <1>3 DEF BeginDone, PendingTx, InformDBStep, commVars, LinksStay, Comm
<1>4. CASE EnablePort(p)
  <2>1. cbits \in [Port -> SUBSET CommBit] /\ cbits' = SetComm(p, {"portEnabled"}, {})
    BY <1>4 DEF TypeOK, PortTypes, EnablePort
  <2>2. \A q \in Port : q # p => cbits'[q] = cbits[q]
    BY <2>1 DEF SetComm
  <2>3. Head(stk).sm = "ENABLE_PORT"
    BY <1>4 DEF EnablePort, Running
  <2> QED
    BY <1>1, <1>2, <2>2, <2>3 DEF Comm
<1> QED
  BY <1>3, <1>4

\* a handler that calls x first
LEMMA FirstCall ==
  ASSUME NEW b, stk \in Seq(Frames(b, FrameName)), stk # <<>>,
         NEW x \in Frames(b, FrameName), NEW rest \in Seq(Frames(b, FrameName)), NEW F, x \in F,
         NEW calls, calls = <<x>> \/ calls = <<x>> \o rest, Loop(calls) \/ Return(calls)
  PROVE  Has(stk', F)
<1> DEFINE D == Frames(b, FrameName)
<1>1. <<x>> \in Seq(D) /\ <<x>> # <<>> /\ Head(<<x>>) = x /\ <<x>> \o rest \in Seq(D)
  OBVIOUS
<1> HIDE DEF D
<1>2. Has(<<x>>, F)
  BY <1>1, BelowHead
<1>3. Has(<<x>> \o rest, F)
  BY <1>1, <1>2, HasJoined DEF D
<1>4. calls \in Seq(D) /\ Has(calls, F)
  BY <1>1, <1>2, <1>3
<1> QED
  BY <1>4, CallsPushed DEF D

LEMMA PimKeepsLinks ==
  ASSUME TypeOK, NEW t \in Tree, NEW p \in Port, PimSm(t, p)
  PROVE  LinksStay /\ UNCHANGED prs
<1>1. UNCHANGED cbits => LinksStay
  BY DEF LinksStay, Comm
<1>2. UNCHANGED prs
  BY DEF PimSm, PimDisabled, PimAged, PimUpdate, PimCurrent, PimReceive, PimSuperior,
         PimRepeated, PimInferior, PimNotDesignated, PimOther, PimReturn, PimRecord,
         SyncMsti, PimAgedRest, PimSelected, PimDone, PimKeeps, bridgeVars
<1> DEFINE Wired == \E set, clr : /\ cbits' = SetComm(p, set, clr)
                                 /\ "portEnabled" \notin set /\ "portEnabled" \notin clr
<1>3. ASSUME NEW set, NEW clr, cbits' = SetComm(p, set, clr),
             "portEnabled" \notin set, "portEnabled" \notin clr
      PROVE  Wired
  BY <1>3
<1>4. Wired => LinksStay
  BY CommStays
<1> HIDE DEF Wired
<1>5. "portEnabled" \notin {NewInfo(t)} /\ "portEnabled" \notin RcvdTcAckBits(t)
  BY DEF NewInfo, RcvdTcAckBits
<1>6. CASE PimUpdate(t, p)
  BY <1>2, <1>3, <1>4, <1>5, <1>6 DEF PimUpdate
<1>7. CASE PimReceive(t, p)
  BY <1>2, <1>3, <1>4, <1>7 DEF PimReceive
<1>8. CASE PimSuperior(t, p) \/ PimRepeated(t, p)
  <2>1. InfoInternal(p, RcvdTcAckBits(t))
    BY <1>8 DEF PimSuperior, PimRepeated
  <2>2. "portEnabled" \notin RcvdTcAckBits(t) \cup {"infoInternal"} /\ "portEnabled" \notin {"infoInternal"}
    BY <1>5
  <2> QED
    BY <1>2, <1>3, <1>4, <1>5, <2>1, <2>2 DEF InfoInternal
<1>9. CASE PimNotDesignated(t, p)
  BY <1>2, <1>3, <1>4, <1>5, <1>9 DEF PimNotDesignated
<1>10. CASE ~(PimUpdate(t, p) \/ PimReceive(t, p) \/ PimSuperior(t, p) \/ PimRepeated(t, p)
              \/ PimNotDesignated(t, p))
  <2>1. UNCHANGED cbits
    BY <1>10 DEF PimSm, PimDisabled, PimAged, PimCurrent, PimInferior, PimOther, PimReturn,
       PimRecord, SyncMsti, PimAgedRest, PimSelected, PimDone, commVars
  <2> QED
    BY <1>1, <1>2, <2>1
<1> QED
  BY <1>6, <1>7, <1>8, <1>9, <1>10

LEMMA PimKeepsStart ==
  ASSUME TypeOK, NEW t \in Tree, NEW p \in Port, PimSm(t, p)
  PROVE  /\ \A u \in Tree, q \in Port : ~(u = t /\ q = p) => fsm'[u][q].pim = fsm[u][q].pim
         /\ fsm'[t][p].pim = fsm[t][p].pim \/ (Head(stk).sm = "PIM" /\ fsm'[t][p].pim # "UNKNOWN")
<1>1. CASE UNCHANGED fsm
  BY <1>1
<1>2. ASSUME NEW s, PimTo(t, p, s), s # "UNKNOWN", Head(stk).sm = "PIM"
      PROVE  /\ \A u \in Tree, q \in Port : ~(u = t /\ q = p) => fsm'[u][q].pim = fsm[u][q].pim
             /\ Head(stk).sm = "PIM" /\ fsm'[t][p].pim # "UNKNOWN"
  <2>1. fsm' = [fsm EXCEPT ![t][p].pim = s]
    BY <1>2 DEF PimTo
  <2>2. /\ fsm'[t][p].pim = s
        /\ \A u \in Tree, q \in Port : ~(u = t /\ q = p) => fsm'[u][q].pim = fsm[u][q].pim
    <3>1. fsm \in [Tree -> [Port -> TreeMachines]]
      BY DEF TypeOK, TreeTypes
    <3> QED
      BY <2>1, <3>1 DEF TreeMachines
  <2> QED
    BY <1>2, <2>2
<1>3. UNCHANGED fsm \/ \E s : PimTo(t, p, s) /\ s # "UNKNOWN" /\ Head(stk).sm = "PIM"
  BY DEF PimSm, PimDisabled, PimAged, PimUpdate, PimCurrent, PimReceive, PimSuperior,
     PimRepeated, PimInferior, PimNotDesignated, PimOther, PimReturn, PimRecord, PimEnters, Running,
     SyncMsti, PimAgedRest, PimSelected, PimDone, PimKeeps, treeVars
<1> QED
  BY <1>1, <1>2, <1>3

\* Port Information asks for a selection only where it calls for one, but in
\* BEGIN: mstp_initStateMachines calls Port Role Selection itself.
Asks(t, p) ==
  /\ \A u \in Tree, q \in Port : ~(u = t /\ q = p) => SameSel(u, q)
  /\ "reselect" \in bits'[t][p]

LEMMA PimAsks ==
  ASSUME TypeOK, NEW t \in Tree, NEW p \in Port, PimSm(t, p),
         stk \in Seq(Frames(Owner[p], FrameName)), stk # <<>>
  PROVE  \/ SelStays
         \/ /\ Asks(t, p)
            /\ \/ Begin(p) /\ (PimDisabled(t, p) \/ PimAged(t, p))
               \/ Has(stk', Of("PRS", t, Owner[p]))
<1> DEFINE b == Owner[p]
           D == Frames(b, FrameName)
           x == Call("PRS", t, p)
<1>1. b \in Bridge /\ p \in PortsOf(b)
  BY OwnerType DEF PortsOf
<1>2. x \in D /\ x \in Of("PRS", t, b)
  <2>1. "PRS" \in FrameName
    BY DEF FrameName, Callable, MachineName
  <2>2. x \in D /\ x.sm = "PRS" /\ x.t = t
    BY <1>1, <2>1, CallTypes, NewFramesAreFrames DEF Call
  <2> QED
    BY <2>2 DEF Of
<1>3. ASSUME NEW calls, NEW rest \in Seq(D), calls = <<x>> \/ calls = <<x>> \o rest,
             Loop(calls) \/ Return(calls)
      PROVE  Has(stk', Of("PRS", t, b))
  BY <1>2, <1>3, FirstCall
<1>4. bits \in [Tree -> [Port -> SUBSET TreeBit]]
  BY DEF TypeOK, TreeTypes
<1>5. <<>> \in Seq(D)
  OBVIOUS
<1>6. UNCHANGED bits => SelStays
  BY DEF SelStays, SameSel
<1> HIDE DEF D, x, b
<1>7. ASSUME NEW clr, bits' = SetBits(t, p, {"reselect"}, clr)
      PROVE  Asks(t, p)
  <2>1. bits'[t][p] = (bits[t][p] \ clr) \cup {"reselect"}
    BY <1>7, OneSet
  <2> QED
    BY <1>7, <2>1, SelSet DEF Asks
<1>8. CASE PimDisabled(t, p)
  <2>1. Asks(t, p)
    BY <1>7, <1>8 DEF PimDisabled
  <2>2. ~Begin(p) => Loop(<<x>>)
    BY <1>8 DEF PimDisabled, x
  <2> QED
    BY <1>3, <1>5, <1>8, <2>1, <2>2 DEF b
<1>9. CASE PimAged(t, p)
  <2>1. Asks(t, p)
    BY <1>7, <1>9 DEF PimAged
  <2>2. ~Begin(p) =>
          Return(<<x>> \o (IF t = CIST THEN <<Rest("PIM_AGED", t, p, OldRgn(p))>> ELSE <<>>))
    BY <1>9 DEF PimAged, x
  <2>3. (IF t = CIST THEN <<Rest("PIM_AGED", t, p, OldRgn(p))>> ELSE <<>>) \in Seq(D)
    <3>1. "PIM_AGED" \in FrameName /\ OldRgn(p) \in Nat
      BY <1>1, RootParts, PortsAreNumbers DEF OldRgn, FrameName, Callable, RestName, PimSteps, b
    <3>2. Rest("PIM_AGED", t, p, OldRgn(p)) \in D
      BY <1>1, <3>1, CallTypes, NewFramesAreFrames DEF D
    <3> QED
      BY <1>5, <3>2
  <2> QED
    BY <1>3, <1>9, <2>1, <2>2, <2>3 DEF b
<1>10. CASE SyncMsti(t, p)
  <2>1. Asks(t, p) /\ Return(<<x>>)
    BY <1>7, <1>10 DEF SyncMsti, x
  <2> QED
    BY <1>3, <1>5, <2>1 DEF b
<1>11. CASE \/ PimUpdate(t, p) \/ PimOther(t, p) \/ (t = CIST /\ PimDone(p))
  <2>1. \E clr : bits' = SetBits(t, p, {}, clr) /\ clr \cap SelBits = {}
    BY <1>11 DEF PimUpdate, PimOther, PimDone, SelBits
  <2>2. {} \cap SelBits = {}
    OBVIOUS
  <2> QED
    BY <2>1, <2>2, SelSet
<1>12. CASE \/ PimCurrent(t, p) \/ PimReturn(t, p)
            \/ (t = CIST /\ (PimAgedRest(p) \/ PimSelected(p)))
  BY <1>6, <1>12 DEF PimCurrent, PimReturn, PimAgedRest, PimSelected, treeVars
<1>13. CASE PimReceive(t, p)
  <2>1. \/ UNCHANGED bits
        \/ bits' = [u \in Tree |-> IF u = CIST THEN bits[u]
                                   ELSE [bits[u] EXCEPT ![p] = @ \cup {"rcvdTc"}]]
    BY <1>13 DEF PimReceive
  <2>2. SelStays
    BY <1>4, <1>6, <2>1 DEF SelStays, SameSel, SelBits
  <2> QED
    BY <2>2
<1>14. \A u \in Tree : \A fs, fsT : \A y \in SelBits :
          /\ y \in RecordProposal(t, u, p, fs) <=> y \in fs
          /\ y \in SetTcFlags(t, u, p, fs) <=> y \in fs
          /\ y \in RecordAgreement(t, u, p, fs, fsT) <=> y \in fs
          /\ y \in RecordDispute(t, u, p, fs) <=> y \in fs
  BY DEF RecordProposal, SetTcFlags, RecordAgreement, RecordDispute, SelBits
<1>15. CASE PimRecord(t, p)
  <2> DEFINE fsT == IF BetterOrSame(t, p, "RECEIVED") THEN bits[t][p] ELSE bits[t][p] \ {"agree"}
             agreedT == RecordAgreement(t, t, p, fsT, fsT)
             clear == {"selected"} \cup (IF "agreed" \in agreedT THEN {} ELSE {"synced"})
                        \cup (IF t = CIST THEN {} ELSE {"rcvdMsg"})
             g == [u \in Tree |-> IF u = t THEN (agreedT \ clear) \cup {"reselect"}
                                  ELSE RecordAgreement(t, u, p, bits[u][p], agreedT)]
  <2>1. \A u \in Tree : bits'[u] = [bits[u] EXCEPT ![p] = g[u]]
    BY <1>15 DEF PimRecord, PortBits
  <2>2. "reselect" \in g[t]
    OBVIOUS
  <2>3. \A u \in Tree : u # t => \A y \in SelBits : y \in g[u] <=> y \in bits[u][p]
    <3> HIDE DEF agreedT
    <3> QED
      BY <1>14
  <2> HIDE DEF g
  <2>4. ASSUME NEW u \in Tree, NEW q \in Port
        PROVE  bits'[u][q] = IF q = p THEN g[u] ELSE bits[u][q]
    <3>1. bits[u] \in [Port -> SUBSET TreeBit] /\ bits'[u] = [bits[u] EXCEPT ![p] = g[u]]
      BY <1>4, <2>1
    <3> QED
      BY <3>1
  <2>5. Asks(t, p)
    BY <2>2, <2>3, <2>4 DEF Asks, SameSel
  <2>6. \E rest \in Seq(D) : Return(<<x>> \o rest)
    <3>1. /\ <<Rest("PIM_SELECTED", t, p, OldRgn(p)), Call("PIM_DONE", t, p)>> \in Seq(D)
          /\ <<Call("TCM", t, p)>> \in Seq(D)
      <4>1. {"PIM_SELECTED", "PIM_DONE", "TCM"} \subseteq FrameName /\ OldRgn(p) \in Nat
        BY <1>1, RootParts, PortsAreNumbers DEF OldRgn, FrameName, Callable, RestName, PimSteps,
           MachineName, b
      <4>2. /\ Rest("PIM_SELECTED", t, p, OldRgn(p)) \in D
            /\ Call("PIM_DONE", t, p) \in D /\ Call("TCM", t, p) \in D
        BY <1>1, <4>1, CallTypes, NewFramesAreFrames DEF D
      <4> QED
        BY <4>2
    <3> QED
      BY <1>15, <3>1 DEF PimRecord, x
  <2> QED
    BY <1>3, <2>5, <2>6 DEF b
<1> DEFINE h(u) == IF u = t THEN bits[u][p] \ {"agreed", "proposing"} ELSE bits[u][p]
           fsR == RecordProposal(t, t, p, bits[t][p])
                    \ (IF Agrees(t, p) THEN {"proposing"} ELSE {})
           fsN == bits[t][p] \ (IF Agrees(t, p) THEN {"proposing"} ELSE {})
           rcvd(u) == IF u = t THEN {"rcvdMsg"} ELSE {}
           gS == [u \in Tree |-> SetTcFlags(t, u, p, RecordProposal(t, u, p, h(u)))]
           gR == [u \in Tree |->
                    RecordAgreement(t, u, p, SetTcFlags(t, u, p,
                                      RecordProposal(t, u, p, bits[u][p])), fsR) \ rcvd(u)]
           gI == [u \in Tree |-> RecordDispute(t, u, p, bits[u][p]) \ rcvd(u)]
           gN == [u \in Tree |->
                    SetTcFlags(t, u, p, RecordAgreement(t, u, p, bits[u][p], fsN)) \ rcvd(u)]
           Same(g) == \A u \in Tree : \A y \in SelBits : y \in g[u] <=> y \in bits[u][p]
<1>r. \A u : \A y \in SelBits : y \notin rcvd(u) /\ (y \in h(u) <=> y \in bits[u][p])
  BY DEF SelBits
<1>b. /\ PimSuperior(t, p) => \A u \in Tree : bits'[u] = [bits[u] EXCEPT ![p] = gS[u]]
      /\ PimRepeated(t, p) => \A u \in Tree : bits'[u] = [bits[u] EXCEPT ![p] = gR[u]]
      /\ PimInferior(t, p) => \A u \in Tree : bits'[u] = [bits[u] EXCEPT ![p] = gI[u]]
      /\ PimNotDesignated(t, p) => \A u \in Tree : bits'[u] = [bits[u] EXCEPT ![p] = gN[u]]
  BY DEF PimSuperior, PimRepeated, PimInferior, PimNotDesignated, PortBits
<1>g. ASSUME NEW u \in Tree, NEW y \in SelBits
      PROVE  /\ y \in gS[u] <=> y \in bits[u][p]
             /\ y \in gR[u] <=> y \in bits[u][p]
             /\ y \in gI[u] <=> y \in bits[u][p]
             /\ y \in gN[u] <=> y \in bits[u][p]
  <2> HIDE DEF h, fsR, fsN, rcvd
  <2>0. \A fs, fsT : /\ y \in RecordProposal(t, u, p, fs) <=> y \in fs
                     /\ y \in SetTcFlags(t, u, p, fs) <=> y \in fs
                     /\ y \in RecordAgreement(t, u, p, fs, fsT) <=> y \in fs
                     /\ y \in RecordDispute(t, u, p, fs) <=> y \in fs
    BY <1>14, Zenon
  <2>1. y \in SetTcFlags(t, u, p, RecordProposal(t, u, p, h(u))) <=> y \in bits[u][p]
    BY <2>0, <1>r, Zenon
  <2>2. y \in RecordAgreement(t, u, p, SetTcFlags(t, u, p,
                RecordProposal(t, u, p, bits[u][p])), fsR) <=> y \in bits[u][p]
    BY <2>0, Zenon
  <2>3. y \in RecordDispute(t, u, p, bits[u][p]) <=> y \in bits[u][p]
    BY <2>0, Zenon
  <2>4. y \in SetTcFlags(t, u, p, RecordAgreement(t, u, p, bits[u][p], fsN)) <=> y \in bits[u][p]
    BY <2>0, Zenon
  <2>5. \A S : y \in S \ rcvd(u) <=> y \in S
    BY <1>r
  <2>6. y \in gS[u] <=> y \in bits[u][p]
    BY <2>1, Zenon
  <2>7. y \in gR[u] <=> y \in bits[u][p]
    BY <2>2, <2>5, Zenon
  <2>8. y \in gI[u] <=> y \in bits[u][p]
    BY <2>3, <2>5, Zenon
  <2>9. y \in gN[u] <=> y \in bits[u][p]
    BY <2>4, <2>5, Zenon
  <2> QED
    BY <2>6, <2>7, <2>8, <2>9
<1> HIDE DEF gS, gR, gI, gN
<1>16. CASE \/ PimSuperior(t, p) \/ PimRepeated(t, p) \/ PimInferior(t, p)
            \/ PimNotDesignated(t, p)
  <2>1. Same(gS) /\ Same(gR) /\ Same(gI) /\ Same(gN)
    BY <1>g
  <2>2. \E g : Same(g) /\ \A u \in Tree : bits'[u] = [bits[u] EXCEPT ![p] = g[u]]
    BY <1>16, <1>b, <2>1, Zenon
  <2> QED
    BY <2>2, PortSelStays
<1> QED
  BY <1>8, <1>9, <1>10, <1>11, <1>12, <1>13, <1>15, <1>16 DEF PimSm

\* In BEGIN it disables a port whose first call this is, and nothing else.
LEMMA PimInBegin ==
  ASSUME TypeOK, NEW t \in Tree, NEW p \in Port, PimSm(t, p), Head(stk).sm = "PIM", Begin(p),
         fsm[t][p].pim \in {"UNKNOWN", "DISABLED"}, ~Comm(p, "portEnabled")
  PROVE  /\ ~PimAged(t, p)
         /\ \/ Loop(<<>>) /\ fsm'[t][p].pim = "DISABLED"
            \/ Return(<<>>) /\ UNCHANGED fsm /\ (fsm[t][p].pim = "UNKNOWN" => Head(stk).loop)
<1> DEFINE to == Target(PimGeneral(t, p), PimCond(t, p))
<1>1. PimCond(t, p) = Stay
  BY DEF PimCond
<1>2. PimGeneral(t, p) = IF fsm[t][p].pim = "UNKNOWN" THEN "DISABLED" ELSE Stay
  BY DEF PimGeneral
<1>3. to \in {"DISABLED", Stay} /\ (to = Stay /\ fsm[t][p].pim = "UNKNOWN" => Head(stk).loop)
  BY <1>1, <1>2 DEF Target, Stay
<1>4. \A s : PimEnters(t, p, s) => s = to
  BY DEF PimEnters
<1> HIDE DEF to
<1>5. \A s : s \notin {"DISABLED", Stay} => ~PimEnters(t, p, s)
  BY <1>3, <1>4
<1>6. \A s, u : s # "PIM" => ~Running(s, u, p)
  BY DEF Running
<1>7. ~PimAged(t, p)
  BY <1>5 DEF PimAged, Stay
<1>8. PimDisabled(t, p) \/ PimReturn(t, p)
  BY <1>5, <1>6 DEF PimSm, PimAged, PimUpdate, PimCurrent, PimReceive, PimSuperior,
     PimRepeated, PimInferior, PimNotDesignated, PimOther, PimRecord,
     SyncMsti, PimAgedRest, PimSelected, PimDone, Stay
<1>9. CASE PimDisabled(t, p)
  <2>0. fsm' = [fsm EXCEPT ![t][p].pim = "DISABLED"]
    BY <1>9 DEF PimDisabled, PimTo
  <2>1. fsm'[t][p].pim = "DISABLED"
    BY <2>0 DEF TypeOK, TreeTypes, TreeMachines
  <2> QED
    BY <1>7, <1>9, <2>1 DEF PimDisabled
<1>10. CASE PimReturn(t, p)
  <2>1. to = Stay
    BY <1>4, <1>10 DEF PimReturn
  <2> QED
    BY <1>3, <1>7, <1>10, <2>1 DEF PimReturn, treeVars
<1> QED
  BY <1>8, <1>9, <1>10

-----------------------------------------------------------------------------
(* A step keeps what is said of a selection.                                 *)

\* Other bridges have no calls on the stack.
LEMMA NoOtherFrames ==
  ASSUME NEW b, NEW c, b # c, NEW s \in Seq(Frames(b, FrameName))
  PROVE  \A A, F : F \subseteq Frames(c, FrameName) => ~Has(s, F) /\ ~Under(s, A, F)
<1>1. \A x \in Frames(b, FrameName) : x \notin Frames(c, FrameName)
  BY DEF Frames, PortsOf
<1>2. \A i \in DOMAIN s : s[i] \in Frames(b, FrameName)
  OBVIOUS
<1> QED
  BY <1>1, <1>2 DEF Has, Under

LEMMA OtherBridgeKeeps ==
  ASSUME NEW b \in Bridge, NEW c \in Bridge, c # b,
         stk \in Seq(Frames(b, FrameName)), stk' \in Seq(Frames(b, FrameName)), stk # <<>>,
         Spanning(c)' <=> Spanning(c), ctl'[c].begin => ctl[c].begin,
         \A u \in Tree : prs'[u][c] = prs[u][c],
         \A q \in PortsOf(c) : /\ Comm(q, "portEnabled")' <=> Comm(q, "portEnabled")
                               /\ \A u \in Tree : SameSel(u, q) /\ fsm'[u][q].pim = fsm[u][q].pim,
         SelInv
  PROVE  /\ \A u \in Tree : TreeSelection(u, c)'
         /\ \A u \in Tree, q \in PortsOf(c) : PortSelection(u, q)'
         /\ \A q \in PortsOf(c) : LinkEnabled(q)'
<1>1. \A A, F : F \subseteq Frames(c, FrameName) =>
         ~Has(stk, F) /\ ~Under(stk, A, F) /\ ~Has(stk', F) /\ ~Under(stk', A, F)
  BY NoOtherFrames
<1>2. Head(stk) \notin Frames(c, FrameName)
  <2>1. Head(stk) \in Frames(b, FrameName)
    OBVIOUS
  <2> QED
    BY <2>1 DEF Frames, PortsOf
<1>3. \A u \in Tree, q \in PortsOf(c) :
        /\ On(u, q, "selected")' <=> On(u, q, "selected")
        /\ On(u, q, "reselect")' <=> On(u, q, "reselect")
  BY DEF SameSel, SelBits, On
<1>4. /\ \A s, t : Of(s, t, c) \subseteq Frames(c, FrameName)
      /\ \A s, t : NotRun(s, t, c) \subseteq Frames(c, FrameName)
      /\ \A t, q : Owner[q] = c => NotRunFor(t, q) \subseteq Frames(c, FrameName)
      /\ Enabling(c) \subseteq Frames(c, FrameName)
  BY DEF Of, NotRun, NotRunFor, Enabling
<1>5. ASSUME NEW u \in Tree
      PROVE  TreeSelection(u, c)'
  <2>1. TreeSelection(u, c)
    BY DEF SelInv
  <2>2. CASE ~Spanning(c)
    BY <2>1, <2>2 DEF TreeSelection
  <2>3. CASE Spanning(c)
    <3>1. ~Unselected(u, c) /\ prs[u][c] \notin {"UNKNOWN", "INIT_TREE"}
      BY <1>1, <1>2, <1>4, <2>1, <2>3 DEF TreeSelection
    <3>2. ~Unselected(u, c)'
      BY <1>3, <3>1 DEF Unselected
    <3> QED
      BY <2>3, <3>1, <3>2 DEF TreeSelection
  <2> QED
    BY <2>2, <2>3
<1>6. ASSUME NEW u \in Tree, NEW q \in PortsOf(c)
      PROVE  PortSelection(u, q)'
  <2>1. PortSelection(u, q) /\ Owner[q] = c
    BY DEF SelInv, PortsOf
  <2>2. ~Under(stk, PimFrames(Owner[q]), NotRunFor(u, q))
    BY <1>1, <1>4, <2>1
  <2>3. Begin(q)' => Begin(q)
    BY <2>1 DEF Begin
  <2>4. fsm'[u][q].pim = fsm[u][q].pim /\ prs'[u][c] = prs[u][c]
    OBVIOUS
  <2> QED
    BY <1>3, <2>1, <2>2, <2>3, <2>4 DEF PortSelection
<1>7. ASSUME NEW q \in PortsOf(c)
      PROVE  LinkEnabled(q)'
  <2>1. LinkEnabled(q) /\ Owner[q] = c
    BY DEF SelInv, PortsOf
  <2>2. ~Has(stk', Enabling(Owner[q]))
    BY <1>1, <1>4, <2>1
  <2>3. ~Has(stk, Enabling(Owner[q]))'
    BY <2>2 DEF Has, Enabling, Frames
  <2>4. (Begin(q)' => Begin(q)) /\ (Comm(q, "portEnabled")' <=> Comm(q, "portEnabled"))
    BY <2>1 DEF Begin
  <2> QED
    BY <2>1, <2>3, <2>4 DEF LinkEnabled
<1> QED
  BY <1>5, <1>6, <1>7

LEMMA SelStackMoves ==
  ASSUME NEW b \in Bridge, TypeOK, stk \in Seq(Frames(b, FrameName)), stk # <<>>, RunStep
  PROVE  /\ stk' \in Seq(Frames(b, FrameName))
         /\ \A u \in Tree : Head(stk) \notin Of("PRS", u, b) /\ Has(stk, Of("PRS", u, b))
                              => Has(stk', Of("PRS", u, b))
         /\ \A u \in Tree : (/\ Head(stk) \notin NotRun("PRS", u, b)
                             /\ Under(stk, InBegin(b), NotRun("PRS", u, b)))
                              => Under(stk', InBegin(b), NotRun("PRS", u, b))
         /\ Has(stk', Enabling(b)) => Has(stk, Enabling(b)) \/ Head(stk).sm = "BEGIN_DONE"
<1> DEFINE s == Head(stk).sm
           S == NewFrames(b, CalledBy(s))
<1>1. ExtendsBy(b, CalledBy(s)) /\ CalledBy(s) \subseteq FrameName
  BY RunStepExtends, CalledByNames
<1>2. Pushes(S) /\ S \subseteq NewFrames(b, FrameName)
  BY <1>1 DEF ExtendsBy, Pushes, NewFrames
<1>3. Head(stk) \in Frames(b, FrameName) /\ Looping \in Frames(b, FrameName) /\ Looping.sm = s
  BY LoopingType
<1>4. /\ "BEGIN_DONE" \notin CalledBy(s)
      /\ "ENABLE_PORT" \in CalledBy(s) => s = "BEGIN_DONE"
  BY DEF CalledBy, Quiet, Callable, MachineName, RestName, TickSteps, PimSteps
<1>5. \A f \in S : f \in Frames(b, FrameName) /\ f.sm \in CalledBy(s)
  BY <1>1 DEF NewFrames, Frames
<1> HIDE DEF S, s
<1>6. \A A, F : /\ stk' \in Seq(Frames(b, FrameName))
                /\ (Under(stk, A, F) /\ Head(stk) \notin F /\ S \subseteq A /\ Looping \in A)
                     => Under(stk', A, F)
                /\ (Has(stk, F) /\ Head(stk) \notin F) => Has(stk', F)
                /\ Has(stk', F) => Has(stk, F) \/ Looping \in F \/ \E f \in S : f \in F
  BY <1>2, Pushed, Zenon
<1>7. ASSUME NEW u \in Tree, Head(stk) \notin NotRun("PRS", u, b),
             Under(stk, InBegin(b), NotRun("PRS", u, b))
      PROVE  Under(stk', InBegin(b), NotRun("PRS", u, b))
  <2>1. Head(stk) \in InBegin(b)
    BY <1>7, BelowHead
  <2>2. Looping \in InBegin(b) /\ S \subseteq InBegin(b)
    BY <1>3, <1>4, <1>5, <2>1 DEF InBegin, s
  <2> QED
    BY <1>6, <1>7, <2>2, Zenon
<1>8. ASSUME Has(stk', Enabling(b))
      PROVE  Has(stk, Enabling(b)) \/ s = "BEGIN_DONE"
  <2>1. Has(stk, Enabling(b)) \/ Looping \in Enabling(b) \/ \E f \in S : f \in Enabling(b)
    BY <1>6, <1>8, Zenon
  <2>2. CASE Looping \in Enabling(b)
    <3>1. Head(stk) \in Enabling(b)
      BY <1>3, <2>2 DEF Enabling, s
    <3> QED
      BY <3>1, BelowHead
  <2>3. CASE \E f \in S : f \in Enabling(b)
    BY <1>4, <1>5, <2>3 DEF Enabling
  <2> QED
    BY <2>1, <2>2, <2>3
<1> QED
  BY <1>6, <1>7, <1>8, Zenon DEF s

SelGroup == {"PRS", "PIM"} \cup PimSteps

\* what holds of bridge b
SelOn(b) ==
  /\ \A u \in Tree : TreeSelection(u, b)
  /\ \A u \in Tree, q \in PortsOf(b) : PortSelection(u, q)
  /\ \A q \in PortsOf(b) : LinkEnabled(q)

LEMMA OtherMachinesKeepSel ==
  ASSUME TypeOK, NEW t \in Tree, NEW p \in Port, Runs(Head(stk).sm, t, p), Head(stk).sm \notin SelGroup
  PROVE  /\ SelStays /\ PimStays /\ UNCHANGED prs
         /\ LinksStay \/ (/\ Head(stk).sm = "ENABLE_PORT"
                          /\ \A q \in Port : q # p => (Comm(q, "portEnabled")' <=> Comm(q, "portEnabled")))
<1>1. CASE PpmSm(p) \/ BdmSm(p) \/ PrxSm(p) \/ PtxSm(p) \/ PtiSm(p)
  BY <1>1, PortMachinesKeepSel DEF PimStays
<1>2. CASE PstSm(t, p) \/ TcmSm(t, p)
  BY <1>2, TreeMachinesKeepSel
<1>3. CASE PrtSm(t, p)
  BY <1>3, PrtKeepsSel
<1>4. CASE BeginDone(p) \/ EnablePort(p) \/ PendingTx(p) \/ InformDBStep(p)
  BY <1>4, ControlKeepsSel
<1> QED
  BY <1>1, <1>2, <1>3, <1>4 DEF Runs, SelGroup

\* no port of a bridge awaits its first call of Port Information while
\* another function runs
LEMMA PimHasRun ==
  ASSUME NEW b \in Bridge, Spanning(b), stk \in Seq(Frames(b, FrameName)), stk # <<>>, SelOn(b),
         Head(stk).sm # "PIM"
  PROVE  \A u \in Tree, q \in PortsOf(b) : fsm[u][q].pim # "UNKNOWN"
<1> SUFFICES ASSUME NEW u \in Tree, NEW q \in PortsOf(b), fsm[u][q].pim = "UNKNOWN" PROVE FALSE
  OBVIOUS
<1>1. Owner[q] = b
  BY DEF PortsOf
<1>2. Under(stk, PimFrames(b), NotRunFor(u, q))
  BY <1>1 DEF SelOn, PortSelection
<1>3. Head(stk) \in NotRunFor(u, q) \/ Head(stk) \in PimFrames(b)
  BY <1>2, BelowHead
<1> QED
  BY <1>1, <1>3 DEF NotRunFor, NotRun, Of, PimFrames

LEMMA OthersKeepSelOn ==
  ASSUME TypeOK, NEW b \in Bridge, Spanning(b), stk \in Seq(Frames(b, FrameName)), stk # <<>>,
         RunStep, NEW t \in Tree, NEW p \in PortsOf(b), Head(stk).t = t, Head(stk).p = p,
         Runs(Head(stk).sm, t, p), Head(stk).sm \notin SelGroup, SelOn(b)
  PROVE  SelOn(b)'
<1> DEFINE s == Head(stk).sm
<1>0. p \in Port /\ Owner[p] = b /\ \A q \in PortsOf(b) : q \in Port /\ Owner[q] = b
  BY DEF PortsOf
<1>1. /\ SelStays /\ PimStays /\ UNCHANGED prs
      /\ LinksStay \/ (/\ s = "ENABLE_PORT"
                       /\ \A q \in Port : q # p => (Comm(q, "portEnabled")' <=> Comm(q, "portEnabled")))
  BY <1>0, OtherMachinesKeepSel
<1>2. Spanning(b)' /\ (ctl'[b].begin <=> ctl[b].begin /\ s # "BEGIN_DONE")
  BY <1>0, ControlMoves DEF Spanning
<1>3. Head(stk) \in Frames(b, FrameName) /\ s \notin {"PRS", "PIM"}
  BY DEF SelGroup
<1>4. \A u \in Tree, q \in PortsOf(b) :
        /\ On(u, q, "selected")' <=> On(u, q, "selected")
        /\ On(u, q, "reselect")' <=> On(u, q, "reselect")
        /\ fsm'[u][q].pim = fsm[u][q].pim
  BY <1>0, <1>1 DEF SelStays, SameSel, SelBits, On, PimStays
<1> HIDE DEF s
<1>5. ASSUME NEW u \in Tree
      PROVE  TreeSelection(u, b)'
  <2>1. TreeSelection(u, b) /\ prs'[u][b] = prs[u][b]
    BY <1>1 DEF SelOn
  <2>2. Unselected(u, b)' <=> Unselected(u, b)
    BY <1>4, <2>1 DEF Unselected
  <2>3. Head(stk) \notin Of("PRS", u, b) /\ Head(stk) \notin NotRun("PRS", u, b)
    BY <1>3 DEF Of, NotRun, s
  <2>4. /\ prs[u][b] # "INIT_TREE"
        /\ Unselected(u, b) => Has(stk, Of("PRS", u, b))
        /\ prs[u][b] = "UNKNOWN" => ctl[b].begin /\ Under(stk, InBegin(b), NotRun("PRS", u, b))
    BY <2>1, <2>3 DEF TreeSelection
  <2>5. Unselected(u, b)' => Has(stk', Of("PRS", u, b))
    BY <2>2, <2>3, <2>4, SelStackMoves
  <2>6. ASSUME prs[u][b] = "UNKNOWN"
        PROVE  ctl'[b].begin /\ Under(stk', InBegin(b), NotRun("PRS", u, b))
    <3>1. ctl[b].begin /\ Under(stk, InBegin(b), NotRun("PRS", u, b))
      BY <2>4, <2>6
    <3>2. Head(stk) \in InBegin(b)
      BY <2>3, <3>1, BelowHead
    <3>3. s # "BEGIN_DONE"
      BY <3>2 DEF InBegin, s
    <3> QED
      BY <1>2, <2>3, <3>1, <3>3, SelStackMoves
  <2>7. /\ Has(stk', Of("PRS", u, b)) <=> Has(stk, Of("PRS", u, b))'
        /\ Under(stk', InBegin(b), NotRun("PRS", u, b)) <=> Under(stk, InBegin(b), NotRun("PRS", u, b))'
    BY DEF Has, Under, Of, NotRun, InBegin, Frames
  <2> QED
    BY <1>2, <2>1, <2>4, <2>5, <2>6, <2>7 DEF TreeSelection
<1>6. ASSUME NEW u \in Tree, NEW q \in PortsOf(b)
      PROVE  PortSelection(u, q)'
  <2>1. PortSelection(u, q) /\ Owner[q] = b /\ prs'[u][b] = prs[u][b]
    BY <1>0, <1>1 DEF SelOn
  <2>2. fsm[u][q].pim # "UNKNOWN"
    BY <1>3, PimHasRun DEF s
  <2>3. Begin(q)' => Begin(q)
    BY <1>2, <2>1 DEF Begin
  <2> QED
    BY <1>2, <1>4, <2>1, <2>2, <2>3 DEF PortSelection
<1>7. ASSUME NEW q \in PortsOf(b)
      PROVE  LinkEnabled(q)'
  <2>1. LinkEnabled(q) /\ Owner[q] = b /\ q \in Port
    BY <1>0 DEF SelOn
  <2>2. Begin(q)' <=> Begin(q) /\ s # "BEGIN_DONE"
    BY <1>2, <2>1 DEF Begin
  <2>3. Comm(q, "portEnabled")' => Comm(q, "portEnabled") \/ s = "ENABLE_PORT"
    BY <1>1, <2>1 DEF LinksStay
  <2>4. s = "ENABLE_PORT" => Has(stk, Enabling(b))
    <3>1. s = "ENABLE_PORT" => Head(stk) \in Enabling(b)
      BY <1>3 DEF Enabling, s
    <3> QED
      BY <3>1, BelowHead
  <2>5. Has(stk', Enabling(b)) => Has(stk, Enabling(b)) \/ s = "BEGIN_DONE"
    BY SelStackMoves DEF s
  <2>6. Has(stk, Enabling(b))' <=> Has(stk', Enabling(b))
    BY DEF Has, Enabling, Frames
  <2> QED
    BY <1>2, <2>1, <2>2, <2>3, <2>4, <2>5, <2>6 DEF LinkEnabled
<1> QED
  BY <1>5, <1>6, <1>7 DEF SelOn

\* TreeSelection of another tree than that of the call that runs
LEMMA TreeSelectionKept ==
  ASSUME NEW b \in Bridge, TypeOK, Spanning(b), Spanning(b)', ctl'[b].begin <=> ctl[b].begin,
         stk \in Seq(Frames(b, FrameName)), stk # <<>>, RunStep, SelOn(b),
         NEW u \in Tree, Head(stk) \notin Of("PRS", u, b), prs'[u][b] = prs[u][b],
         Unselected(u, b)' => Unselected(u, b) \/ Has(stk', Of("PRS", u, b))
  PROVE  TreeSelection(u, b)'
<1>1. TreeSelection(u, b)
  BY DEF SelOn
<1>2. Head(stk) \notin NotRun("PRS", u, b)
  BY DEF NotRun
<1>3. /\ prs[u][b] # "INIT_TREE"
      /\ Unselected(u, b) => Has(stk, Of("PRS", u, b))
      /\ prs[u][b] = "UNKNOWN" => ctl[b].begin /\ Under(stk, InBegin(b), NotRun("PRS", u, b))
  BY <1>1 DEF TreeSelection
<1>4. Unselected(u, b)' => Has(stk', Of("PRS", u, b))
  BY <1>3, SelStackMoves
<1>5. prs[u][b] = "UNKNOWN" => ctl'[b].begin /\ Under(stk', InBegin(b), NotRun("PRS", u, b))
  BY <1>2, <1>3, SelStackMoves
<1>6. /\ Has(stk', Of("PRS", u, b)) <=> Has(stk, Of("PRS", u, b))'
      /\ Under(stk', InBegin(b), NotRun("PRS", u, b)) <=> Under(stk, InBegin(b), NotRun("PRS", u, b))'
  BY DEF Has, Under, Of, NotRun, InBegin, Frames
<1> QED
  BY <1>3, <1>4, <1>5, <1>6 DEF TreeSelection

LEMMA LinkEnabledKept ==
  ASSUME NEW b \in Bridge, TypeOK, Spanning(b)', ctl'[b].begin <=> ctl[b].begin,
         stk \in Seq(Frames(b, FrameName)), stk # <<>>, RunStep, SelOn(b), LinksStay,
         Head(stk).sm # "BEGIN_DONE", NEW q \in PortsOf(b)
  PROVE  LinkEnabled(q)'
<1>1. LinkEnabled(q) /\ Owner[q] = b /\ q \in Port
  BY DEF SelOn, PortsOf
<1>2. (Begin(q)' <=> Begin(q)) /\ (Comm(q, "portEnabled")' <=> Comm(q, "portEnabled"))
  BY <1>1 DEF Begin, LinksStay
<1>3. Has(stk', Enabling(b)) => Has(stk, Enabling(b))
  BY SelStackMoves
<1>4. Has(stk, Enabling(b))' <=> Has(stk', Enabling(b))
  BY DEF Has, Enabling, Frames
<1> QED
  BY <1>1, <1>2, <1>3, <1>4 DEF LinkEnabled

LEMMA PrsKeepsSelOn ==
  ASSUME TypeOK, NEW b \in Bridge, Spanning(b), stk \in Seq(Frames(b, FrameName)), stk # <<>>,
         RunStep, NEW t \in Tree, NEW p \in PortsOf(b), Head(stk).t = t, Head(stk).p = p,
         Head(stk).sm = "PRS", PrsSm(t, p), SelOn(b)
  PROVE  SelOn(b)'
<1>0. p \in Port /\ Owner[p] = b /\ \A q \in PortsOf(b) : q \in Port /\ Owner[q] = b
  BY DEF PortsOf
<1>1. UNCHANGED ctl
  BY <1>0, MachinesKeepControl
<1>2. Spanning(b)' /\ (ctl'[b].begin <=> ctl[b].begin) /\ \A q : Begin(q)' <=> Begin(q)
  BY <1>1 DEF Spanning, Begin
<1>3. /\ Head(stk) \in Of("PRS", t, b) /\ \A u \in Tree : u # t => Head(stk) \notin Of("PRS", u, b)
      /\ Looping \in Of("PRS", t, b) /\ Looping \in Frames(b, FrameName)
  <2>1. Head(stk) \in Frames(b, FrameName)
    OBVIOUS
  <2> QED
    BY <2>1, LoopingType DEF Of
<1>4. /\ PimStays /\ LinksStay
      /\ PrsStarts(t, p) \/ PrsSelectsAll(t, p) \/ PrsRests(t, p)
  BY <1>0, PrsEffects
<1>5. prs \in [Tree -> [Bridge -> PrsState]]
  BY DEF TypeOK, BridgeTypes
<1>6. \A u \in Tree : u # t => prs'[u][b] = prs[u][b]
  BY <1>0, <1>4, <1>5 DEF PrsStarts, PrsSelectsAll, PrsRests
<1>7. \A u \in Tree, q \in PortsOf(b) : u # t => SameSel(u, q)
  BY <1>0, <1>4 DEF PrsStarts, PrsSelectsAll, PrsRests, SelStays
<1>8. ASSUME NEW u \in Tree, u # t
      PROVE  TreeSelection(u, b)'
  <2>1. \A q \in PortsOf(b) : On(u, q, "reselect")' <=> On(u, q, "reselect")
    BY <1>7, <1>8 DEF SameSel, SelBits, On
  <2>2. prs'[u][b] = prs[u][b] /\ Head(stk) \notin Of("PRS", u, b)
    BY <1>3, <1>6, <1>8
  <2>3. Unselected(u, b)' => Unselected(u, b)
    BY <2>1, <2>2 DEF Unselected
  <2> QED
    BY <1>2, <2>2, <2>3, TreeSelectionKept
<1>9. /\ Has(stk', Of("PRS", t, b)) <=> Has(stk, Of("PRS", t, b))'
      /\ Under(stk', InBegin(b), NotRun("PRS", t, b)) <=> Under(stk, InBegin(b), NotRun("PRS", t, b))'
      /\ Of("PRS", t, b)' = Of("PRS", t, b)
  BY DEF Has, Under, Of, NotRun, InBegin, Frames
<1>10. TreeSelection(t, b)'
  <2>1. CASE PrsStarts(t, p)
    <3>1. stk' = <<>> \o <<Looping>> \o Tail(stk)
      BY <2>1 DEF PrsStarts, Loop, Looping
    <3>2. stk' # <<>> /\ Head(stk') = Looping /\ stk' \in Seq(Frames(b, FrameName))
      <4> DEFINE L == Looping
                 T == Tail(stk)
                 D == Frames(b, FrameName)
      <4>1. L \in D /\ T \in Seq(D) /\ stk' = <<>> \o <<L>> \o T
        BY <1>3, <3>1
      <4> HIDE DEF L, T, D
      <4>2. <<>> \o <<L>> \o T \in Seq(D) /\ <<>> \o <<L>> \o T # <<>> /\ Head(<<>> \o <<L>> \o T) = L
        BY <4>1
      <4> QED
        BY <4>1, <4>2 DEF L, D
    <3>3. Has(stk', Of("PRS", t, b))
      BY <1>3, <3>2, BelowHead
    <3>4. prs'[t][b] = "INIT_TREE"
      BY <1>0, <1>5, <2>1 DEF PrsStarts
    <3> QED
      BY <1>2, <1>3, <1>9, <3>2, <3>3, <3>4 DEF TreeSelection
  <2>2. CASE PrsSelectsAll(t, p)
    <3>1. prs'[t][b] = "ROLE_SELECTION"
      BY <1>0, <1>5, <2>2 DEF PrsSelectsAll
    <3>2. ~Unselected(t, b)'
      BY <1>0, <2>2, <3>1 DEF PrsSelectsAll, Unselected, On
    <3> QED
      BY <1>2, <3>1, <3>2 DEF TreeSelection
  <2>3. CASE PrsRests(t, p)
    <3>1. prs'[t][b] = prs[t][b] /\ prs[t][b] # "INIT_TREE" /\ prs[t][b] \in PrsState
          /\ stk' = <<>> \o Tail(stk)
      BY <1>0, <1>5, <2>3 DEF PrsRests, Return
    <3>2. CASE prs[t][b] = "UNKNOWN"
      <4>1. ctl[b].begin /\ Under(stk, InBegin(b), NotRun("PRS", t, b))
        BY <3>2 DEF SelOn, TreeSelection
      <4>2. Head(stk).loop
        BY <1>0, <2>3, <4>1 DEF PrsRests, Begin
      <4>3. Head(stk) \notin NotRun("PRS", t, b)
        BY <4>2 DEF NotRun
      <4>4. Under(Tail(stk), InBegin(b), NotRun("PRS", t, b)) /\ Tail(stk) \in Seq(Frames(b, FrameName))
        BY <4>1, <4>3, BelowHead
      <4>5. stk' = Tail(stk)
        <5> DEFINE T == Tail(stk)
        <5>1. T \in Seq(Frames(b, FrameName)) /\ stk' = <<>> \o T
          BY <3>1, <4>4
        <5> HIDE DEF T
        <5>2. stk' = T
          BY <5>1
        <5> QED
          BY <5>2 DEF T
      <4>6. Under(stk', InBegin(b), NotRun("PRS", t, b))
        BY <4>4, <4>5
      <4>7. Has(stk', Of("PRS", t, b))
        BY <4>6 DEF Under, Has, NotRun
      <4> QED
        BY <1>2, <1>9, <3>1, <3>2, <4>1, <4>6, <4>7 DEF TreeSelection
    <3>3. CASE prs[t][b] = "ROLE_SELECTION"
      <4>1. \A q \in PortsOf(b) : ~On(t, q, "reselect")'
        BY <1>0, <2>3, <3>3 DEF PrsRests, SelStays, SameSel, SelBits, On
      <4>2. ~Unselected(t, b)'
        BY <3>1, <3>3, <4>1 DEF Unselected
      <4> QED
        BY <1>2, <3>1, <3>3, <4>2 DEF TreeSelection
    <3> QED
      BY <3>1, <3>2, <3>3 DEF PrsState
  <2> QED
    BY <1>4, <2>1, <2>2, <2>3
<1>11. ASSUME NEW u \in Tree, NEW q \in PortsOf(b)
       PROVE  PortSelection(u, q)'
  <2>1. PortSelection(u, q) /\ Owner[q] = b /\ q \in Port
    BY <1>0 DEF SelOn
  <2>2. fsm'[u][q].pim = fsm[u][q].pim /\ fsm[u][q].pim # "UNKNOWN"
    BY <1>4, <2>1, PimHasRun DEF PimStays
  <2>3. prs'[u][b] = "ROLE_SELECTION" => On(u, q, "selected")' \/ On(u, q, "reselect")'
    <3>1. CASE u = t /\ PrsSelectsAll(t, p)
      BY <1>0, <3>1 DEF PrsSelectsAll, On
    <3>2. CASE ~(u = t /\ PrsSelectsAll(t, p))
      <4>1. SameSel(u, q)
        BY <1>4, <1>7, <2>1, <3>2 DEF PrsStarts, PrsRests, SelStays
      <4>2. prs'[u][b] = "ROLE_SELECTION" => prs[u][b] = "ROLE_SELECTION"
        BY <1>0, <1>4, <1>5, <1>6, <3>2 DEF PrsStarts, PrsRests
      <4> QED
        BY <2>1, <4>1, <4>2 DEF PortSelection, SameSel, SelBits, On
    <3> QED
      BY <3>1, <3>2
  <2> QED
    BY <1>2, <2>1, <2>2, <2>3 DEF PortSelection
<1>12. ASSUME NEW q \in PortsOf(b)
       PROVE  LinkEnabled(q)'
  BY <1>2, <1>4, LinkEnabledKept
<1> QED
  BY <1>8, <1>10, <1>11, <1>12 DEF SelOn

LEMMA PimKeepsSelOn ==
  ASSUME TypeOK, NEW b \in Bridge, Spanning(b), stk \in Seq(Frames(b, FrameName)), stk # <<>>,
         RunStep, NEW t \in Tree, NEW p \in PortsOf(b), Head(stk).t = t, Head(stk).p = p,
         Head(stk).sm \in {"PIM"} \cup PimSteps, PimSm(t, p), SelOn(b)
  PROVE  SelOn(b)'
<1>0. p \in Port /\ Owner[p] = b /\ \A q \in PortsOf(b) : q \in Port /\ Owner[q] = b
  BY DEF PortsOf
<1>1. UNCHANGED ctl
  BY <1>0, MachinesKeepControl
<1>2. Spanning(b)' /\ (ctl'[b].begin <=> ctl[b].begin) /\ \A q : Begin(q)' <=> Begin(q)
  BY <1>1 DEF Spanning, Begin
<1>3. Head(stk).sm \notin {"PRS", "BEGIN_DONE"} /\ \A u \in Tree : Head(stk) \notin Of("PRS", u, b)
  BY DEF Of, PimSteps
<1>4. LinksStay /\ UNCHANGED prs
  BY <1>0, PimKeepsLinks
<1>5. /\ \A u \in Tree, q \in Port : ~(u = t /\ q = p) => fsm'[u][q].pim = fsm[u][q].pim
      /\ fsm'[t][p].pim = fsm[t][p].pim \/ (Head(stk).sm = "PIM" /\ fsm'[t][p].pim # "UNKNOWN")
  BY <1>0, PimKeepsStart
<1>6. \/ SelStays
      \/ /\ Asks(t, p)
         /\ \/ Begin(p) /\ (PimDisabled(t, p) \/ PimAged(t, p))
            \/ Has(stk', Of("PRS", t, b))
  BY <1>0, PimAsks
<1>7. ASSUME Begin(p)
      PROVE  fsm[t][p].pim \in {"UNKNOWN", "DISABLED"} /\ ~Comm(p, "portEnabled")
  BY <1>7 DEF SelOn, PortSelection, LinkEnabled
<1>8. ASSUME Begin(p), Head(stk).sm = "PIM"
      PROVE  /\ ~PimAged(t, p)
             /\ \/ Loop(<<>>) /\ fsm'[t][p].pim = "DISABLED"
                \/ Return(<<>>) /\ UNCHANGED fsm /\ (fsm[t][p].pim = "UNKNOWN" => Head(stk).loop)
  BY <1>0, <1>7, <1>8, PimInBegin
<1>9. ASSUME NEW u \in Tree
      PROVE  TreeSelection(u, b)'
  <2>1. prs'[u][b] = prs[u][b]
    BY <1>4
  <2>2. Unselected(u, b)' => Unselected(u, b) \/ Has(stk', Of("PRS", u, b))
    <3>1. ASSUME \A q \in PortsOf(b) : SameSel(u, q)
          PROVE  Unselected(u, b)' => Unselected(u, b)
      BY <2>1, <3>1 DEF Unselected, SameSel, SelBits, On
    <3>2. CASE SelStays \/ u # t
      BY <1>0, <1>6, <3>1, <3>2 DEF SelStays, Asks
    <3>3. CASE u = t /\ Has(stk', Of("PRS", t, b))
      BY <3>3
    <3>4. CASE u = t /\ Begin(p) /\ (PimDisabled(t, p) \/ PimAged(t, p))
      <4>1. Head(stk).sm = "PIM"
        BY <3>4 DEF PimDisabled, PimAged, PimEnters, Running
      <4>2. PimDisabled(t, p)
        BY <1>8, <3>4, <4>1
      <4>3. fsm[t][p].pim # "DISABLED"
        <5>1. Target(PimGeneral(t, p), PimCond(t, p)) = "DISABLED"
          BY <4>2 DEF PimDisabled, PimEnters
        <5>2. fsm[t][p].pim = "DISABLED" => PimGeneral(t, p) = Stay /\ PimCond(t, p) = Stay
          BY <1>7, <3>4 DEF PimGeneral, PimCond
        <5> QED
          BY <5>1, <5>2 DEF Target, Stay
      <4>4. fsm[t][p].pim = "UNKNOWN"
        BY <1>7, <3>4, <4>3
      <4>5. prs[t][b] = "UNKNOWN"
        BY <1>0, <4>4 DEF SelOn, PortSelection
      <4> QED
        BY <3>4, <4>5 DEF Unselected
    <3> QED
      BY <1>6, <3>2, <3>3, <3>4
  <2> QED
    BY <1>2, <1>3, <2>1, <2>2, TreeSelectionKept
<1>10. ASSUME NEW u \in Tree, NEW q \in PortsOf(b)
       PROVE  PortSelection(u, q)'
  <2>1. PortSelection(u, q) /\ Owner[q] = b /\ q \in Port /\ prs'[u][b] = prs[u][b]
    BY <1>0, <1>4 DEF SelOn
  <2>2. Begin(q) <=> Begin(p)
    BY <1>0, <2>1 DEF Begin
  <2>3. fsm'[u][q].pim = "UNKNOWN" => fsm[u][q].pim = "UNKNOWN"
    BY <1>5, <2>1
  <2>4. Begin(q)' => fsm'[u][q].pim \in {"UNKNOWN", "DISABLED"}
    <3>1. CASE fsm'[u][q].pim = fsm[u][q].pim
      BY <1>2, <2>1, <3>1 DEF PortSelection
    <3>2. CASE fsm'[u][q].pim # fsm[u][q].pim
      <4>1. u = t /\ q = p /\ Head(stk).sm = "PIM"
        BY <1>5, <2>1, <3>2
      <4>2. Begin(p) => fsm'[u][q].pim = "DISABLED"
        BY <1>8, <3>2, <4>1
      <4> QED
        BY <1>2, <2>2, <4>2
    <3> QED
      BY <3>1, <3>2
  <2>5. ASSUME fsm'[u][q].pim = "UNKNOWN"
        PROVE  prs[u][b] = "UNKNOWN" /\ Under(stk', PimFrames(b), NotRunFor(u, q))
    <3>1. fsm[u][q].pim = "UNKNOWN" /\ Head(stk).sm = "PIM"
      BY <2>3, <2>5, PimHasRun
    <3>2. prs[u][b] = "UNKNOWN" /\ Under(stk, PimFrames(b), NotRunFor(u, q))
      BY <2>1, <3>1 DEF PortSelection
    <3>3. ctl[b].begin
      BY <3>2 DEF SelOn, TreeSelection
    <3>4. \/ Loop(<<>>) /\ fsm'[t][p].pim = "DISABLED"
          \/ Return(<<>>) /\ (fsm[t][p].pim = "UNKNOWN" => Head(stk).loop)
      BY <1>0, <1>8, <3>1, <3>3 DEF Begin
    <3>5. Head(stk) \notin NotRunFor(u, q)
      <4>1. CASE ~(u = t /\ q = p)
        BY <4>1 DEF NotRunFor, NotRun, Of
      <4>2. CASE u = t /\ q = p
        BY <2>5, <3>1, <3>4, <4>2 DEF NotRunFor, NotRun
      <4> QED
        BY <4>1, <4>2
    <3>6. Looping \in PimFrames(b)
      BY <3>1, LoopingType DEF PimFrames
    <3>7. Pushes({})
      <4>1. <<>> \in Seq({})
        OBVIOUS
      <4>2. stk' = <<>> \o Tail(stk) \/ stk' = <<>> \o <<Looping>> \o Tail(stk)
        BY <3>4 DEF Loop, Return, Looping
      <4> QED
        BY <4>1, <4>2 DEF Pushes
    <3>8. Under(stk', PimFrames(b), NotRunFor(u, q))
      BY <3>2, <3>5, <3>6, <3>7, Pushed
    <3> QED
      BY <3>2, <3>8
  <2>6. prs[u][b] = "ROLE_SELECTION" => On(u, q, "selected")' \/ On(u, q, "reselect")'
    <3>1. CASE SameSel(u, q)
      BY <2>1, <3>1 DEF PortSelection, SameSel, SelBits, On
    <3>2. CASE ~SameSel(u, q)
      BY <1>6, <2>1, <3>2 DEF SelStays, Asks, On
    <3> QED
      BY <3>1, <3>2
  <2>7. Under(stk', PimFrames(b), NotRunFor(u, q)) <=> Under(stk, PimFrames(b), NotRunFor(u, q))'
    BY DEF Under, PimFrames, NotRunFor, NotRun, Of, Frames
  <2> QED
    BY <1>2, <2>1, <2>4, <2>5, <2>6, <2>7 DEF PortSelection
<1>11. ASSUME NEW q \in PortsOf(b)
       PROVE  LinkEnabled(q)'
  BY <1>2, <1>3, <1>4, LinkEnabledKept
<1> QED
  BY <1>9, <1>10, <1>11 DEF SelOn

LEMMA RunStepKeepsSelInv ==
  ASSUME TypeOK, StackInv, SelInv, RunStep
  PROVE  SelInv'
<1>1. PICK t \in Tree, p \in Port :
        stk # <<>> /\ Head(stk).t = t /\ Head(stk).p = p /\ Runs(Head(stk).sm, t, p)
  BY DEF RunStep
<1>2. PICK b \in Bridge : Spanning(b) /\ stk \in Seq(Frames(b, FrameName))
  BY <1>1 DEF StackInv, StackType
<1>3. p \in PortsOf(b) /\ Owner[p] = b
  <2>1. Head(stk) \in Frames(b, FrameName)
    BY <1>1, <1>2
  <2> QED
    BY <1>1, <2>1 DEF Frames, PortsOf
<1>4. SelOn(b)
  BY DEF SelInv, SelOn, PortsOf
<1>5. SelOn(b)'
  <2>1. CASE Head(stk).sm \notin SelGroup
    BY <1>1, <1>2, <1>3, <1>4, <2>1, OthersKeepSelOn
  <2>2. CASE Head(stk).sm = "PRS"
    <3>1. PrsSm(t, p)
      BY <1>1, <2>2 DEF Runs, TickSteps, PimSteps, BeginDone, EnablePort, PendingTx, InformDBStep,
         Running
    <3> QED
      BY <1>1, <1>2, <1>3, <1>4, <2>2, <3>1, PrsKeepsSelOn
  <2>3. CASE Head(stk).sm \in {"PIM"} \cup PimSteps
    <3>1. PimSm(t, p)
      BY <1>1, <2>3 DEF Runs, TickSteps, PimSteps, BeginDone, EnablePort, PendingTx, InformDBStep,
         Running
    <3> QED
      BY <1>1, <1>2, <1>3, <1>4, <2>3, <3>1, PimKeepsSelOn
  <2> QED
    BY <2>1, <2>2, <2>3 DEF SelGroup
<1>6. ASSUME NEW c \in Bridge
      PROVE  SelOn(c)'
  <2>1. CASE c = b
    BY <1>5, <2>1
  <2>2. CASE c # b
    <3>1. (Spanning(c)' <=> Spanning(c)) /\ (ctl'[c].begin => ctl[c].begin)
      BY <1>1, ControlMoves DEF Spanning
    <3>2. stk' \in Seq(Frames(b, FrameName))
      BY <1>1, <1>2, SelStackMoves
    <3>3. \A q \in PortsOf(c) : q \in Port /\ Owner[q] = c /\ q # p
      BY <1>3, <2>2 DEF PortsOf
    <3>4. /\ \A u \in Tree : prs'[u][c] = prs[u][c]
          /\ \A q \in PortsOf(c) : /\ Comm(q, "portEnabled")' <=> Comm(q, "portEnabled")
                                   /\ \A u \in Tree : SameSel(u, q) /\ fsm'[u][q].pim = fsm[u][q].pim
      <4>1. CASE Head(stk).sm \notin SelGroup
        BY <1>1, <3>3, <4>1, OtherMachinesKeepSel DEF SelStays, PimStays, LinksStay
      <4>2. CASE PrsSm(t, p)
        <5>1. PimStays /\ LinksStay /\ (PrsStarts(t, p) \/ PrsSelectsAll(t, p) \/ PrsRests(t, p))
          BY <4>2, PrsEffects
        <5>2. \A u \in Tree : prs'[u][c] = prs[u][c]
          <6>1. prs \in [Tree -> [Bridge -> PrsState]]
            BY DEF TypeOK, BridgeTypes
          <6> QED
            BY <1>3, <2>2, <5>1, <6>1 DEF PrsStarts, PrsSelectsAll, PrsRests
        <5>3. \A u \in Tree, q \in PortsOf(c) : SameSel(u, q)
          BY <1>3, <2>2, <3>3, <5>1 DEF PrsStarts, PrsSelectsAll, PrsRests, SelStays
        <5> QED
          BY <3>3, <5>1, <5>2, <5>3 DEF PimStays, LinksStay
      <4>3. CASE PimSm(t, p)
        <5>1. LinksStay /\ UNCHANGED prs
          BY <4>3, PimKeepsLinks
        <5>2. \A q \in PortsOf(c), u \in Tree : fsm'[u][q].pim = fsm[u][q].pim
          BY <3>3, <4>3, PimKeepsStart
        <5>3. SelStays \/ Asks(t, p)
          BY <1>1, <1>2, <1>3, <4>3, PimAsks
        <5>4. \A q \in PortsOf(c), u \in Tree : SameSel(u, q)
          BY <3>3, <5>3 DEF SelStays, Asks
        <5> QED
          BY <3>3, <5>1, <5>2, <5>4 DEF LinksStay
      <4>4. CASE Head(stk).sm \in SelGroup
        <5>1. PrsSm(t, p) \/ PimSm(t, p)
          BY <1>1, <4>4 DEF Runs, SelGroup, TickSteps, PimSteps, BeginDone, EnablePort, PendingTx,
             InformDBStep, Running
        <5> QED
          BY <4>2, <4>3, <5>1
      <4> QED
        BY <4>1, <4>4
    <3> QED
      BY <1>1, <1>2, <2>2, <3>1, <3>2, <3>4, OtherBridgeKeeps DEF SelOn
  <2> QED
    BY <2>1, <2>2
<1>7. \A q \in Port : Owner[q] \in Bridge /\ q \in PortsOf(Owner[q])
  BY OwnerType DEF PortsOf
<1> QED
  BY <1>6, <1>7 DEF SelInv, SelOn

-----------------------------------------------------------------------------
(* What the events do to it.                                                 *)

LEMMA TreeCallsOf ==
  ASSUME NEW b \in Bridge, NEW s, NEW p \in PortsOf(b)
  PROVE  /\ TreeCalls(s, p) \in Seq(NewFrames(b, {s}))
         /\ \A t \in Tree : \E j \in DOMAIN TreeCalls(s, p) : TreeCalls(s, p)[j] = Call(s, t, p)
<1> DEFINE S == NewFrames(b, {s})
           n == Len(MstiSeq)
           rest == MstiCalls(s, p)
           first == <<Call(s, CIST, p)>>
<1>1. \A t \in Tree : Call(s, t, p) \in S
  BY CallTypes
<1>2. n \in Nat /\ \A i \in 1..n : MstiSeq[i] \in Tree
  BY MstiSeqType
<1>3. rest \in Seq(S) /\ DOMAIN rest = 1..n /\ \A i \in 1..n : rest[i] = Call(s, MstiSeq[i], p)
  <2>1. rest \in [1..n -> S] /\ \A i \in 1..n : rest[i] = Call(s, MstiSeq[i], p)
    BY <1>1, <1>2 DEF MstiCalls
  <2> HIDE DEF rest, S, n
  <2>2. rest \in Seq(S) /\ DOMAIN rest = 1..n
    BY <1>2, <2>1
  <2> QED
    BY <2>1, <2>2
<1>4. Call(s, CIST, p) \in S
  BY <1>1, PortsAreNumbers
<1>5. first \in Seq(S) /\ Len(first) = 1 /\ first[1] = Call(s, CIST, p) /\ 1 \in DOMAIN first
  BY <1>4
<1>6. TreeCalls(s, p) = first \o rest
  BY DEF TreeCalls
<1> HIDE DEF first, rest, S
<1>7. /\ first \o rest \in Seq(S)
      /\ \A i \in DOMAIN first : i \in DOMAIN (first \o rest) /\ (first \o rest)[i] = first[i]
      /\ \A j \in DOMAIN rest : Len(first) + j \in DOMAIN (first \o rest)
                                 /\ (first \o rest)[Len(first) + j] = rest[j]
  BY <1>3, <1>5, Concatenation
<1>8. ASSUME NEW t \in Tree
      PROVE  \E j \in DOMAIN (first \o rest) : (first \o rest)[j] = Call(s, t, p)
  <2>1. CASE t = CIST
    BY <1>5, <1>7, <2>1
  <2>2. CASE t # CIST
    <3>1. PICK k \in 1..n : MstiSeq[k] = t
      BY <2>2 DEF Tree, Msti
    <3>2. k \in DOMAIN rest /\ rest[k] = Call(s, t, p)
      BY <1>3, <3>1
    <3> QED
      BY <1>7, <3>2
  <2> QED
    BY <2>1, <2>2
<1> QED
  BY <1>6, <1>7, <1>8 DEF S

\* mstp_initStateMachines has Port Information run first, on every port and
\* tree, then Port Role Selection, and enables no port
LEMMA EnableCalls ==
  ASSUME NEW b \in Bridge, Enable(b)
  PROVE  /\ \A t \in Tree, p \in PortsOf(b) : Under(stk', PimFrames(b), NotRunFor(t, p))
         /\ \A t \in Tree : Under(stk', InBegin(b), NotRun("PRS", t, b))
         /\ ~Has(stk', Enabling(b))
<1> DEFINE D == NewFrames(b, FrameName)
           F == [p \in PortsOf(b) |-> PimCalls(p)]
           G == [p \in PortsOf(b) |-> AllMachineCalls(p)]
           pims == JoinOver(b, F)
           all == JoinOver(b, G)
           prss == TreeCalls("PRS", FirstPort(b))
           done == <<Call("BEGIN_DONE", CIST, FirstPort(b))>>
           last == <<InformDB(b)>>
<1>1. \A i \in DOMAIN LPorts[b] : LPorts[b][i] \in PortsOf(b)
  BY LPortsType
<1>2. JoinPorts(b, PimCalls) = pims
  <2>1. [i \in DOMAIN LPorts[b] |-> PimCalls(LPorts[b][i])] = [i \in DOMAIN LPorts[b] |-> F[LPorts[b][i]]]
    BY <1>1
  <2> QED
    BY <2>1, Zenon DEF JoinPorts, JoinOver
<1>3. JoinPorts(b, AllMachineCalls) = all
  <2>1. [i \in DOMAIN LPorts[b] |-> AllMachineCalls(LPorts[b][i])]
          = [i \in DOMAIN LPorts[b] |-> G[LPorts[b][i]]]
    BY <1>1
  <2> QED
    BY <2>1, Zenon DEF JoinPorts, JoinOver
<1>4. stk' = (((pims \o prss) \o all) \o done) \o last
  BY <1>2, <1>3 DEF Enable, InitStateMachines
<1>5. F \in [PortsOf(b) -> Seq(NewFrames(b, {"PIM"}))]
      /\ \A p \in PortsOf(b), t \in Tree : \E j \in DOMAIN F[p] : F[p][j] = Call("PIM", t, p)
  BY TreeCallsOf DEF PimCalls
<1>6. G \in [PortsOf(b) -> Seq(NewFrames(b, Callable))]
  BY AllMachineCallsHold DEF Calls
<1>7. /\ prss \in Seq(NewFrames(b, {"PRS"})) /\ FirstPort(b) \in PortsOf(b)
      /\ \A t \in Tree : \E j \in DOMAIN prss : prss[j] = Call("PRS", t, FirstPort(b))
  BY LPortsType, TreeCallsOf
<1> HIDE DEF F, G, prss
<1>8. /\ pims \in Seq(NewFrames(b, {"PIM"}))
      /\ \A p \in PortsOf(b), t \in Tree : \E i \in DOMAIN pims : pims[i] = Call("PIM", t, p)
  <2>1. /\ pims \in Seq(NewFrames(b, {"PIM"}))
        /\ \A p \in PortsOf(b) : \A j \in DOMAIN F[p] : \E i \in DOMAIN pims : pims[i] = F[p][j]
    BY <1>5, JoinOverHolds
  <2> QED
    BY <1>5, <2>1
<1>9. all \in Seq(NewFrames(b, Callable))
  BY <1>6, JoinOverHolds
<1> HIDE DEF pims, all
<1>10. /\ NewFrames(b, {"PIM"}) \subseteq D \cap PimFrames(b)
       /\ NewFrames(b, {"PRS"}) \subseteq D
       /\ NewFrames(b, Callable) \subseteq D
       /\ NewFrames(b, {"PIM"}) \subseteq InBegin(b) /\ NewFrames(b, {"PRS"}) \subseteq InBegin(b)
  BY DEF NewFrames, PimFrames, InBegin, Frames, FrameName, Callable, MachineName
<1>11. Call("BEGIN_DONE", CIST, FirstPort(b)) \in D /\ InformDB(b) \in D
  BY FrameNames
<1> HIDE DEF D
<1>12. pims \in Seq(D) /\ prss \in Seq(D) /\ all \in Seq(D) /\ done \in Seq(D) /\ last \in Seq(D)
  BY <1>7, <1>8, <1>9, <1>10, <1>11
<1>13. /\ \A j \in DOMAIN pims : pims[j] \in PimFrames(b) /\ pims[j] \in InBegin(b)
       /\ \A j \in DOMAIN prss : prss[j] \in InBegin(b)
  BY <1>7, <1>8, <1>10
<1>14. done[1].sm # "ENABLE_PORT" /\ last[1].sm # "ENABLE_PORT"
       /\ DOMAIN done = {1} /\ DOMAIN last = {1}
  BY DEF InformDB, Rest, Call
<1> HIDE DEF done, last
<1> DEFINE two == pims \o prss
           three == two \o all
           four == three \o done
<1>15. two \in Seq(D)
  BY <1>12
<1> HIDE DEF two
<1>16. three \in Seq(D)
  BY <1>12, <1>15
<1> HIDE DEF three
<1>17. four \in Seq(D)
  BY <1>12, <1>16
<1> HIDE DEF four
<1>18. stk' = four \o last
  BY <1>4 DEF two, three, four
<1>19. \A A, K : Under(two, A, K) => Under(stk', A, K)
  <2> SUFFICES ASSUME NEW A, NEW K, Under(two, A, K) PROVE Under(stk', A, K)
    OBVIOUS
  <2>1. Under(three, A, K)
    BY <1>12, <1>15, UnderJoined DEF three
  <2>2. Under(four, A, K)
    BY <1>12, <1>16, <2>1, UnderJoined DEF four
  <2> QED
    BY <1>12, <1>17, <1>18, <2>2, UnderJoined
<1>20. ASSUME NEW t \in Tree, NEW p \in PortsOf(b)
       PROVE  Under(stk', PimFrames(b), NotRunFor(t, p))
  <2>1. PICK i \in DOMAIN pims : pims[i] = Call("PIM", t, p)
    BY <1>8
  <2>2. Call("PIM", t, p) \in NotRunFor(t, p)
    <3>1. Owner[p] = b /\ "PIM" \in FrameName
      BY DEF PortsOf, FrameName, Callable, MachineName
    <3>2. Call("PIM", t, p) \in NewFrames(b, FrameName)
      BY <3>1, CallTypes
    <3> QED
      BY <3>1, <3>2 DEF NotRunFor, NotRun, Of, Call, NewFrames, Frames
  <2>3. \A j \in 1..(i - 1) : j \in DOMAIN pims
    BY <1>12
  <2>4. Under(pims, PimFrames(b), NotRunFor(t, p))
    BY <1>13, <2>1, <2>2, <2>3 DEF Under
  <2>5. Under(two, PimFrames(b), NotRunFor(t, p))
    BY <1>12, <2>4, UnderJoined DEF two
  <2> QED
    BY <1>19, <2>5
<1>21. ASSUME NEW t \in Tree
       PROVE  Under(stk', InBegin(b), NotRun("PRS", t, b))
  <2>1. PICK i \in DOMAIN prss : prss[i] = Call("PRS", t, FirstPort(b))
    BY <1>7
  <2>2. Call("PRS", t, FirstPort(b)) \in NotRun("PRS", t, b)
    <3>1. "PRS" \in FrameName
      BY DEF FrameName, Callable, MachineName
    <3>2. Call("PRS", t, FirstPort(b)) \in NewFrames(b, FrameName)
      BY <1>7, <3>1, CallTypes
    <3> QED
      BY <3>2 DEF NotRun, Of, Call, NewFrames, Frames
  <2>3. \A j \in 1..(i - 1) : j \in DOMAIN prss
    BY <1>12
  <2>4. Under(prss, InBegin(b), NotRun("PRS", t, b))
    BY <1>13, <2>1, <2>2, <2>3 DEF Under
  <2>5. Under(two, InBegin(b), NotRun("PRS", t, b))
    BY <1>12, <1>13, <2>4, UnderJoined DEF two
  <2> QED
    BY <1>19, <2>5
<1>22. ~Has(stk', Enabling(b))
  <2>1. ~Has(pims, Enabling(b)) /\ ~Has(prss, Enabling(b)) /\ ~Has(all, Enabling(b))
    <3>1. /\ \A j \in DOMAIN pims : pims[j].sm = "PIM"
          /\ \A j \in DOMAIN prss : prss[j].sm = "PRS"
          /\ \A j \in DOMAIN all : all[j].sm \in Callable
      <4>1. \A n, f : f \in NewFrames(b, n) => f.sm \in n
        BY DEF NewFrames
      <4>2. /\ \A j \in DOMAIN pims : pims[j] \in NewFrames(b, {"PIM"})
            /\ \A j \in DOMAIN prss : prss[j] \in NewFrames(b, {"PRS"})
            /\ \A j \in DOMAIN all : all[j] \in NewFrames(b, Callable)
        BY <1>7, <1>8, <1>9
      <4> QED
        BY <4>1, <4>2
    <3>2. "ENABLE_PORT" \notin Callable
      BY DEF Callable, MachineName, RestName, TickSteps, PimSteps
    <3> QED
      BY <3>1, <3>2 DEF Has, Enabling
  <2>2. ~Has(done, Enabling(b)) /\ ~Has(last, Enabling(b))
    BY <1>14 DEF Has, Enabling
  <2>3. ~Has(two, Enabling(b))
    BY <1>12, <2>1, HasJoined DEF two
  <2>4. ~Has(three, Enabling(b))
    BY <1>12, <1>15, <2>1, <2>3, HasJoined DEF three
  <2>5. ~Has(four, Enabling(b))
    BY <1>12, <1>16, <2>2, <2>4, HasJoined DEF four
  <2> QED
    BY <1>12, <1>17, <1>18, <2>2, <2>5, HasJoined
<1> QED
  BY <1>20, <1>21, <1>22

\* nothing is awaited between events: what a bridge has is selected, whatever
\* call an event then makes
LEMMA RestKept ==
  ASSUME SelInv, stk = <<>>, NEW c \in Bridge, Spanning(c)' <=> Spanning(c),
         ~ctl[c].begin, ~ctl'[c].begin, \A u \in Tree : prs'[u][c] = prs[u][c],
         \A q \in PortsOf(c) : /\ Comm(q, "portEnabled")' => Comm(q, "portEnabled")
                               /\ \A u \in Tree : SameSel(u, q) /\ fsm'[u][q].pim = fsm[u][q].pim
  PROVE  SelOn(c)'
<1>1. \A A, F : ~Has(stk, F) /\ ~Under(stk, A, F)
  <2>1. DOMAIN stk = {}
    OBVIOUS
  <2> QED
    BY <2>1 DEF Has, Under
<1>2. \A u \in Tree, q \in PortsOf(c) :
        /\ On(u, q, "selected")' <=> On(u, q, "selected")
        /\ On(u, q, "reselect")' <=> On(u, q, "reselect")
  BY DEF SameSel, SelBits, On
<1>3. ASSUME NEW u \in Tree
      PROVE  TreeSelection(u, c)'
  <2>1. TreeSelection(u, c)
    BY DEF SelInv
  <2>2. CASE ~Spanning(c)
    BY <2>1, <2>2 DEF TreeSelection
  <2>3. CASE Spanning(c)
    <3>1. ~Unselected(u, c) /\ prs[u][c] \notin {"UNKNOWN", "INIT_TREE"}
      BY <1>1, <2>1, <2>3 DEF TreeSelection
    <3>2. ~Unselected(u, c)'
      BY <1>2, <3>1 DEF Unselected
    <3> QED
      BY <2>3, <3>1, <3>2 DEF TreeSelection
  <2> QED
    BY <2>2, <2>3
<1>4. ASSUME NEW u \in Tree, NEW q \in PortsOf(c)
      PROVE  PortSelection(u, q)'
  <2>1. PortSelection(u, q) /\ Owner[q] = c
    BY DEF SelInv, PortsOf
  <2>2. ~Begin(q)'
    BY <2>1 DEF Begin
  <2>3. fsm'[u][q].pim = fsm[u][q].pim /\ prs'[u][c] = prs[u][c]
    OBVIOUS
  <2>4. Spanning(c) => fsm[u][q].pim # "UNKNOWN"
    BY <1>1, <2>1 DEF PortSelection
  <2> QED
    BY <1>2, <2>1, <2>2, <2>3, <2>4 DEF PortSelection
<1>5. ASSUME NEW q \in PortsOf(c)
      PROVE  LinkEnabled(q)'
  <2>1. LinkEnabled(q) /\ Owner[q] = c
    BY DEF SelInv, PortsOf
  <2>2. ~Begin(q)'
    BY <2>1 DEF Begin
  <2> QED
    BY <2>1, <2>2 DEF LinkEnabled
<1> QED
  BY <1>3, <1>4, <1>5 DEF SelOn

LEMMA RenewedSel ==
  ASSUME TypeOK, NEW b \in Bridge, ClearProtocolData(b), ~ctl[b].begin
  PROVE  SelOn(b)'
<1>1. /\ \A q \in PortsOf(b) : q \in Port /\ Owner[q] = b
      /\ ctl \in [Bridge -> Control] /\ prs \in [Tree -> [Bridge -> PrsState]]
  BY DEF PortsOf, TypeOK, BridgeTypes
<1>2. ~Spanning(b)' /\ ~ctl'[b].begin
  BY <1>1 DEF ClearProtocolData, Spanning, Control
<1>3. \A u \in Tree : prs'[u][b] = "UNKNOWN"
  BY <1>1 DEF ClearProtocolData
<1>4. \A u \in Tree, q \in PortsOf(b) : fsm'[u][q].pim = "UNKNOWN"
  <2>1. \A u \in Tree, q \in PortsOf(b) : fsm'[u][q] = FreshFsm
    BY <1>1 DEF ClearProtocolData, Renew
  <2> QED
    BY <2>1 DEF FreshFsm
<1>5. \A q \in PortsOf(b) : ~Comm(q, "portEnabled")' /\ ~Begin(q)'
  <2>1. \A q \in PortsOf(b) : cbits'[q] = FreshComm(q)
    BY <1>1 DEF ClearProtocolData
  <2>2. \A q : "portEnabled" \notin FreshComm(q)
    BY DEF FreshComm
  <2> QED
    BY <1>1, <1>2, <2>1, <2>2 DEF Comm, Begin
<1>6. \A u \in Tree : TreeSelection(u, b)'
  BY <1>2, <1>3 DEF TreeSelection
<1>7. \A u \in Tree, q \in PortsOf(b) : PortSelection(u, q)'
  BY <1>1, <1>2, <1>4, <1>5 DEF PortSelection
<1>8. \A q \in PortsOf(b) : LinkEnabled(q)'
  BY <1>5 DEF LinkEnabled
<1> QED
  BY <1>6, <1>7, <1>8 DEF SelOn

LEMMA EnabledSel ==
  ASSUME TypeOK, SelInv, NEW b \in Bridge, Enable(b)
  PROVE  SelOn(b)'
<1>1. /\ \A q \in PortsOf(b) : q \in Port /\ Owner[q] = b
      /\ ctl \in [Bridge -> Control]
  BY DEF PortsOf, TypeOK, BridgeTypes
<1>2. ~Spanning(b) /\ Spanning(b)' /\ ctl'[b].begin
  BY <1>1 DEF Enable, Spanning
<1>3. UNCHANGED <<bits, fsm, prs, cbits>>
  BY DEF Enable, treeVars, commVars
<1>4. /\ \A u \in Tree : prs'[u][b] = "UNKNOWN"
      /\ \A u \in Tree, q \in PortsOf(b) : fsm'[u][q].pim = "UNKNOWN"
      /\ \A q \in PortsOf(b) : ~Comm(q, "portEnabled")'
  <2>1. \A u \in Tree : prs[u][b] = "UNKNOWN"
    BY <1>2 DEF SelInv, TreeSelection
  <2>2. \A u \in Tree, q \in PortsOf(b) : fsm[u][q].pim = "UNKNOWN"
    BY <1>1, <1>2 DEF SelInv, PortSelection
  <2>3. \A q \in PortsOf(b) : ~Comm(q, "portEnabled")
    BY <1>1, <1>2 DEF SelInv, LinkEnabled
  <2> QED
    BY <1>3, <2>1, <2>2, <2>3 DEF Comm
<1>5. /\ \A u \in Tree, q \in PortsOf(b) : Under(stk', PimFrames(b), NotRunFor(u, q))
      /\ \A u \in Tree : Under(stk', InBegin(b), NotRun("PRS", u, b))
      /\ ~Has(stk', Enabling(b))
  BY EnableCalls
<1>6. /\ \A u, q : Under(stk', PimFrames(b), NotRunFor(u, q))
                     <=> Under(stk, PimFrames(b), NotRunFor(u, q))'
      /\ \A u : Under(stk', InBegin(b), NotRun("PRS", u, b)) <=> Under(stk, InBegin(b), NotRun("PRS", u, b))'
      /\ \A u : Has(stk', Of("PRS", u, b)) <=> Has(stk, Of("PRS", u, b))'
      /\ Has(stk', Enabling(b)) <=> Has(stk, Enabling(b))'
  BY DEF Has, Under, Of, NotRun, NotRunFor, PimFrames, InBegin, Enabling, Frames
<1>7. \A u \in Tree : Has(stk', Of("PRS", u, b))
  BY <1>5 DEF Has, Under, NotRun
<1>8. \A u \in Tree : TreeSelection(u, b)'
  BY <1>2, <1>4, <1>5, <1>6, <1>7 DEF TreeSelection
<1>9. \A u \in Tree, q \in PortsOf(b) : PortSelection(u, q)'
  BY <1>1, <1>2, <1>4, <1>5, <1>6 DEF PortSelection
<1>10. \A q \in PortsOf(b) : LinkEnabled(q)'
  BY <1>1, <1>4, <1>5, <1>6 DEF LinkEnabled
<1> QED
  BY <1>8, <1>9, <1>10 DEF SelOn

LEMMA EventKeepsSelInv ==
  ASSUME TypeOK, StackInv, SelInv, Event
  PROVE  SelInv'
<1>1. stk = <<>>
  BY DEF Event, Enable, Disable, Reconfigure, Tick, LinkUp, LinkDown, Receive, ReceiveForeign, Lose
<1>2. /\ ctl \in [Bridge -> Control] /\ prs \in [Tree -> [Bridge -> PrsState]]
      /\ cbits \in [Port -> SUBSET CommBit]
      /\ \A q \in Port : Owner[q] \in Bridge /\ q \in PortsOf(Owner[q])
      /\ \A c \in Bridge : \A q \in PortsOf(c) : q \in Port /\ Owner[q] = c
  BY OwnerType DEF TypeOK, BridgeTypes, PortTypes, PortsOf
<1>3. \A c \in Bridge : ~ctl[c].begin
  BY <1>1, NothingAwaited DEF StackInv
<1>4. ASSUME \A c \in Bridge : SelOn(c)'
      PROVE  SelInv'
  BY <1>2, <1>4 DEF SelInv, SelOn
<1>5. ASSUME NEW b \in Bridge, Enable(b)
      PROVE  SelInv'
  <2>1. SelOn(b)'
    BY <1>5, EnabledSel
  <2>2. ASSUME NEW c \in Bridge, c # b
        PROVE  SelOn(c)'
    <3>1. UNCHANGED <<bits, fsm, prs, cbits>> /\ ctl'[c] = ctl[c]
      BY <1>2, <1>5, <2>2 DEF Enable, treeVars, commVars
    <3>2. /\ \A q \in PortsOf(c) : /\ Comm(q, "portEnabled")' => Comm(q, "portEnabled")
                                   /\ \A u \in Tree : SameSel(u, q) /\ fsm'[u][q].pim = fsm[u][q].pim
          /\ Spanning(c)' <=> Spanning(c)
      BY <3>1 DEF Comm, SameSel, Spanning
    <3> QED
      BY <1>1, <1>3, <3>1, <3>2, RestKept
  <2> QED
    BY <1>4, <2>1, <2>2
<1>6. ASSUME NEW b \in Bridge, Disable(b) \/ Reconfigure(b)
      PROVE  SelInv'
  <2>1. ClearProtocolData(b)
    BY <1>6 DEF Disable, Reconfigure
  <2>2. SelOn(b)'
    BY <1>3, <2>1, RenewedSel
  <2>3. ASSUME NEW c \in Bridge, c # b
        PROVE  SelOn(c)'
    <3>1. \A q \in PortsOf(c) : /\ cbits'[q] = cbits[q]
                                /\ \A u \in Tree : bits'[u][q] = bits[u][q] /\ fsm'[u][q] = fsm[u][q]
      BY <1>2, <2>1, <2>3 DEF ClearProtocolData, Renew
    <3>2. ctl'[c] = ctl[c] /\ \A u \in Tree : prs'[u][c] = prs[u][c]
      BY <1>2, <2>1, <2>3 DEF ClearProtocolData
    <3>3. /\ \A q \in PortsOf(c) : /\ Comm(q, "portEnabled")' => Comm(q, "portEnabled")
                                   /\ \A u \in Tree : SameSel(u, q) /\ fsm'[u][q].pim = fsm[u][q].pim
          /\ Spanning(c)' <=> Spanning(c)
      BY <3>1, <3>2 DEF Comm, SameSel, Spanning
    <3> QED
      BY <1>1, <1>3, <3>2, <3>3, RestKept
  <2> QED
    BY <1>4, <2>2, <2>3
<1>7. CASE \/ \E b \in Bridge : Tick(b)
           \/ \E p \in Port : LinkUp(p) \/ LinkDown(p) \/ Receive(p) \/ ReceiveForeign(p) \/ Lose(p)
  <2>1. UNCHANGED <<bits, fsm, prs>>
    BY <1>7 DEF Tick, LinkUp, LinkDown, Receive, ReceiveForeign, Deliver, Lose, treeVars, bridgeVars
  <2>2. ctl' = ctl \/ \E p \in Port : ctl' = [ctl EXCEPT ![Owner[p]].preventTx = TRUE]
    BY <1>7 DEF Tick, LinkUp, LinkDown, Receive, ReceiveForeign, Deliver, Lose, bridgeVars
  <2>3. \A c \in Bridge : ctl'[c].begin = ctl[c].begin /\ ctl'[c].spanning = ctl[c].spanning
    <3>1. ASSUME NEW p \in Port, ctl' = [ctl EXCEPT ![Owner[p]].preventTx = TRUE], NEW c \in Bridge
          PROVE  ctl'[c].begin = ctl[c].begin /\ ctl'[c].spanning = ctl[c].spanning
      BY <1>2, <3>1 DEF Control
    <3> QED
      BY <2>2, <3>1
  <2>4. \/ cbits' = cbits
        \/ \E p \in Port : cbits' = SetComm(p, {}, {"portEnabled"}) \/ cbits' = SetComm(p, {"rcvdBPDU"}, {})
    BY <1>7 DEF Tick, LinkUp, LinkDown, Receive, ReceiveForeign, Deliver, Lose, commVars
  <2>5. \A q \in Port : Comm(q, "portEnabled")' => Comm(q, "portEnabled")
    <3>1. \A p \in Port : \A set, clr : cbits' = SetComm(p, set, clr) =>
            \A q \in Port : cbits'[q] = IF q = p THEN (cbits[q] \ clr) \cup set ELSE cbits[q]
      BY <1>2 DEF SetComm
    <3>2. ASSUME NEW q \in Port
          PROVE  cbits'[q] \subseteq cbits[q] \cup {"rcvdBPDU"}
      <4>1. CASE cbits' = cbits
        BY <4>1
      <4>2. ASSUME NEW p \in Port, cbits' = SetComm(p, {}, {"portEnabled"})
            PROVE  cbits'[q] \subseteq cbits[q]
        <5>1. cbits'[q] = IF q = p THEN (cbits[q] \ {"portEnabled"}) \cup {} ELSE cbits[q]
          BY <3>1, <4>2, Zenon
        <5> QED
          BY <5>1
      <4>3. ASSUME NEW p \in Port, cbits' = SetComm(p, {"rcvdBPDU"}, {})
            PROVE  cbits'[q] \subseteq cbits[q] \cup {"rcvdBPDU"}
        <5>1. cbits'[q] = IF q = p THEN (cbits[q] \ {}) \cup {"rcvdBPDU"} ELSE cbits[q]
          BY <3>1, <4>3, Zenon
        <5> QED
          BY <5>1
      <4> QED
        BY <2>4, <4>1, <4>2, <4>3
    <3>3. \A q \in Port : (Comm(q, "portEnabled")' <=> "portEnabled" \in cbits'[q])
                         /\ (Comm(q, "portEnabled") <=> "portEnabled" \in cbits[q])
      BY DEF Comm
    <3> QED
      BY <3>2, <3>3
  <2>6. ASSUME NEW c \in Bridge
        PROVE  SelOn(c)'
    <3>1. /\ \A q \in PortsOf(c) : /\ Comm(q, "portEnabled")' => Comm(q, "portEnabled")
                                   /\ \A u \in Tree : SameSel(u, q) /\ fsm'[u][q].pim = fsm[u][q].pim
          /\ Spanning(c)' <=> Spanning(c)
          /\ \A u \in Tree : prs'[u][c] = prs[u][c]
          /\ ~ctl'[c].begin
      BY <1>2, <1>3, <2>1, <2>3, <2>5 DEF SameSel, Spanning
    <3> QED
      BY <1>1, <1>3, <3>1, RestKept
  <2> QED
    BY <1>4, <2>6
<1> QED
  BY <1>5, <1>6, <1>7 DEF Event

LEMMA InitSelInv == Init => SelInv
<1> SUFFICES ASSUME Init PROVE SelInv
  OBVIOUS
<1>1. \A p \in Port : Owner[p] \in Bridge /\ cbits[p] = FreshComm(p)
  BY OwnerType DEF Init
<1>2. \A b \in Bridge : ~Spanning(b) /\ ~ctl[b].begin
  BY DEF Init, Spanning
<1>3. \A t \in Tree, b \in Bridge : TreeSelection(t, b)
  BY <1>2 DEF Init, TreeSelection
<1>4. \A t \in Tree, p \in Port : PortSelection(t, p)
  BY <1>1, <1>2 DEF Init, PortSelection, FreshFsm
<1>5. \A p \in Port : LinkEnabled(p)
  BY <1>1, <1>2 DEF LinkEnabled, Comm, FreshComm, Begin
<1> QED
  BY <1>3, <1>4, <1>5 DEF SelInv

LEMMA StepKeepsSelInv == TypeOK /\ StackInv /\ SelInv /\ [Next]_vars => SelInv'
<1> SUFFICES ASSUME TypeOK, StackInv, SelInv, [Next]_vars PROVE SelInv'
  OBVIOUS
<1>1. CASE UNCHANGED vars
  BY <1>1 DEF vars, treeVars, bridgeVars, commVars, SelInv, TreeSelection, PortSelection,
     LinkEnabled, Unselected, On, Comm, Begin, Spanning, Has, Under, Of, NotRun, NotRunFor,
     PimFrames, InBegin, Enabling, Frames
<1> QED
  BY <1>1, RunStepKeepsSelInv, EventKeepsSelInv DEF Next

LEMMA SelInvHolds == Spec => []SelInv
BY InitSelInv, StepKeepsSelInv, TypesHold, StackHolds, PTL DEF Spec

\* Every request is answered before the thread takes its next event.
THEOREM SelectionsAnswered == Spec => []RolesSelected
<1>1. ASSUME TypeOK, SelInv
      PROVE  RolesSelected
  <2> SUFFICES ASSUME NEW t \in Tree, NEW p \in Port, Idle(p)
               PROVE  /\ prs[t][Owner[p]] = "ROLE_SELECTION"
                      /\ On(t, p, "selected") /\ ~On(t, p, "reselect")
    BY DEF RolesSelected
  <2>1. stk = <<>> /\ Spanning(Owner[p]) /\ Owner[p] \in Bridge /\ p \in PortsOf(Owner[p])
    BY OwnerType DEF Idle, PortsOf
  <2>2. ~Has(stk, Of("PRS", t, Owner[p]))
        /\ ~Under(stk, PimFrames(Owner[p]), NotRunFor(t, p))
    <3>1. DOMAIN stk = {}
      BY <2>1
    <3> QED
      BY <3>1 DEF Has, Under
  <2>3. ~Unselected(t, Owner[p])
    BY <1>1, <2>1, <2>2 DEF SelInv, TreeSelection
  <2>4. prs[t][Owner[p]] = "ROLE_SELECTION" /\ ~On(t, p, "reselect")
    BY <2>1, <2>3 DEF Unselected
  <2>5. On(t, p, "selected")
    BY <1>1, <2>1, <2>2, <2>4 DEF SelInv, PortSelection
  <2> QED
    BY <2>4, <2>5
<1> QED
  BY <1>1, SelInvHolds, TypesHold, PTL
=============================================================================
