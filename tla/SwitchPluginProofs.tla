------------------------- MODULE SwitchPluginProofs -------------------------
(***************************************************************************)
(* The switch plugin implements a Reconciler for any trees, ports,         *)
(* interfaces and VLANs, any number of writes between two                  *)
(* reconfigurations and any order of its walks over the ports.             *)
(***************************************************************************)
EXTENDS SwitchPlugin, FiniteSetTheorems, TLAPS

(* The last call for an interface *)

LEMMA GreatestOf ==
  ASSUME NEW T \in SUBSET Int, IsFiniteSet(T), T # {}
  PROVE  \E m \in T : \A k \in T : k <= m
<1> DEFINE Above(m) == {k \in T : k > m}
           family == {Above(m) : m \in T}
<1>1. family \subseteq FiniteSubsetsOf(Int) /\ family # {}
  <2>1. ASSUME NEW m \in T PROVE Above(m) \in FiniteSubsetsOf(Int)
    <3>1. Above(m) \in SUBSET T /\ Above(m) \in SUBSET Int
      OBVIOUS
    <3> HIDE DEF Above
    <3>2. IsFiniteSet(Above(m))
      BY <3>1, FS_Subset
    <3> QED BY <3>1, <3>2 DEF FiniteSubsetsOf
  <2> HIDE DEF Above
  <2> QED BY <2>1
<1>2. \E u \in family : \A w \in family : ~ (<<w, u>> \in StrictSubsetOrdering(Int))
  <2> HIDE DEF family
  <2> QED BY <1>1, FS_StrictSubsetOrderingWellFounded, WFMin
<1>3. PICK m \in T : \A w \in family : ~ (<<w, Above(m)>> \in StrictSubsetOrdering(Int))
  BY <1>2
<1>4. ASSUME NEW k \in T, k > m PROVE FALSE
  <2>1. Above(k) \in family
    OBVIOUS
  <2>2. Above(k) \subseteq Above(m) /\ k \in Above(m) /\ k \notin Above(k)
    <3>1. k \in Int /\ m \in Int /\ k > m
      BY <1>4
    <3>2. ASSUME NEW j \in T, j > k PROVE j > m
      <4>1. j \in Int
        OBVIOUS
      <4> QED BY <3>1, <3>2, <4>1
    <3>3. ~ (k > k)
      BY <3>1
    <3>4. Above(k) \subseteq Above(m)
      BY <3>2
    <3>5. k \in Above(m) /\ k \notin Above(k)
      BY <3>1, <3>3
    <3> QED BY <3>4, <3>5
  <2>3. Above(k) \in SUBSET Int /\ Above(m) \in SUBSET Int
    OBVIOUS
  <2> HIDE DEF Above, family
  <2>4. <<Above(k), Above(m)>> \in StrictSubsetOrdering(Int)
    BY <2>2, <2>3 DEF StrictSubsetOrdering
  <2> QED BY <1>3, <2>1, <2>4
<1>5. ASSUME NEW k \in T PROVE k <= m
  <2>1. k \in Int /\ m \in Int /\ ~ (k > m)
    BY <1>4
  <2> QED BY <2>1
<1> QED BY <1>5

\* Told: what the interface was told last, if it was told anything
LEMMA ToldLast ==
  ASSUME NEW calls, NEW n \in Nat, NEW before, calls # {},
         \A c \in calls : c[1] \in 0 .. n
  PROVE  \E c \in calls : Told(calls, before) = c[2] /\ \A d \in calls : d[1] <= c[1]
<1> DEFINE T == {c[1] : c \in calls}
<1>1. T \in SUBSET (0 .. n) /\ T # {}
  OBVIOUS
<1>2. IsFiniteSet(T) /\ T \in SUBSET Int
  <2>1. 0 \in Int /\ n \in Int
    OBVIOUS
  <2>2. IsFiniteSet(0 .. n)
    BY <2>1, FS_Interval
  <2>3. T \in SUBSET Int
    BY <1>1
  <2> HIDE DEF T
  <2> QED BY <1>1, <2>2, <2>3, FS_Subset
<1>3. \E m \in T : \A k \in T : k <= m
  <2> HIDE DEF T
  <2> QED BY <1>1, <1>2, GreatestOf
<1>4. \E c \in calls : \A d \in calls : d[1] <= c[1]
  BY <1>3
<1> DEFINE last == CHOOSE c \in calls : \A d \in calls : d[1] <= c[1]
<1>5. last \in calls /\ \A d \in calls : d[1] <= last[1]
  BY <1>4
<1>6. Told(calls, before) = last[2]
  BY Zenon DEF Told
<1> HIDE DEF last
<1> QED BY <1>5, <1>6
-----------------------------------------------------------------------------
(* The calls of one reconfiguration *)

Order(w) == \A p, q \in Port : w[p] = w[q] => p = q

LEMMA WalkType ==
  ASSUME NEW w \in Walk
  PROVE  /\ Cardinality(Port) \in Nat
         /\ w \in [Port -> 1 .. Cardinality(Port)]
         /\ Order(w)
BY PluginAssumption, FS_CardinalityType DEF Walk, Order

\* the four groups of calls
Gone(t, x) == {<<0, Disabled>> : p \in {p \in GonePorts(t) : t # Cist /\ x \in copy[t].members[p]}}
Added(t, x) == {<<1, state[t][p]>> : p \in {p \in NewPorts(t) : x \in Members(p)}}
Dropped(t, x, walk) ==
  {<<2 * walk[p], Disabled>> : p \in {p \in KeptPorts(t) : t # Cist /\ x \in Lost(t, p)}}
Set(t, x, walk) ==
  {<<2 * walk[p] + 1, state[t][p]>> :
     p \in {p \in KeptPorts(t) : Tells(t, p) /\ x \in Members(p)}}

LEMMA CallsParts ==
  ASSUME NEW t, NEW x, NEW walk
  PROVE  Calls(t, x, walk) =
           Gone(t, x) \cup Added(t, x) \cup Dropped(t, x, walk) \cup Set(t, x, walk)
BY Zenon DEF Calls, Gone, Added, Dropped, Set

LEMMA CallTimes ==
  ASSUME TypeOK, NEW t \in Tree, NEW x \in Intf, NEW w \in Walk
  PROVE  \E n \in Nat : \A c \in Calls(t, x, w) : c[1] \in 0 .. n
<1> DEFINE n == 2 * Cardinality(Port) + 1
<1>1. n \in Nat /\ \A p \in Port : w[p] \in 1 .. Cardinality(Port)
  BY WalkType
<1>2. \A p \in Port : 2 * w[p] \in 0 .. n /\ 2 * w[p] + 1 \in 0 .. n
  BY <1>1, WalkType
<1>3. 0 \in 0 .. n /\ 1 \in 0 .. n
  BY WalkType
<1>4. GonePorts(t) \subseteq Port /\ NewPorts(t) \subseteq Port /\ KeptPorts(t) \subseteq Port
  BY DEF TypeOK, Instance, GonePorts, NewPorts, KeptPorts
<1> HIDE DEF n
<1>5. ASSUME NEW c \in Calls(t, x, w) PROVE c[1] \in 0 .. n
  <2>1. CASE c \in Gone(t, x)
    BY <1>3, <2>1 DEF Gone
  <2>2. CASE c \in Added(t, x)
    BY <1>3, <2>2 DEF Added
  <2>3. CASE c \in Dropped(t, x, w)
    BY <1>2, <1>4, <2>3 DEF Dropped
  <2>4. CASE c \in Set(t, x, w)
    BY <1>2, <1>4, <2>4 DEF Set
  <2> QED BY <1>5, <2>1, <2>2, <2>3, <2>4, CallsParts
<1> QED BY <1>1, <1>5

LEMMA CallKinds ==
  ASSUME NEW t \in Tree, NEW x \in Intf, NEW w \in Walk, NEW c \in Calls(t, x, w)
  PROVE  \/ /\ t # Cist /\ c = <<0, Disabled>>
            /\ \E p \in GonePorts(t) : x \in copy[t].members[p]
         \/ \E p \in NewPorts(t) : x \in Members(p) /\ c = <<1, state[t][p]>>
         \/ /\ t # Cist
            /\ \E p \in KeptPorts(t) : x \in Lost(t, p) /\ c = <<2 * w[p], Disabled>>
         \/ \E p \in KeptPorts(t) :
              Tells(t, p) /\ x \in Members(p) /\ c = <<2 * w[p] + 1, state[t][p]>>
<1>1. CASE c \in Gone(t, x)
  BY <1>1 DEF Gone
<1>2. CASE c \in Added(t, x)
  BY <1>2 DEF Added
<1>3. CASE c \in Dropped(t, x, w)
  BY <1>3 DEF Dropped
<1>4. CASE c \in Set(t, x, w)
  BY <1>4 DEF Set
<1> QED BY <1>1, <1>2, <1>3, <1>4, CallsParts

\* A state that the ASIC may have for an interface of a port whose state is
\* s: on an MSTI it may have been closed and not told again.
Slack(t, s) == {s} \cup (IF t = Cist THEN {} ELSE {Disabled})

\* what the plugin's copy says of the ASIC
CopyTrue == \A t \in Tree :
  /\ stgVlan[t] = copy[t].vlans
  /\ \A p \in copy[t].ports : \A x \in copy[t].members[p] :
       stgState[t][x] \in Slack(t, copy[t].state[p])
  /\ t # Cist => \A x \in Intf :
       (\A p \in copy[t].ports : x \notin copy[t].members[p]) =>
         stgState[t][x] \in {Disabled, Untold}

\* an interface of a port that has a row on the tree
LEMMA OwnedState ==
  ASSUME TypeOK, CopyTrue, NEW t \in Tree, NEW w \in Walk, NEW x \in Intf,
         NEW p \in ports[t], x \in Members(p)
  PROVE  Told(Calls(t, x, w), stgState[t][x]) \in Slack(t, state[t][p])
<1> DEFINE calls == Calls(t, x, w)
           before == stgState[t][x]
<1>1. \A q : x \in Members(q) => q = p
  BY DEF Members
<1>2. CASE calls = {}
  <2>1. Told(calls, before) = before
    BY <1>2 DEF Told
  <2>2. p \notin NewPorts(t)
    <3>1. Added(t, x) = {}
      BY <1>2, CallsParts
    <3> QED BY <3>1 DEF Added
  <2>3. p \in KeptPorts(t)
    BY <2>2 DEF NewPorts, KeptPorts
  <2>4. ~ Tells(t, p)
    <3>1. Set(t, x, w) = {}
      BY <1>2, CallsParts
    <3> QED BY <2>3, <3>1 DEF Set
  <2>5. x \in copy[t].members[p] /\ state[t][p] = copy[t].state[p] /\ p \in copy[t].ports
    BY <2>3, <2>4 DEF Tells, Gained, KeptPorts
  <2>6. before \in Slack(t, copy[t].state[p])
    BY <2>5 DEF CopyTrue
  <2> QED BY <2>1, <2>5, <2>6
<1>3. CASE calls # {}
  <2>1. PICK n \in Nat : \A c \in calls : c[1] \in 0 .. n
    BY CallTimes
  <2> HIDE DEF calls, before
  <2>2. PICK c \in calls : Told(calls, before) = c[2] /\ \A d \in calls : d[1] <= c[1]
    BY <1>3, <2>1, ToldLast
  <2> USE DEF calls
  <2>3. c[2] \in {state[t][p]} \/ (t # Cist /\ c[2] = Disabled)
    BY <1>1, CallKinds
  <2>4. c[2] \in Slack(t, state[t][p])
    BY <2>3 DEF Slack
  <2> QED BY <2>2, <2>4 DEF calls, before
<1> QED BY <1>2, <1>3

\* an interface of no port that has a row on the MSTI
LEMMA UnownedState ==
  ASSUME TypeOK, CopyTrue, NEW t \in Tree, t # Cist, NEW w \in Walk, NEW x \in Intf,
         \A p \in ports[t] : x \notin Members(p)
  PROVE  Told(Calls(t, x, w), stgState[t][x]) \in {Disabled, Untold}
<1> DEFINE calls == Calls(t, x, w)
           before == stgState[t][x]
<1>1. CASE calls = {}
  <2>1. Told(calls, before) = before
    BY <1>1 DEF Told
  <2>2. ASSUME NEW p \in copy[t].ports PROVE x \notin copy[t].members[p]
    <3>1. CASE p \in ports[t]
      <4>1. Dropped(t, x, w) = {}
        BY <1>1, CallsParts
      <4>2. p \in KeptPorts(t)
        BY <3>1 DEF KeptPorts
      <4>3. x \notin Lost(t, p)
        BY <4>1, <4>2 DEF Dropped
      <4> QED BY <3>1, <4>3 DEF Lost
    <3>2. CASE p \notin ports[t]
      <4>1. Gone(t, x) = {}
        BY <1>1, CallsParts
      <4>2. p \in GonePorts(t)
        BY <3>2 DEF GonePorts
      <4> QED BY <4>1, <4>2 DEF Gone
    <3> QED BY <3>1, <3>2
  <2> QED BY <2>1, <2>2 DEF CopyTrue
<1>2. CASE calls # {}
  <2>1. PICK n \in Nat : \A c \in calls : c[1] \in 0 .. n
    BY CallTimes
  <2> HIDE DEF calls, before
  <2>2. PICK c \in calls : Told(calls, before) = c[2] /\ \A d \in calls : d[1] <= c[1]
    BY <1>2, <2>1, ToldLast
  <2> USE DEF calls
  <2>3. c[2] = Disabled
    BY CallKinds DEF NewPorts, KeptPorts
  <2> QED BY <2>2, <2>3 DEF calls, before
<1> QED BY <1>1, <1>2

LEMMA ToldType ==
  ASSUME TypeOK, NEW t \in Tree, NEW w \in Walk, NEW x \in Intf
  PROVE  Told(Calls(t, x, w), stgState[t][x]) \in StgState
<1> DEFINE calls == Calls(t, x, w)
           before == stgState[t][x]
<1>1. CASE calls = {}
  <2>1. Told(calls, before) = before
    BY <1>1 DEF Told
  <2> QED BY <2>1 DEF TypeOK
<1>2. CASE calls # {}
  <2>1. PICK n \in Nat : \A c \in calls : c[1] \in 0 .. n
    BY CallTimes
  <2> HIDE DEF calls, before
  <2>2. PICK c \in calls : Told(calls, before) = c[2] /\ \A d \in calls : d[1] <= c[1]
    BY <1>2, <2>1, ToldLast
  <2> USE DEF calls
  <2>3. \A p \in Port : state[t][p] \in PortState
    BY DEF TypeOK
  <2>4. NewPorts(t) \subseteq Port /\ KeptPorts(t) \subseteq Port
    BY DEF TypeOK, NewPorts, KeptPorts
  <2>5. c[2] \in PortState \cup {Disabled}
    BY <2>3, <2>4, CallKinds
  <2> QED BY <2>2, <2>5 DEF calls, before, StgState
<1> QED BY <1>1, <1>2
-----------------------------------------------------------------------------
(* One reconfiguration *)

LEMMA MembersType ==
  ASSUME TypeOK, NEW p
  PROVE  Members(p) \in SUBSET Intf
BY DEF Members

\* the copy after it, of a tree that has a row
LEMMA CopiedType ==
  ASSUME TypeOK, NEW t \in Tree
  PROVE  /\ Copied(t) \in Instance
         /\ \A p, q \in Port : p # q => Copied(t).members[p] \cap Copied(t).members[q] = {}
         /\ Copied(t).vlans = vlans[t] /\ Copied(t).ports = ports[t]
         /\ \A p \in ports[t] : Copied(t).members[p] = Members(p)
                               /\ Copied(t).state[p] = state[t][p]
<1>1. vlans[t] \in SUBSET Vlan /\ ports[t] \in SUBSET Port /\ state[t] \in [Port -> PortState]
  BY DEF TypeOK
<1>2. [p \in Port |-> IF p \in ports[t] THEN Members(p) ELSE {}] \in [Port -> SUBSET Intf]
  BY MembersType
<1>3. [p \in Port |-> IF p \in ports[t] THEN state[t][p] ELSE Disabled]
        \in [Port -> PortState \cup {Disabled}]
  BY <1>1
<1>4. Copied(t) \in Instance
  BY <1>1, <1>2, <1>3 DEF Copied, Instance
<1>5. \A p \in Port : Copied(t).members[p] = IF p \in ports[t] THEN Members(p) ELSE {}
  BY DEF Copied
<1>6. \A p, q \in Port : p # q => Members(p) \cap Members(q) = {}
  BY DEF Members
<1>7. \A p, q \in Port : p # q => Copied(t).members[p] \cap Copied(t).members[q] = {}
  BY <1>5, <1>6
<1>8. Copied(t).vlans = vlans[t] /\ Copied(t).ports = ports[t]
  BY DEF Copied
<1>9. \A p \in ports[t] : Copied(t).members[p] = Members(p) /\ Copied(t).state[p] = state[t][p]
  BY <1>1 DEF Copied
<1> QED BY <1>4, <1>7, <1>8, <1>9

LEMMA EmptyType ==
  /\ Empty \in Instance
  /\ \A p, q \in Port : p # q => Empty.members[p] \cap Empty.members[q] = {}
  /\ Empty.vlans = {} /\ Empty.ports = {}
BY DEF Empty, Instance

\* what a reconfiguration makes of the ASIC
LEMMA ReconfigureAsic ==
  ASSUME TypeOK, CopyTrue, Reconfigure, NEW t \in Tree
  PROVE  /\ t \in rows =>
              /\ copy'[t] = Copied(t) /\ stgVlan'[t] = vlans[t]
              /\ \A x \in Intf : stgState'[t][x] \in StgState
              /\ \A p \in ports[t] : \A x \in Members(p) :
                   stgState'[t][x] \in Slack(t, state[t][p])
              /\ t # Cist => \A x \in Intf :
                   (\A p \in ports[t] : x \notin Members(p)) =>
                     stgState'[t][x] \in {Disabled, Untold}
         /\ t \notin rows =>
              /\ copy'[t] = Empty /\ stgVlan'[t] = {}
              /\ \A x \in Intf : stgState'[t][x] = Untold
<1>1. PICK walk \in [Tree -> Walk] :
        stgState' = [u \in Tree |-> [x \in Intf |->
                       IF u \in rows THEN Told(Calls(u, x, walk[u]), stgState[u][x])
                                     ELSE Untold]]
  BY DEF Reconfigure
<1>2. /\ copy' = [u \in Tree |-> IF u \in rows THEN Copied(u) ELSE Empty]
      /\ stgVlan' = [u \in Tree |-> IF u \in rows THEN GroupVlans(u) ELSE {}]
  BY DEF Reconfigure
<1>3. ASSUME t \in rows
      PROVE  /\ copy'[t] = Copied(t) /\ stgVlan'[t] = vlans[t]
             /\ \A x \in Intf : stgState'[t][x] \in StgState
             /\ \A p \in ports[t] : \A x \in Members(p) :
                  stgState'[t][x] \in Slack(t, state[t][p])
             /\ t # Cist => \A x \in Intf :
                  (\A p \in ports[t] : x \notin Members(p)) =>
                    stgState'[t][x] \in {Disabled, Untold}
  <2>1. copy'[t] = Copied(t) /\ stgVlan'[t] = GroupVlans(t)
    BY <1>2, <1>3
  <2>2. GroupVlans(t) = vlans[t]
    BY DEF GroupVlans, CopyTrue
  <2>3. walk[t] \in Walk
    BY <1>1
  <2>4. ASSUME NEW x \in Intf
        PROVE  stgState'[t][x] = Told(Calls(t, x, walk[t]), stgState[t][x])
    BY <1>1, <1>3
  <2>5. \A x \in Intf : stgState'[t][x] \in StgState
    BY <2>3, <2>4, ToldType
  <2>6. ASSUME NEW p \in ports[t], NEW x \in Members(p)
        PROVE  stgState'[t][x] \in Slack(t, state[t][p])
    <3>1. x \in Intf
      BY DEF Members
    <3> QED BY <2>3, <2>4, <3>1, OwnedState
  <2>7. ASSUME t # Cist, NEW x \in Intf, \A p \in ports[t] : x \notin Members(p)
        PROVE  stgState'[t][x] \in {Disabled, Untold}
    BY <2>3, <2>4, <2>7, UnownedState
  <2> QED BY <2>1, <2>2, <2>5, <2>6, <2>7
<1>4. ASSUME t \notin rows
      PROVE  /\ copy'[t] = Empty /\ stgVlan'[t] = {}
             /\ \A x \in Intf : stgState'[t][x] = Untold
  BY <1>1, <1>2, <1>4
<1> QED BY <1>3, <1>4

IInv == TypeOK /\ CopyTrue

LEMMA InitInv == Init => IInv
<1> SUFFICES ASSUME Init PROVE IInv
  OBVIOUS
<1> USE DEF Init
<1>1. TypeOK
  <2>1. rows \subseteq Tree /\ Cist \in rows
    BY DEF Tree
  <2>2. vlans \in [Tree -> SUBSET Vlan] /\ ports \in [Tree -> SUBSET Port]
    OBVIOUS
  <2>3. state \in [Tree -> [Port -> PortState]] /\ member \in [Intf -> Port \cup {NoPort}]
    OBVIOUS
  <2>4. writes \in 0 .. MaxWrites
    BY PluginAssumption
  <2>5. /\ copy \in [Tree -> Instance]
        /\ \A t \in Tree, p, q \in Port : p # q => copy[t].members[p] \cap copy[t].members[q] = {}
    BY EmptyType
  <2>6. stgVlan \in [Tree -> SUBSET Vlan] /\ stgState \in [Tree -> [Intf -> StgState]]
    BY DEF StgState
  <2> QED BY <2>1, <2>2, <2>3, <2>4, <2>5, <2>6 DEF TypeOK
<1>2. CopyTrue
  BY EmptyType DEF CopyTrue
<1> QED BY <1>1, <1>2 DEF IInv

LEMMA WriteInv == ASSUME IInv, DbWrite PROVE IInv' /\ UNCHANGED asic
<1>0. TypeOK /\ CopyTrue
  BY DEF IInv
<1>1. Write
  BY DEF DbWrite, WriteVlan, WriteState, WritePort, WriteMember, WriteMsti
<1>2. /\ UNCHANGED <<copy, stgVlan, stgState>> /\ pending' \in BOOLEAN
      /\ writes' \in 0 .. MaxWrites
  BY <1>0, <1>1, PluginAssumption DEF Write, TypeOK
<1>3. /\ rows' \subseteq Tree /\ Cist \in rows' /\ vlans' \in [Tree -> SUBSET Vlan]
      /\ ports' \in [Tree -> SUBSET Port] /\ state' \in [Tree -> [Port -> PortState]]
      /\ member' \in [Intf -> Port \cup {NoPort}]
  <2> DEFINE Rows == /\ rows' \subseteq Tree /\ Cist \in rows' /\ vlans' \in [Tree -> SUBSET Vlan]
                     /\ ports' \in [Tree -> SUBSET Port]
                     /\ state' \in [Tree -> [Port -> PortState]]
                     /\ member' \in [Intf -> Port \cup {NoPort}]
  <2>1. ASSUME NEW t \in Tree, NEW v \in Vlan, WriteVlan(t, v) PROVE Rows
    BY <1>0, <2>1 DEF WriteVlan, TypeOK
  <2>2. ASSUME NEW t \in Tree, NEW p \in Port, NEW u \in PortState, WriteState(t, p, u) PROVE Rows
    BY <1>0, <2>2 DEF WriteState, TypeOK
  <2>3. ASSUME NEW t \in Tree, NEW p \in Port, WritePort(t, p) PROVE Rows
    BY <1>0, <2>3 DEF WritePort, TypeOK
  <2>4. ASSUME NEW x \in Intf, NEW p \in Port \cup {NoPort}, WriteMember(x, p) PROVE Rows
    BY <1>0, <2>4 DEF WriteMember, TypeOK
  <2>5. ASSUME NEW t \in Msti, NEW v \in Vlan, WriteMsti(t, v) PROVE Rows
    <3>1. t \in Tree /\ t # Cist
      BY PluginAssumption DEF Tree
    <3>2. rows' \subseteq Tree /\ Cist \in rows'
      BY <1>0, <2>5, <3>1 DEF WriteMsti, TypeOK
    <3>3. vlans' \in [Tree -> SUBSET Vlan] /\ ports' \in [Tree -> SUBSET Port]
      BY <1>0, <2>5, <3>1 DEF WriteMsti, TypeOK
    <3> QED BY <1>0, <2>5, <3>2, <3>3 DEF WriteMsti, TypeOK
  <2> QED BY <2>1, <2>2, <2>3, <2>4, <2>5 DEF DbWrite
<1>4. TypeOK'
  BY <1>0, <1>2, <1>3 DEF TypeOK
<1>5. CopyTrue' /\ UNCHANGED asic
  BY <1>0, <1>2 DEF CopyTrue, asic
<1> QED BY <1>4, <1>5 DEF IInv

LEMMA ReconfigureInv == ASSUME IInv, Reconfigure PROVE IInv'
<1>0. TypeOK /\ CopyTrue
  BY DEF IInv
<1>1. UNCHANGED <<rows, vlans, ports, state, member, writes>> /\ pending' = FALSE
  BY DEF Reconfigure
<1>2. \A t \in Tree : copy'[t] = IF t \in rows THEN Copied(t) ELSE Empty
  BY DEF Reconfigure
<1>3. TypeOK'
  <2>1. copy' \in [Tree -> Instance]
    <3>1. copy' = [t \in Tree |-> IF t \in rows THEN Copied(t) ELSE Empty]
      BY DEF Reconfigure
    <3> QED BY <1>0, <3>1, CopiedType, EmptyType
  <2>2. \A t \in Tree, p, q \in Port :
          p # q => copy'[t].members[p] \cap copy'[t].members[q] = {}
    BY <1>0, <1>2, CopiedType, EmptyType
  <2>3. stgVlan' \in [Tree -> SUBSET Vlan]
    <3>1. stgVlan' = [t \in Tree |-> IF t \in rows THEN GroupVlans(t) ELSE {}]
      BY DEF Reconfigure
    <3>2. \A t \in Tree : GroupVlans(t) \in SUBSET Vlan
      BY <1>0 DEF TypeOK, GroupVlans
    <3> QED BY <3>1, <3>2
  <2>4. stgState' \in [Tree -> [Intf -> StgState]]
    <3>1. PICK walk \in [Tree -> Walk] :
            stgState' = [t \in Tree |-> [x \in Intf |->
                           IF t \in rows THEN Told(Calls(t, x, walk[t]), stgState[t][x])
                                         ELSE Untold]]
      BY DEF Reconfigure
    <3>2. \A t \in Tree, x \in Intf : Told(Calls(t, x, walk[t]), stgState[t][x]) \in StgState
      BY <1>0, ToldType
    <3>3. Untold \in StgState
      BY DEF StgState
    <3> QED BY <3>1, <3>2, <3>3
  <2>5. pending' \in BOOLEAN
    BY <1>1
  <2> QED BY <1>0, <1>1, <2>1, <2>2, <2>3, <2>4, <2>5 DEF TypeOK
<1>4. CopyTrue'
  <2> SUFFICES ASSUME NEW t \in Tree
               PROVE  /\ stgVlan'[t] = copy'[t].vlans
                      /\ \A p \in copy'[t].ports : \A x \in copy'[t].members[p] :
                           stgState'[t][x] \in Slack(t, copy'[t].state[p])
                      /\ t # Cist => \A x \in Intf :
                           (\A p \in copy'[t].ports : x \notin copy'[t].members[p]) =>
                             stgState'[t][x] \in {Disabled, Untold}
    BY DEF CopyTrue, Slack
  <2>1. CASE t \in rows
    <3>1. copy'[t] = Copied(t)
      BY <1>2, <2>1
    <3>2. /\ Copied(t).vlans = vlans[t] /\ Copied(t).ports = ports[t]
          /\ \A p \in ports[t] : Copied(t).members[p] = Members(p)
                                 /\ Copied(t).state[p] = state[t][p]
      BY <1>0, CopiedType
    <3>3. /\ stgVlan'[t] = vlans[t]
          /\ \A p \in ports[t] : \A x \in Members(p) : stgState'[t][x] \in Slack(t, state[t][p])
          /\ t # Cist => \A x \in Intf :
               (\A p \in ports[t] : x \notin Members(p)) => stgState'[t][x] \in {Disabled, Untold}
      BY <1>0, <2>1, ReconfigureAsic
    <3> QED BY <3>1, <3>2, <3>3
  <2>2. CASE t \notin rows
    <3>1. copy'[t] = Empty
      BY <1>2, <2>2
    <3>2. stgVlan'[t] = {} /\ \A x \in Intf : stgState'[t][x] = Untold
      BY <1>0, <2>2, ReconfigureAsic
    <3> QED BY <3>1, <3>2, EmptyType
  <2> QED BY <2>1, <2>2
<1> QED BY <1>3, <1>4 DEF IInv

LEMMA NextInv == IInv /\ [Next]_vars => IInv'
<1> SUFFICES ASSUME IInv, [Next]_vars PROVE IInv'
  OBVIOUS
<1>1. CASE DbWrite
  BY <1>1, WriteInv
<1>2. CASE Reconfigure
  BY <1>2, ReconfigureInv
<1>3. CASE UNCHANGED vars
  BY <1>3 DEF vars, IInv, TypeOK, CopyTrue, Members
<1> QED BY <1>1, <1>2, <1>3 DEF Next

\* The plugin's copy and the ASIC's tables stay well formed; an interface is
\* never in the copies of two ports of one tree.
THEOREM PluginTypes == Spec => []TypeOK
<1>1. IInv => TypeOK
  BY DEF IInv
<1> QED BY <1>1, InitInv, NextInv, PTL DEF Spec

\* At any time, also between a write and the reconfiguration it asks for, the
\* copy that switchd_stp.c compares the database with says what the ASIC was
\* told.
THEOREM CopyIsTrue == Spec => []CopyIsAsic
<1>1. IInv => CopyIsAsic
  BY DEF IInv, CopyTrue, CopyIsAsic, Slack
<1> QED BY <1>1, InitInv, NextInv, PTL DEF Spec
-----------------------------------------------------------------------------
(* The refinement *)

LEMMA OwnerType ==
  ASSUME TypeOK, NEW t \in Tree, NEW x \in Intf
  PROVE  IF OwnerOf(t, x) # NoPort
         THEN t \in rows /\ OwnerOf(t, x) \in ports[t] /\ x \in Members(OwnerOf(t, x))
         ELSE t \in rows => \A p \in ports[t] : x \notin Members(p)
<1>1. ports[t] \subseteq Port
  BY DEF TypeOK
<1> QED BY <1>1, PluginAssumption DEF OwnerOf, Members

LEMMA WantType == TypeOK => Database!WantOK
<1> SUFFICES ASSUME TypeOK PROVE Database!WantOK
  OBVIOUS
<1>1. ASSUME NEW t \in Tree, NEW x \in Intf PROVE Wanted(t, x) \in StgState \cup {"Any"}
  <2>1. CASE OwnerOf(t, x) # NoPort
    <3>1. OwnerOf(t, x) \in Port
      BY <2>1, OwnerType DEF TypeOK
    <3>2. state[t][OwnerOf(t, x)] \in PortState
      BY <3>1 DEF TypeOK
    <3> QED BY <2>1, <3>2 DEF Wanted, StgState
  <2>2. CASE OwnerOf(t, x) = NoPort
    BY <2>2 DEF Wanted, StgState
  <2> QED BY <2>1, <2>2
<1>2. [t \in Tree |-> IF t \in rows THEN vlans[t] ELSE {}] \in [Tree -> SUBSET Vlan]
  BY DEF TypeOK
<1>3. [t \in Tree |-> [x \in Intf |-> Wanted(t, x)]] \in [Tree -> [Intf -> StgState \cup {"Any"}]]
  BY <1>1
<1> QED BY <1>2, <1>3 DEF Database!WantOK

LEMMA HaveType == TypeOK => Database!HaveOK
BY DEF TypeOK, Database!HaveOK

\* a reconfiguration leaves the ASIC in a state the database allows
LEMMA ReconfigureObeys == ASSUME IInv, Reconfigure PROVE Database!Obeys'
<1>0. TypeOK /\ CopyTrue
  BY DEF IInv
<1>1. UNCHANGED <<rows, vlans, ports, state, member>>
  BY DEF Reconfigure
<1>2. stgVlan' = [t \in Tree |-> IF t \in rows THEN vlans[t] ELSE {}]
  <2>1. stgVlan' = [t \in Tree |-> IF t \in rows THEN GroupVlans(t) ELSE {}]
    BY DEF Reconfigure
  <2>2. \A t \in Tree : stgVlan'[t] = IF t \in rows THEN vlans[t] ELSE {}
    BY <1>0, ReconfigureAsic
  <2> QED BY <2>1, <2>2
<1>3. ASSUME NEW t \in Tree, NEW x \in Intf
      PROVE  stgState'[t][x] \in IF Wanted(t, x) = "Any" THEN StgState
               ELSE {Wanted(t, x)} \cup (IF t \in {Cist} THEN {} ELSE {Disabled, Untold})
  <2>1. stgState'[t][x] \in StgState
    <3>1. TypeOK'
      BY ReconfigureInv DEF IInv
    <3> QED BY <3>1 DEF TypeOK
  <2>2. CASE OwnerOf(t, x) # NoPort
    <3>1. t \in rows /\ OwnerOf(t, x) \in ports[t] /\ x \in Members(OwnerOf(t, x))
      BY <1>0, <2>2, OwnerType
    <3>2. stgState'[t][x] \in Slack(t, state[t][OwnerOf(t, x)])
      BY <1>0, <3>1, ReconfigureAsic
    <3>3. Wanted(t, x) = state[t][OwnerOf(t, x)]
      BY <2>2 DEF Wanted
    <3> QED BY <2>1, <3>2, <3>3 DEF Slack
  <2>3. CASE OwnerOf(t, x) = NoPort /\ t # Cist
    <3>1. Wanted(t, x) = Disabled
      BY <2>3 DEF Wanted
    <3>2. CASE t \in rows
      <4>1. \A p \in ports[t] : x \notin Members(p)
        BY <1>0, <2>3, <3>2, OwnerType
      <4> QED BY <1>0, <2>1, <2>3, <3>1, <3>2, <4>1, ReconfigureAsic
    <3>3. CASE t \notin rows
      BY <1>0, <2>1, <2>3, <3>1, <3>3, ReconfigureAsic
    <3> QED BY <3>2, <3>3
  <2>4. CASE OwnerOf(t, x) = NoPort /\ t = Cist
    BY <2>1, <2>4 DEF Wanted
  <2> QED BY <2>2, <2>3, <2>4
<1>4. \A t \in Tree, x \in Intf : Wanted(t, x)' = Wanted(t, x)
  BY <1>1 DEF Wanted, OwnerOf
<1>5. [t \in Tree |-> IF t \in rows THEN vlans[t] ELSE {}]'
        = [t \in Tree |-> IF t \in rows THEN vlans[t] ELSE {}]
  BY <1>1
<1>6. \A t \in Tree, x \in Intf : stgState'[t][x] \in Database!Allowed(t, x)'
  BY <1>3, <1>4 DEF Database!Allowed
<1> QED BY <1>2, <1>5, <1>6 DEF Database!Obeys

LEMMA WantUnchanged ==
  ASSUME UNCHANGED <<rows, vlans, ports, state, member>>
  PROVE  UNCHANGED Database!want
BY DEF Database!want, Wanted, OwnerOf

\* The incremental comparison of switchd_stp.c implements a Reconciler: one
\* stp_reconfigure, whatever changed since the last one and in whatever order
\* it walks over the ports, leaves the ASIC as the database allows.
THEOREM PluginReconciles == Spec => Reconciles
<1>1. Init => Database!Init
  BY InitInv, WantType, HaveType DEF IInv, Database!Init
<1>2. IInv /\ [Next]_vars => [Database!Next]_<<Database!want, Database!have>>
  <2> SUFFICES ASSUME IInv, [Next]_vars
               PROVE  [Database!Next]_<<Database!want, Database!have>>
    OBVIOUS
  <2>0. Database!WantOK' /\ Database!HaveOK'
    BY NextInv, WantType, HaveType, PTL DEF IInv
  <2>1. CASE DbWrite
    <3>1. UNCHANGED <<stgVlan, stgState>>
      BY <2>1, WriteInv DEF asic
    <3> QED BY <2>0, <3>1 DEF Database!Next, Database!Change, Database!have
  <2>2. CASE Reconfigure
    <3>1. UNCHANGED <<rows, vlans, ports, state, member>>
      BY <2>2 DEF Reconfigure
    <3>2. Database!Obeys'
      BY <2>2, ReconfigureObeys
    <3>3. UNCHANGED Database!want
      BY <3>1, WantUnchanged
    <3> QED BY <2>0, <3>2, <3>3 DEF Database!Next, Database!Reconcile
  <2>3. CASE UNCHANGED vars
    <3>1. UNCHANGED Database!want
      BY <2>3, WantUnchanged DEF vars
    <3>2. UNCHANGED Database!have
      BY <2>3 DEF vars, Database!have
    <3> QED BY <3>1, <3>2
  <2> QED BY <2>1, <2>2, <2>3 DEF Next
<1> QED BY <1>1, <1>2, InitInv, NextInv, PTL DEF Spec, Reconciles, Database!Spec
=============================================================================
