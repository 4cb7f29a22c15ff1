---------------------------- MODULE SwitchPlugin ----------------------------
(***************************************************************************)
(* The STP plugin of ops-switchd (plugins/src/switchd_stp.c): it compares  *)
(* the rows of the database with its own copy of them (all_mstp_instances) *)
(* and tells the ASIC the difference: which VLANs belong to which spanning *)
(* tree group and the state of every interface in every group.             *)
(*                                                                         *)
(* The database is written by the CLI and by mstpd; here any write of a    *)
(* row the plugin reads may come at any time.  stp_reconfigure runs in     *)
(* switchd's only thread: one step.  The ports of an instance are a hash   *)
(* map, so each walk over them has an order of its own.                    *)
(***************************************************************************)
EXTENDS Integers, FiniteSets

CONSTANTS Cist,       \* the tree that always exists
          Msti,       \* the instance ids in use
          Vlan, Port, \* a port is an interface or a LAG
          Intf,
          NoPort,     \* no port lists the interface
          PortState,  \* the port_state values mstpd writes
          MaxWrites   \* bound: writes to the database

Disabled == "Disabled"  \* MSTP_INST_PORT_STATE_DISABLED
Untold == "Untold"      \* set_stg_port_state was never called for it

ASSUME PluginAssumption ==
  /\ Cist \notin Msti
  /\ NoPort \notin Port
  /\ IsFiniteSet(Port)
  /\ MaxWrites \in Nat

Tree == {Cist} \cup Msti
StgState == PortState \cup {Disabled, Untold}

VARIABLES
  rows,    \* the trees that have a row; the CIST's is never deleted
  vlans,   \* Tree -> the VLANs of its row whose hw_vlan_config is enabled
  ports,   \* Tree -> the ports its port rows refer to
  state,   \* Tree -> Port -> port_state
  member,  \* Intf -> the port that lists it in Port.interfaces, or NoPort
  writes,  \* how many writes there were
  pending, \* a watched column changed after the last reconfiguration
  copy,    \* Tree -> the plugin's struct mstp_instance; Empty: it has none
  stgVlan, \* ASIC: Tree -> the VLANs of its spanning tree group
  stgState \* ASIC: Tree -> Intf -> the state it was told last

db == <<rows, vlans, ports, state, member>>
asic == <<stgVlan, stgState>>
vars == <<rows, vlans, ports, state, member, writes, pending, copy, stgVlan, stgState>>

Members(p) == {x \in Intf : member[x] = p}

\* struct mstp_instance: the VLANs, and for each port its interfaces and state
Instance == [vlans : SUBSET Vlan, ports : SUBSET Port,
             members : [Port -> SUBSET Intf], state : [Port -> PortState \cup {Disabled}]]
Empty == [vlans |-> {}, ports |-> {}, members |-> [p \in Port |-> {}],
          state |-> [p \in Port |-> Disabled]]

TypeOK ==
  /\ rows \subseteq Tree /\ Cist \in rows
  /\ vlans \in [Tree -> SUBSET Vlan]
  /\ ports \in [Tree -> SUBSET Port]
  /\ state \in [Tree -> [Port -> PortState]]
  /\ member \in [Intf -> Port \cup {NoPort}]
  /\ writes \in 0 .. MaxWrites
  /\ pending \in BOOLEAN
  /\ copy \in [Tree -> Instance]
  /\ \A t \in Tree, p, q \in Port :  \* an interface is in one port's copy
       p # q => copy[t].members[p] \cap copy[t].members[q] = {}
  /\ stgVlan \in [Tree -> SUBSET Vlan]
  /\ stgState \in [Tree -> [Intf -> StgState]]

\* the database of a switch that is configured before switchd reads it
Init ==
  /\ rows \in {{Cist}, Tree}
  /\ vlans = [t \in Tree |-> IF t \in rows /\ (t = Cist => rows = {Cist}) THEN Vlan ELSE {}]
  /\ ports = [t \in Tree |-> IF t \in rows THEN Port ELSE {}]
  /\ \E s \in PortState : state = [t \in Tree |-> [p \in Port |-> s]]
  /\ \E p \in Port : member = [x \in Intf |-> p]
  /\ writes = 0
  /\ pending = TRUE
  /\ copy = [t \in Tree |-> Empty]
  /\ stgVlan = [t \in Tree |-> {}]
  /\ stgState = [t \in Tree |-> [x \in Intf |-> Untold]]
-----------------------------------------------------------------------------
(* writes of the CLI and of mstpd; each is one the plugin watches for      *)
(* (stp_plugin_need_propagate_change)                                      *)

Write ==
  /\ writes < MaxWrites
  /\ writes' = writes + 1
  /\ pending' = TRUE
  /\ UNCHANGED <<copy, stgVlan, stgState>>

\* a VLAN is mapped, unmapped, enabled or disabled
WriteVlan(t, v) ==
  /\ Write
  /\ t \in rows
  /\ vlans' = [vlans EXCEPT ![t] = IF v \in @ THEN @ \ {v} ELSE @ \cup {v}]
  /\ UNCHANGED <<rows, ports, state, member>>

\* mstpd moves a port to another state on a tree
WriteState(t, p, s) ==
  /\ Write
  /\ p \in ports[t]
  /\ state' = [state EXCEPT ![t][p] = s]
  /\ UNCHANGED <<rows, vlans, ports, member>>

\* a port row appears, or its port is deleted and the weak reference empty
WritePort(t, p) ==
  /\ Write
  /\ t \in rows
  /\ ports' = [ports EXCEPT ![t] = IF p \in @ THEN @ \ {p} ELSE @ \cup {p}]
  /\ UNCHANGED <<rows, vlans, state, member>>

\* mutant: lag_intf_updated is missing
WriteMemberUnseen(x, p) ==
  /\ writes < MaxWrites
  /\ writes' = writes + 1
  /\ member' = [member EXCEPT ![x] = p]
  /\ UNCHANGED <<rows, vlans, ports, state, pending, copy, stgVlan, stgState>>

\* an interface joins or leaves a LAG
WriteMember(x, p) ==
  /\ Write
  /\ member' = [member EXCEPT ![x] = p]
  /\ UNCHANGED <<rows, vlans, ports, state>>

\* spanning-tree instance ... vlan ... on a new instance: the row comes with
\* a VLAN and with every port of the bridge; no spanning-tree instance
WriteMsti(t, v) ==
  /\ Write
  /\ rows' = IF t \in rows THEN rows \ {t} ELSE rows \cup {t}
  /\ vlans' = [vlans EXCEPT ![t] = IF t \in rows THEN {} ELSE {v}]
  /\ ports' = [ports EXCEPT ![t] = IF t \in rows THEN {} ELSE Port]
  /\ UNCHANGED <<state, member>>

DbWrite ==
  \/ \E t \in Tree, v \in Vlan : WriteVlan(t, v)
  \/ \E t \in Tree, p \in Port, s \in PortState : WriteState(t, p, s)
  \/ \E t \in Tree, p \in Port : WritePort(t, p)
  \/ \E x \in Intf, p \in Port \cup {NoPort} : WriteMember(x, p)
  \/ \E t \in Msti, v \in Vlan : WriteMsti(t, v)
-----------------------------------------------------------------------------
(* stp_reconfigure *)

\* mstp_instance_add_del_ports, mstp_cist_configure_ports
GonePorts(t) == copy[t].ports \ ports[t]
NewPorts(t)  == ports[t] \ copy[t].ports
KeptPorts(t) == copy[t].ports \cap ports[t]

\* ..._add_del_instance_port_interfaces on a port that stays
Lost(t, p)   == copy[t].members[p] \ Members(p)
Gained(t, p) == Members(p) \ copy[t].members[p]

\* mutant: a new interface of an old port is not told
TellsIfMoved(t, p) == state[t][p] # copy[t].state[p]

\* mstp_instance_update: the state is told again for all interfaces of a
\* port if one of them is new or the state differs from the copy's
Tells(t, p) == Gained(t, p) # {} \/ state[t][p] # copy[t].state[p]

\* mutant: the interfaces of a deleted port keep their state
CallsButGone(t, x, walk) ==
  {<<1, state[t][p]>> : p \in {p \in NewPorts(t) : x \in Members(p)}}
  \cup {<<2 * walk[p], Disabled>> :
          p \in {p \in KeptPorts(t) : t # Cist /\ x \in Lost(t, p)}}
  \cup {<<2 * walk[p] + 1, state[t][p]>> :
          p \in {p \in KeptPorts(t) : Tells(t, p) /\ x \in Members(p)}}

\* The calls of set_stg_port_state for x on t, each with its place in time:
\* first the interfaces of deleted ports, then those of new ports, then the
\* ports that stay, in the order of the walk.  An interface that a port
\* lost is closed on an MSTI and left alone on the CIST.
Calls(t, x, walk) ==
  {<<0, Disabled>> : p \in {p \in GonePorts(t) : t # Cist /\ x \in copy[t].members[p]}}
  \cup {<<1, state[t][p]>> : p \in {p \in NewPorts(t) : x \in Members(p)}}
  \cup {<<2 * walk[p], Disabled>> :
          p \in {p \in KeptPorts(t) : t # Cist /\ x \in Lost(t, p)}}
  \cup {<<2 * walk[p] + 1, state[t][p]>> :
          p \in {p \in KeptPorts(t) : Tells(t, p) /\ x \in Members(p)}}

\* the ASIC keeps what it was told last
Told(calls, before) ==
  IF calls = {} THEN before
  ELSE (CHOOSE c \in calls : \A d \in calls : d[1] <= c[1])[2]

\* the order in which a walk over the hash map comes to the ports
Walk == {w \in [Port -> 1 .. Cardinality(Port)] : \A p, q \in Port : w[p] = w[q] => p = q}

\* mstp_instance_add_del_vlans, mstp_cist_add_del_vlans
GroupVlans(t) == (stgVlan[t] \ (copy[t].vlans \ vlans[t])) \cup (vlans[t] \ copy[t].vlans)

\* mutant: interfaces that left a port stay in the copy
CopiedKeeping(t) ==
  [vlans |-> vlans[t], ports |-> ports[t],
   members |-> [p \in Port |-> IF p \in ports[t] THEN Members(p) \cup copy[t].members[p]
                               ELSE {}],
   state |-> [p \in Port |-> IF p \in ports[t] THEN state[t][p] ELSE Disabled]]

Copied(t) == [vlans |-> vlans[t], ports |-> ports[t],
              members |-> [p \in Port |-> IF p \in ports[t] THEN Members(p) ELSE {}],
              state |-> [p \in Port |-> IF p \in ports[t] THEN state[t][p] ELSE Disabled]]

\* mstp_cist_update, mstp_add_del_instances, mstp_update_instances.  The
\* group of a deleted instance is deleted with all it holds.
Reconfigure ==
  /\ pending
  /\ pending' = FALSE
  /\ copy' = [t \in Tree |-> IF t \in rows THEN Copied(t) ELSE Empty]
  /\ stgVlan' = [t \in Tree |-> IF t \in rows THEN GroupVlans(t) ELSE {}]
  /\ \E walk \in [Tree -> Walk] :
       stgState' = [t \in Tree |-> [x \in Intf |->
                      IF t \in rows THEN Told(Calls(t, x, walk[t]), stgState[t][x])
                                    ELSE Untold]]
  /\ UNCHANGED <<rows, vlans, ports, state, member, writes>>

Next == DbWrite \/ Reconfigure

Spec == Init /\ [][Next]_vars

\* switchd's main loop reconfigures whenever the database has changed
FairSpec == Spec /\ WF_vars(Reconfigure)
-----------------------------------------------------------------------------
\* The port of x on tree t, as the database has it
OwnerOf(t, x) == IF t \in rows /\ member[x] \in ports[t] THEN member[x] ELSE NoPort

\* what the database asks of x on t: nothing passes where no port owns it.
\* On the CIST the plugin leaves such an interface as it was.
Wanted(t, x) ==
  IF OwnerOf(t, x) # NoPort THEN state[t][OwnerOf(t, x)]
  ELSE IF t = Cist THEN "Any" ELSE Disabled

\* One stp_reconfigure, whatever the changes since the last one and the
\* order of the walks, puts the ASIC into a state the database allows: the
\* incremental comparison with all_mstp_instances does what a full one
\* would, but for interfaces that moved and stay disabled on an MSTI.
Database == INSTANCE Reconciler WITH
  Exact <- {Cist}, State <- StgState, Closed <- {Disabled, Untold}, Any <- "Any",
  wantVlans <- [t \in Tree |-> IF t \in rows THEN vlans[t] ELSE {}],
  wantState <- [t \in Tree |-> [x \in Intf |-> Wanted(t, x)]],
  haveVlans <- stgVlan, haveState <- stgState

Reconciles == Database!Spec

\* The plugin's copy says what the ASIC was told, also while changes wait:
\* a difference between them is never looked for again.
CopyIsAsic == \A t \in Tree :
  /\ stgVlan[t] = copy[t].vlans
  /\ \A p \in copy[t].ports : \A x \in copy[t].members[p] :
       stgState[t][x] \in {copy[t].state[p]} \cup (IF t = Cist THEN {} ELSE {Disabled})

\* When the writes end the ASIC comes to obey the database and stays so: no
\* write escapes stp_plugin_need_propagate_change.
Converges == <>[]Database!Obeys
=============================================================================
