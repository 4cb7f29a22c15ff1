# ops-stpd in TLA+

`ops-stpd` is the OpenSwitch spanning tree daemon: MSTP (IEEE 802.1Q-2005,
clause 13) with one CIST and up to 64 MSTIs, in C. This directory models

- the *protocol engine*: the eleven state machines, the role selection, the thread
  that serves events and the queue of messages for the database, on several
  bridges at once (`Stpd` and the modules below it);
- the *event queue* between the daemon's threads, lock by lock (`EventQueue`);
- the way of the *configuration* from the CLI through the database and the daemon's
  two threads into the running protocol (`StpdConfig`);
- the *switch plugin* that carries the daemon's results into the ASIC (`SwitchPlugin`).

TLC checks them, and TLAPS proves twenty-five theorems about them, two of which
say that a detailed specification implements an abstract one.
Paths below are relative to the repository root, which contains `src/`, `include/`,
`plugins/` and `ops-tests/`; in `PROJECT.json` they have a further `src/` in front.

## 1. The system

### Parts, state and operations

| Part | Source | State it keeps | Operations |
|---|---|---|---|
| Protocol thread | `src/mstpd_ctrl.c`, `src/mstpd_recv.c` | `mstp_Bridge.Spanning`, the event it holds | takes an event, dispatches on its type, calls machines, ends with `mstp_informDBOnPortStateChange` |
| Initialisation, enable, disable | `src/mstpd_init.c`, `src/mstpd_dyn_reconfig.c` | BEGIN, all protocol data | `mstp_initStateMachines`, `mstp_adminStatusUpdate`, `mstp_clearProtocolData`, `mstp_checkDynReconfigChanges`, `mstp_addLport`, `mstp_removeLport` |
| PRX Port Receive | `src/mstpd_prx_sm.c` | state, `rcvdBPDU`, `edgeDelayWhile` | classifies a BPDU, calls PPM, BDM, PIM of every tree |
| PPM Protocol Migration | `src/mstpd_ppm_sm.c` | `sendRSTP`, `mcheck`, `mdelayWhile` | falls back to STP encodings and returns |
| BDM Bridge Detection | `src/mstpd_bdm_sm.c` | `operEdge` | edge / not edge |
| PTI Timers | `src/mstpd_pti_sm.c` | all timers | one tick per second, calls the machines of each expired timer |
| PTX Transmit | `src/mstpd_ptx_sm.c`, `src/mstpd_util.c` | `newInfo`, `helloWhen`, `txCount`, `tcAck` | encodes and sends MST, RST, Config, TCN BPDUs |
| PIM Information | `src/mstpd_pim_sm.c`, `src/mstpd_util.c` | `infoIs`, priority vectors, times, `agree(d)`, `rcvdInfoWhile` | records, updates, ages information, asks for a selection |
| PRS Role Selection | `src/mstpd_prs_sm.c`, `src/mstpd_util.c` | root vector, root port, `selectedRole` | `mstp_updtRolesTree` |
| PRT Role Transitions | `src/mstpd_prt_sm.c` | `role`, `sync(ed)`, `reRoot`, `learn`, `forward`, `fd/rr/rbWhile` | the handshakes that let a port forward |
| PST State Transition | `src/mstpd_pst_sm.c` | `learning`, `forwarding` | queues the port's new state |
| TCM Topology Change | `src/mstpd_tcm_sm.c` | `tcWhile`, `tcProp` | spreads topology changes, queues flushes |
| Database informer | `src/mstpd_util.c`, `src/mstpd_ctrl.c` | `MSTP_TREE_MSGS_QUEUE` | writes `port_state`, `block_all_mstp`, flush requests |
| Event queue | `src/mqueue.c`, `mstpd_ctrl.c:124-194` | list, mutex, semaphore | send, wait, free |
| OVSDB interface | `src/mstpd_ovsdb_if.c` | replica of the database, caches of what was sent | `mstpd_reconfigure`, `mstp_config_reinit` |
| CLI | `src/cli/mstp_vty.c` | none | commands, each a transaction on the database |
| Configuration digest | `mstpd_util.c:1471`, `md5.c` | `MstConfigId.digest` | built from the VLAN table |
| Switch plugin | `plugins/src/switchd_stp.c` | `all_mstp_instances`, a copy of the rows | `stp_reconfigure` |
| Daemon main | `src/mstpd.c` | none | starts the threads |
| Show, debug, inline helpers | `mstpd_show.c`, `mstpd_debug.c`, `mstpd_inlines.c` | text | output, not modelled (section 8) |

### How they interact

Three threads post events to one queue (link and configuration events from the
OVSDB thread, BPDUs from the receive thread, a tick each second from the timer
thread). The protocol thread serves them one at a time. Inside one event the
machines are plain C functions on shared port records that *call one another
recursively in the middle of an action*: PIM calls PRS, PRS calls PIM of every
port and then PRT of every port on every tree, PRT calls PST and TCM, TCM
calls the TCM of every sibling port and PTX. There is no scheduler: if nobody calls a
machine whose condition holds, it stays where it is until some later event
happens to call it. Between bridges there are only BPDUs.

The OVSDB thread looks at its replica of the database, compares it row by row with caches
of what it sent last and posts an event per difference. A change that a running protocol
cannot take over makes the protocol thread wipe its data, empty the queue, clear the caches and
have everything sent again (`mstp_config_reinit`), the enabling of the protocol last. What the protocol
decides goes back to the database (`port_state`), where the plugin of `ops-switchd`, another
process, compares it with a copy of its own and tells the ASIC the difference.

### What is hard

- *Nested calls.* A function goes on after a call with bits that call may have
  changed (`mstpd_pim_sm.c:1458`, `mstpd_prs_sm.c:302`), or should have called a machine and did not.
- *Handshakes between bridges.* Proposal, agreement, sync, reRoot, dispute:
  safety of the whole network depends on bits whose meaning spans two bridges
  and every other port of each (`mstpd_prt_sm.c:2257`).
- *Time.* Ten timers per port, unsigned, counted down in one pass whose order
  matters because expiries call machines in between.
- *Loss and silence.* Lost BPDUs, neighbours that disappear, loop guard.
- *A region boundary*, where an MSTI port follows a CIST port selected in another call.
- *A queue of per-tree messages* that several writers fill and two kinds of
  call (timer or not) empty differently (`mstpd_ctrl.c:1979`).
- *Disable, reconfigure, enable* between any two other events.

- *A semaphore outside its mutex* (`mqueue.c:117`), and a queue that is emptied while others post.
- *Two caches on the way of a configuration*, one per process: what is compared incrementally and
  wrongly once is never looked at again (`mstpd_ovsdb_if.c:2243`, `switchd_stp.c:970`), and a
  re-initialisation must fit caches, queue and replica together (`mstpd_ovsdb_if.c:2544`).

`PROJECT.json` lists these as hazards at their lines.

## 2. How the model corresponds to the code

### The protocol engine

**One step is one iteration of one C function.** `stk` (`MstpBase`) is the C
call stack of the handler that is running: a frame names the machine (or the
rest of a function that has to go on after a nested call), its tree and port,
whether its do-while loop was entered, and a saved local. A step of a machine
evaluates its condition function, enters the state, makes the state action's
assignments and replaces the head of the stack by the calls the action makes, in source
order. What C does on return from a call is a frame of its own
(`PIM_AGED`, `PIM_SELECTED`, `SYNC_MSTI`, `TICK_TREE`, ...). A condition function is an
operator (`PimCond`, `PrtCond`, ...) that returns the state to enter or
`Stay`, with the conditions tried in the order of the code.

An event (`Enable`, `LinkDown`, `Tick`, `Receive`, ...) is enabled when the stack
is empty and pushes the calls its `case` makes, followed by `INFORM_DB` (and
`PENDING_TX` where the case calls `mstp_doPendingTxOnBridge`). Handlers of
different bridges share no state but the wires, to which a handler only
appends and of which no step reads anything until the stack is empty; so they
commute, and one stack serves all bridges.

| Module | Models | Main correspondence |
|---|---|---|
| `MstpBase` | constants, variables, stack, vectors, BPDU records | `MSTP_COMM_PORT_INFO_t`, `MSTP_CIST_PORT_INFO_t`, `MSTP_MSTI_PORT_INFO_t` split into `cbits/csm/ctmr` (per port) and `bits/fsm/tmr/info/vec` (per tree and port); bit maps are sets |
| `Ppm`, `Bdm`, `Prx`, `Ptx`, `Pti`, `Pst`, `Tcm`, `Prs`, `Pim`, `Prt` | one machine each, with its helpers of `mstpd_util.c` | `XxxCond` = `mstp_xxxSm...Cond`, `XxxGeneral` = `mstp_xxxSmGeneralCond`, `XxxSm` = `mstp_xxxSm` with one action per state |
| `Stpd` | events, enable and disable, the database informer, `Next`, fairness | the `switch` of `mstpd_protocol_thread` |
| `StpdProps` | every property | |
| `StpdMachineTypes`, `StpdTypeProofs` | type invariant: the machines, the events and the theorem; the message queue | |
| `StpdStackProofs` | theorems about the call stack: who may be on it, what is undone when it is empty | |
| `StpdHandlerProofs` | theorems about what handlers preserve: hello times, agreements, port states, the database, its key for all trees, and roles | |
| `StpdSelectionProofs` | the theorem that every request for a selection of roles is answered before the handler ends | |
| `MCPair`, `MCLoopback`, `MCNeighbour` | instances | |
| `EventQueue` | the event queue with its threads | one action per locked step of `mqueue.c`; `EventQueueProofs` |
| `Fifo` | what a queue promises | abstract; implemented by `EventQueue` |
| `StpdConfig` | CLI, OVSDB thread, protocol thread | `Look` = `mstpd_run`, `Handle` and `Reinit` = one event; `StpdConfigProofs` |
| `SwitchPlugin` | the plugin, the database it reads, the ASIC it tells | `Reconfigure` = `stp_reconfigure`; `SwitchPluginProofs` |
| `Reconciler` | what the plugin promises | abstract; implemented by `SwitchPlugin` |

Dependencies: `MstpBase` <- the ten machines <- `Stpd` <- `StpdProps` <- the MC
modules and the proofs. `EventQueue` instantiates `Fifo`, `SwitchPlugin` instantiates
`Reconciler`; `StpdConfig` stands alone and does to its queue what `Fifo` allows. The three are
small enough to be instantiated by their `.cfg` files directly.

**Data.** A bridge identifier is one number (priority and MAC), a port identifier
one number (priority and port number). A vector is a record of six numbers. A BPDU
is the record that the receiver decodes. The configuration digest is a region
number. What an encoding drops is dropped in the record (`Ptx`): a Config
BPDU has no role and no regional root, a TCN nothing at all.

**Time.** `Tick(b)` is the handler of one timer event. Two assumptions link the
clocks: no bridge ticks twice before every other running one has ticked once
(`due`), and a frame on a wire arrives before the next tick (`Tick` needs the wires to be
empty). Within a second deliveries and all other events happen in any order. The
second assumption is necessary: when a BPDU may be several seconds late the
protocol itself (not this code) loses `NoLoop`, because `fdWhile` is
counted on the assumption that BPDUs arrive.

**Wrong variants.** Definitions named `Wrong...`, and in the modules below those with a
comment that begins "mutant:", are mutated forms of the
definitions next to them, each a bug one could plausibly write there;
`PROJECT.json` pairs each with the property that catches it. No specification uses them.

### The event queue

A step is what other threads can see: taking the lock together with the change made under
it (`Link`, `Unlink`, `Drain`), `sem_post`, `sem_wait` and the reset of the semaphore by
themselves, giving the lock back. The receiver may send while it works, and may empty
the queue (`mstp_config_reinit` does both). `malloc` may fail at any time and must when
`MaxElements` are queued; the message is then lost, as the callers ignore the result. `Unlink` of an empty
list has no next state: the code would unlink the tail sentinel. The daemon blocks all signals
(`mstpd.c:170`), so `sem_wait` is not interrupted. Two error paths are left out because they are never taken:
`sem_post` on a full counter, which would leave an element without its count (`mqueue.c:98`), and a failing `sem_init` with
the value 0, after which `mqueue_free` would return with the mutex locked (`mqueue.c:52`).

### The configuration

`db` is the database as the CLI's transactions leave it, `replica` the daemon's copy, which
`ovsdb_idl_run` brings up to date in `Look`, and which a blocking commit inside a handler may bring
up to date as well (`Commits`); `fresh` says that such a change has not been looked at. `conf` is
the caches. `mstp` is the part of `mstp_Bridge` that configuration decides: whether the protocol
runs, the re-initialisation flag, the CIST's priority, which MSTIs exist, `mstp_MstiVidTable`, the
digest and `numOfValidTrees`, an unsigned char. Both `mstpd_run` and `mstp_config_reinit` hold the OVSDB
lock from beginning to end, so each is one step. The order of a look is that of
`mstpd_reconfigure`: CIST, MSTIs (updates, then deletions, each by number), administrative status last.
The bridge priority stands for every value whose change re-initialises (an MSTI's priority, the region's name and revision).
The digest is the function from VLANs to trees that the code hashes.

### The plugin

The plugin runs in `ops-switchd`'s only thread, so `stp_reconfigure` is one step; between two of them
the database may change any number of times in any of the ways
`stp_plugin_need_propagate_change` looks for. An interface's new state is that of the *last* call of
`set_stg_port_state`: `Calls` is the set of calls with their place in time, in which the order of the hash map's
walk (`walk`) is arbitrary for each tree.

## 3. Properties

| Property | Says |
|---|---|
| `TypeOK` | types of every variable but the stack; no unsigned timer is decremented at 0, `txCount` stays within the hold count (proved, section 6) |
| `NoLoop` | what the daemons told their switches never lets a frame circulate, on any tree, between any two events |
| `Converges` | if from some time on all bridges run the protocol, roles, root and database finally form the tree |
| `EchoBlocked` | a port that hears itself never forwards |
| `MachinesAtRest` | between events no request for a selection of roles is left (`RolesSelected`, proved), no machine is in a state it would leave if it were called, the last selected role is taken, transmission is not muted, a port whose link is down is blocked |
| `Published` | between events `port_state` is that of PST, and no change waits (proved) |
| `OnlyActivePasses` | between events only a port with an active role is unblocked (proved) |
| `BlockAllAgrees` | `block_all_mstp` of a port is neither set while it forwards on every tree nor clear while it is blocked on every tree (proved) |
| `ChangesQueued` | at every step, a recorded change or flush is in a message of the queue (proved, section 6) |
| `AgreementIsSafe` | action property: a Root Port agrees only when every forwarding sibling is an edge port or synced (proved) |
| `SelectionCurrent` | root and roles acted on are those a new run of `mstp_updtRolesTree` would select |
| `HeldInfoIsAlive` | received information is held only with a running timer, or by loop guard on a port that is blocked meanwhile; never on an edge port or a dead link |
| `HandlersEnd` | the mutually recursive machines return |
| `HelloInRange` | the hello time in use is one PTX can wait for, whatever BPDUs carry (proved, section 6) |
| `SilenceForgotten` | when neighbours fall silent, what they said is forgotten |
| `ChangeSpreads` | a detected topology change flushes every other active port |
| `NewInfoSent`, `AckSent` | what a port owes (information, a TCN acknowledgement) leaves it |
| *`EventQueue`* | |
| `Counted` | semaphore, granted token and pending post always add up to the length of the list (proved) |
| `TokenIsElement` | who was let through by the semaphore finds an element (proved) |
| `QueueIsFifo` | the threads' interleaved steps are those of `Fifo` (proved) |
| `QueueDelivers` | ... with its liveness: a queued message is taken, unless it is flushed |
| `SendsReturn` | no thread is blocked in a send for ever, above all not while the receiver sleeps |
| *`StpdConfig`* | |
| `Applied` | when nothing waits the protocol runs if, and only if, the database says so, with its priority and instances (proved) |
| `VlansApplied` | ... and with every VLAN on the database's tree, in the table and in the digest (proved) |
| `DigestCurrent` | the digest of a running protocol is that of its VLAN table (proved) |
| `TreesCounted` | `numOfValidTrees` never counts too few (what `mstp_allTransmitReadyCondition` relies on; proved as long as it cannot wrap, section 6) |
| `NeverLive` | a running protocol never sees priority, instances or VLANs change (proved) |
| `Settles` | re-initialisations come to an end |
| *`SwitchPlugin`* | |
| `CopyIsAsic` | the copy says what the ASIC was told (proved) |
| `Reconciles` | one pass brings the ASIC where the database wants it: `Reconciler` (proved) |
| `Converges` | when the writes end the ASIC obeys the database for good: no change escapes notice |

`StpdConfig` and `SwitchPlugin` check a `TypeOK` as well, with more than types in it: no event has an empty VLAN map
(which `mstp_updateMstiVidMapping` asserts), an interface is in the copy of one port only. `EventQueue`'s is no more than
types: a part of the inductive invariant, proved and not listed.

Known cases are written into the properties on purpose. In the new modules:

- `VlansApplied` excepts VLAN maps that change twice between two looks (`hurried`), see section 5.
- `Reconciles` lets an interface of an MSTI stay Disabled although its port is not, and says nothing of
  an interface of the CIST that no port lists, see section 5.

In the engine:

- `MachinesAtRest` allows PRT to owe a *handshake*. `mstp_prtSmBlockPortCond`
  returns FALSE (`mstpd_prt_sm.c:3782`), so a proposal that arrives while a port is
  in BLOCK_PORT waits for the next call. It allows no return to discarding to be owed, which is true among
  neighbours that send MST BPDUs of one region only: see section 5.
- A port whose information loop guard does not let age may have an expired timer, but is then blocked. It need not stay blocked
  when the information is replaced: finding 2.
- A TCN on an internal port leaves `rcvdInternal` false, and the selection uses
  `rcvdInternal`, so roles can be selected again with other costs by the next event.
  `SelectionCurrent` is therefore checked with MST neighbours only.
- A `newInfo` that a tick sets waits for the next hello: `NewInfoSent` is a leads-to, not an invariant.

## 4. Runs

| Run | Instance | Checks | Shows |
|---|---|---|---|
| `pair` | 2 bridges, 2 parallel links, 1 region | `NoLoop`, `Converges` | the bridges are enabled, disabled and reconfigured (twice in all) at any moment of each other's life; no order gives a loop |
| `regions` | the same, 2 regions, 1 MSTI | same | the boundary: the MSTI port takes the CIST role, also MASTER |
| `lossy` | 2 bridges, 1 link | `MachinesAtRest`, `Converges` | one link event and one lost BPDU, at any moment |
| `loopback` | 1 bridge, ports 1-2 cabled, port 3 echoes | `NoLoop`, `EchoBlocked`, `Converges` | self-sent BPDUs; links go down and come up, twice in all, before or after STP is enabled |
| `neighbour` | 1 bridge, 2 ports, 1 MSTI, foreign neighbours | `TypeOK`, `MachinesAtRest`, `Published`, `OnlyActivePasses`, `BlockAllAgrees`, `ChangesQueued`, `AgreementIsSafe` | 3 BPDUs, 3 administrative and 1 link event and a tick in every order |
| `guards` | 1 bridge, 3 ports: loop guard; restricted TCN; restricted role, BPDU filter, admin edge | `HeldInfoIsAlive`, `SelectionCurrent` | unbounded time, 3 BPDUs: two roots and a better one, silence after each of them |
| `silence` | 1 bridge, 2 ports, legacy neighbours | `HelloInRange`, `HandlersEnd`, `SilenceForgotten`, `ChangeSpreads`, `NewInfoSent`, `AckSent` | Config and TCN BPDUs, hello time 0, then silence |
| `events` | 3 senders, 2 messages, memory for 3 | `Counted`, `TokenIsElement`, `QueueIsFifo`, `QueueDelivers`, `SendsReturn` | sends, receipt, flush and failed allocations in every order |
| `config` | 2 MSTIs, 2 VLANs, 2 priorities, 4 commands | `TypeOK`, `Applied`, `VlansApplied`, `DigestCurrent`, `TreesCounted`, `NeverLive`, `Settles` | commands at any moment of looks, handlers and re-initialisations |
| `plugin` | CIST and an MSTI, 1 VLAN, 2 ports, 2 interfaces, 3 writes | `TypeOK`, `CopyIsAsic`, `Reconciles`, `Converges` | three writes of any kind between, before and after passes, any order of walks |
| `master` | 1 bridge, 2 ports, 1 MSTI, both kinds of region | `MasterFollowsCist` | violated: finding 1 |
| `starved` | that of `guards` | `LoopGuardBlocks` | violated: finding 2 |

**Bounds.** `Budget` bounds the events a run may see by kind (`link`, `env`,
`lose`, `admin`); a value of `NoBound` (1000) or more is no bound. Ticks are
unbounded in every run but `neighbour`: time goes on until the reachable states
repeat, which they do because every timer is reset or stays at 0. Times are short
(hello 1 or 2, forward delay 4, maximum age 6, 6 hops; the code's
defaults are 2, 15, 20, 20): what matters is their order (hello < forward delay, 3 hellos <= maximum age)
and the boundary values, and each timer still expires, is reset and is
restarted while others run. Two links between two bridges are the
smallest cabling with a loop; with two trees it has a port of every role
but Backup, which `loopback` has. `WireCap` 3 frames per port is never a limit on
the sender (a full wire drops the frame, which the lossy run shows to be harmless);
for foreign neighbours it is 0: what this bridge sends, nobody reads.
Two administrative events in `pair` are both enables, or an enable followed by a disable,
reconfiguration or enable; three in `neighbour` allow enable, disable, enable with what
survived a disable in between. `CHECK_DEADLOCK FALSE` in these runs: the system does stop
when the budget is used up and no bridge runs the protocol.

`events` has no bound but the memory: three senders are one more than it takes for one to hold
the lock and another to wait for it, and three elements let the list be flushed, refilled and be
read behind its head. Deadlock is checked there. `config` and `plugin` bound the number of
writes (`MaxChanges`, `MaxWrites`) and stop when those are used up. Four commands are an
enable, two MSTIs with a VLAN each and one change more, at any moment of the looks and events they cause; two MSTIs are what the order of ids and the flag that stays set from one to the next need. Three writes
are enough to move an interface, move it back or to a third place and change a state meanwhile,
between any two passes.

**Sizes.** Two bridges with two links and load balancing over an MSTI in one region have
948 thousand states and no loop either; a different MSTI root exceeds 2 million, `pair` with a lost frame 1.7 million.
They are left out for their run time.

**Fairness.** `FairSpec == Spec /\ WF_vars(ThreadStep)`: the running function
takes its next step, and, when the stack is empty, some tick or delivery is
not put off for ever - the protocol thread serves its queue
(`mstpd_ctrl.c`, `mstpd_protocol_thread`), the timer thread posts a tick each second
(`mstp_timerTick`), and wires deliver. Nothing is assumed
of links, administrators and foreign neighbours, and nothing of the order of
ticks and deliveries beyond the two clock assumptions of section 2.

`EventQueue`: weak fairness of every step of a thread that is past the lock and of a failing `malloc` when the memory is full;
strong fairness of taking the lock, for every thread, and of the end of the receiver's work (whoever has the lock gives it up within a few lines,
the senders come to it once an event or a second, and the receiver sleeps without it, so that a thread that waits finds it
free again and again; a handler ends and sends finitely many messages). Nobody has to send.
`StpdConfig`: weak fairness of `Look` (`mstpd_ovs_main_thread` polls for ever) and of
`Handle \/ Reinit`, none of the CLI. `SwitchPlugin`: weak fairness of `Reconfigure`, which
`ops-switchd`'s main loop calls after every change of the database.

## 5. Findings

1. **A Master Port whose CIST port is not Root** (`master`). A superior BPDU from
   another region makes a port CIST Root and MSTI Master; its next BPDU comes from
   this region and makes another port CIST Root. `mstp_pimSmSuperiorDesignatedAct`
   synchronises the MSTIs with the CIST only if `rcvdInternal` is false or the regional root changed
   (`src/mstpd_pim_sm.c:1459`), and `rcvdInternal` is already the new BPDU's. The MSTI
   port stays Master, against `mstpd_pim_sm.c:1766-1795`.
2. **Loop guard lets a port forward that hears nothing** (`starved`). A port that is starved of BPDUs as Alternate Port is
   marked `loopInconsistent` and keeps what it heard. `mstp_updtRolesCist` looks at the mark in its branches for aged
   and for own information (`src/mstpd_util.c:5628`, 5646), but not in the one for received information (5681), which this still is. As soon as another port
   hears of a better root, the bridge's own vector is better than the one it holds, the port becomes Designated, and two forward
   delays later it forwards - what loop guard, by its help text (`include/mstp_vty.h:50`), is to prevent. The MSTIs' branch
   (6263) is the same.

Also met while reading, not the subject of a run:

- `block_all_mstp`, one key for a port, is written once for each tree's message, and the last writer wins (`src/mstpd_ctrl.c:1840`): a port that
  forwards on the CIST and is blocked on an MSTI may end with it true. The comment at `src/mstpd_util.c:7698-7702` ("blocked for the whole Box")
  belongs to `mstp_filterPmapsFromDuplicatePorts`, which would have filtered and is called from nowhere. `BlockAllAgrees` states what does hold.
- The MSTI root is chosen among all ports with received information
  (`mstpd_util.c:5885`), though the comment at 5898 asks for the same region.
- `hadNonZeroCistEPC` is the inverse of what its comment says (`mstpd_util.c:5229`, 5359).
- The informer's loop for MSTIs without STP skips the last MSTI (`mstpd_ctrl.c:1907`).
- Disabling STP writes Forwarding to `port_state` and leaves `block_all_mstp` as it is (`mstpd_dyn_reconfig.c:360`).
- `fdbFlush` is never set, and MASTERED is a state no condition leads to.
- *VLANs swapped between two looks.* `mstp_msti_update_config` compares VLANs by their number
  (`mstpd_ovsdb_if.c:2243`), and so does the CIST's. A map that changes twice before the OVSDB thread looks -
  `instance 1 vlan v`, (look), `no instance 1`, `instance 1 vlan w`, (look) - is never sent: the protocol keeps v, and
  the digest with it, until something else re-initialises. `VlansApplied` without `~ hurried` shows it.
- *The CIST's VLANs.* Every wipe empties the CIST's entry of `mstp_MstiVidTable` (`mstpd_init.c:678`), and the comments at
  `mstpd_dyn_reconfig.c:256` and `mstpd_init.c` ("By default all VLANs ... will be mapped to the CIST") describe a refill that
  `mstp_initMstiVlanTables` does not do. The digest does not change, as a VLAN in no map hashes as one of the CIST.
- *`numOfValidTrees`* is incremented by every update of an MSTI, not only by the first (`mstpd_ctrl.c:1645`), and is
  eight bits wide: 256 updates while the protocol is disabled bring it to 0, and enabling then meets the
  assertion at `mstpd_util.c:6635`.
- *Instances without VLANs.* An MSTI whose VLAN rows are deleted is sent with an empty map, which
  `mstp_updateMstiVidMapping` asserts against (`mstpd_dyn_reconfig.c:429`). The CLI refuses to take an instance's
  last VLAN (`mstp_vty.c:1799`); the model has no other way to lose one.
- *Two writers of the CIST's VLAN list*, daemon and CLI, each of which writes the whole list back (`mstpd_ovsdb_if.c:3630`,
  `mstp_vty.c:1669`).
- *An interface that moves between ports of an MSTI* can be told Disabled by the port it left after the port it joined
  opened it, when the hash map is walked in that order, and stays closed until that port's state changes next. On
  the CIST an interface that no port lists any more keeps its last state, Forwarding included.
- `update_l2port_cache` looks only when the *number* of ports differs from the bridge's.
- `update_mstp_cist_config`, and the tick, would return with the OVSDB lock held if a transaction could not be created
  (`mstpd_ctrl.c:1185`, `mstpd_pti_sm.c:324`, 393); `ovsdb_idl_txn_create` does not return NULL, so they do not.
- If `mstp_config_reinit` did not empty the queue first, an `admin` event from before it would disable and re-enable
  the protocol for ever: the mutant of `Settles`.
- *A tick may leave a return to discarding to the next call.* ALTERNATE_PROPOSED sets `sync` on every port of its tree
  (`mstp_setSyncTree`, `mstpd_prt_sm.c:3892-3896`) and calls none of their PRTs. In the handler of a timer tick nobody else
  does either once the siblings' turn is over, so a Master Port goes on forwarding, with `sync` set and `synced` clear, until
  the next event that calls its PRT, a second later at most. TLC meets it in simulations of three ports with external and legacy neighbours at once.
- After ALTERNATE_PROPOSED a port that becomes Root may keep both `sync` and `synced`.

## 6. Proofs

Twenty-five theorems hold for every value of the constants:

    THEOREM TypesHold           == Spec => []TypeOK          (StpdTypeProofs)
    THEOREM ChangesAlwaysQueued == Spec => []ChangesQueued
    THEOREM StackHolds          == Spec => []StackInv        (StpdStackProofs)
    THEOREM AlwaysReleased      == Spec => []Released
    THEOREM HelloAlwaysInRange  == Spec => []HelloInRange    (StpdHandlerProofs)
    THEOREM AgreementHolds      == Spec => AgreementIsSafe
    THEOREM PublishedHolds      == Spec => []Published
    THEOREM DecisionsArePublished == Spec => []DecisionsPublished
    THEOREM PassingPortsAreActive == Spec => []OnlyActivePasses
    THEOREM BlockAllHolds       == Spec => []BlockAllAgrees
    THEOREM SelectionsAnswered  == Spec => []RolesSelected   (StpdSelectionProofs)

    THEOREM NeverSleepsLocked   == Spec => []SleepsUnlocked  (EventQueueProofs)
    THEOREM SemaphoreCounts     == Spec => []Counted
    THEOREM TokenHasElement     == Spec => []TokenIsElement
    THEOREM ImplementsFifo      == Spec => QueueIsFifo

    THEOREM ConfigTypes         == Spec => []TypeOK          (StpdConfigProofs)
    THEOREM DigestIsCurrent     == Spec => []DigestCurrent
    THEOREM ConfigIsApplied     == Spec => []Applied
    THEOREM NeverLiveHolds      == Spec => NeverLive
    THEOREM VlansAreApplied     == Spec => []VlansApplied
    THEOREM VlansAreOnOneTree   == Spec => []VlansOnOneTree
    THEOREM TreesAreCounted     == FewChanges => (Spec => []TreesCounted)

    THEOREM PluginTypes         == Spec => []TypeOK          (SwitchPluginProofs)
    THEOREM CopyIsTrue          == Spec => []CopyIsAsic
    THEOREM PluginReconciles    == Spec => Reconciles

The first eleven, for every set of bridges, ports and trees, every
configuration and every BPDU a neighbour may send, rest on `ConstantsAssumption` (`MstpBase`); the others on
`ThreadAssumption`, `ConfigAssumption` and `PluginAssumption` of their modules. TLC evaluates
these in the runs, and the theorems rest on nothing else, but for `TreesAreCounted`, which holds for as many commands as an
8-bit counter can count.

**Types.** `TypeOK` is inductive as it stands. It has five parts (`PortTypes`, `TreeTypes`,
`BridgeTypes`, `DbTypes`, `NetTypes`), and there is one lemma `XTypes` per machine:
`ASSUME TypeOK, XSm(..) PROVE TypeOK'`; `KeptTypes` disposes of the parts a machine
leaves alone. What is not mere bookkeeping:

1. `txCount` is in `0..TxHoldCount`, not just a number. The three transmitting states of PTX add one
   without a test of their own; they are only entered from IDLE, whose
   condition tests it (`TransmitsBelowHoldCount`). Were one of them reachable
   otherwise, `TypeOK` would not be inductive.
2. Timers are C unsigned numbers. `DownType` and the `TickXxxTypes` lemmas show that none is
   decremented at zero.
3. The root record (`NewRootType`), the role of each port (`RoleForType`) and what
   is recorded from a BPDU (`MessageTypes`, `RecordedTypes`) are defined for every
   combination of received information; in particular `RoleFor` never leaves the
   set of roles when an MSTI follows the CIST at a boundary.

The stack has no type in `TypeOK`, as no other variable is computed from a frame without a
test of the machine it names; `StackInv` gives it one.

**Calls.** `StackInv` says that a stack that is not empty holds calls of one bridge that runs the
protocol, each of a known function, that the call of `mstp_informDBOnPortStateChange` (and nothing but the pending
transmission) is below all calls of machines, and that whoever set `begin` or
`preventTx` has left a frame that clears it. It is inductive, because a function only replaces its own
frame by itself and calls of its own bridge (`Extends`; `JoinCalls` for calls made in loops over ports
and trees). What the empty stack gives is the base of every statement about the moments between
events: nobody is awaited, so `begin` and `preventTx` are clear (`Released`), and, below, no call of PST is outstanding.

**Hello time.** `HelloInRange` is not inductive: in UPDATE a port takes its hello time
from the bridge's root record, which Port Role Selection filled from
the Root Port in an earlier call. The inductive invariant adds that record:

    HelloInv == HelloInRange /\ \A b : root[CIST][b].port # NoPort => root[CIST][b].times.hello \in 1..10

Times flow in a circle, BPDU -> port (`mstp_recordTimes`, the only place that clamps) -> root record ->
other ports -> BPDU, and `PimRecordKeepsHello`, `PrsKeepsHello`, `PimUpdateKeepsHello` are its three
arcs. A bridge without a Root Port uses its configured `HelloTime`; without
that case the record of a bridge that is the root, whose hello time is 0, would be used.

**Queue.** `ChangesQueued` is not inductive by itself: to append to the queue in a useful way
the queue must be a sequence and the tables must have an entry for the tree and the port. The inductive
invariant is

    QueueInv == QueueType /\ \A t, p : pend[t][p] # "none" \/ flushReq[t][p] => InQueue(t, Owner[p])

where `QueueType` gives the types of `pend`, `flushReq`, `treeQ`. The argument:

1. `PortMachinesKeepQueue`, `TreeMachinesKeepQueue`, `EventsKeepQueue`: all
   machines but PST and TCM, and all events but those that clear protocol data, leave the three
   variables alone - one step per machine and event.
2. `EnqueuedHolds`: after queuing a tree's message the tree is in the queue and nobody has
   left it. `RequestKeepsQueueInv`: hence a PST move or a TCM flush keeps the invariant.
3. `InformDBStep`: only the timer's call removes messages, and it clears the changes *and*
   the flushes; another call clears changes only, and removes nothing.
4. `Disable`, `Reconfigure` clear all three for the bridge's own ports; those of other bridges have
   their messages in other queues.

A run of TLC checks the same property (`neighbour`); the mutant that removes messages at every
event, with their flushes still pending, violates it.

**Agreement.** No machine but PRT ever sets `agree` (`PortMachinesAgree`, `TreeMachinesAgree`, `PimAgree`, `EventsAgree`), PRT sets
only its own port's, and does so in four states, which it enters for a port that has not agreed only when
`mstp_AllSyncedCondition` holds (`AgreesWhenSynced`; a port that was left in one of them leaves it). For a Root Port that condition asks
every sibling to be synced, edge port or not, which is a little more than the property asks.

**Port states.** `Published` compares what the database has with PST's state. Two inductive invariants carry it, on top of
`TypeOK` and `StackInv`.
`PstInv` is about PRT and PST: `forward` is never set without `learn`, the bits `learning` and `forwarding` are PST's state, while
the bridge is in BEGIN nothing is learnt, and PST is at rest *or has just been called and runs
next*. The last part is what the others are for: PRT sets or clears `learn` and `forward` in eleven of
its states, and in each of them, outside BEGIN, PST's call is the first the action makes, so no other machine ever runs while
PST would leave its state. In BEGIN nothing calls PST, and nothing is set.
`DbInv` is about the way to the database: a queued change is the state PST is in, and the informer is
still to come on the stack; where none is queued the database already has the state. A bridge that has just
been enabled is the exception, its PST in no state yet, and there the call that will put it in one is still on
the stack *above* the end of BEGIN (`PstDue`). With an empty stack
both exceptions are impossible (`RestsPublished`). `DecisionsArePublished` draws the
conclusion for PRT: what it last decided in `learn` and `forward` is what the switch was told.

**Roles.** `OnlyActivePasses` says that the role behind a port that is not blocked is an active one. The role changes in one
step of PRT, `learn` and `forward` in another, and `selectedRole` in PRS; between them anything the machines call may run.
The inductive invariant, `RoleInv`, follows PRT's state: in the states of an active role the port has that
role, only in these is `learn` set, and a role has been selected for it. What makes it inductive is the do-while of `mstp_prtSm`:
a state such as DESIGNATED_LEARN is left without looking at the role selected (the general condition is tested when the call begins, not when it
loops), so `RoleInv` also says that PRT is in such a state only while its loop is on the stack (`InLoop`), and that until the loop ends
the role selected is the role it has. That needs one fact more: nobody selects a role meanwhile. `LoopsAlone` says so of the stack: above
a PRT in its loop there are calls of `Quiet` machines only (PST, TCM, the propagation of a topology change, PTX), of which none calls PRS, PIM or another PRT
(`CalledBy`, `RunStepKeepsLoopsAlone`). `PrtEntersRole` then gives, for each state PRT may enter, the role it finds there, and `PrtPasses`,
`PrtTakes`, `PrtKeepsQuiet` and `PrtLeavesLoop` are the four ways a step ends. A port may only come from an active role to a
blocked one through INIT, DISABLE or BLOCK, which clear `learn` as they take the role; and as PST is called by them before anything
else (`PstInv`) and the change is written before the next event (`DbInv`), the database follows.

**One key for all trees.** `block_all_mstp` is written by each tree's message in turn, with no look at the other trees. `BlockAllAgrees` holds because
the *last* writer always tells the truth of its own tree, and any other tree's state is that tree's last word. The invariant, `BlockInv`,
keeps for each port a witness: a tree that is not Forwarding though the key is set, or not Blocking though it is clear (`BlockOK`), or a tree with a
change still queued, or one whose PST is in no state yet. A move of PST trades the first for the second, the message
the second for the first (`InformDBKeepsBlockInv`), and `RestsPublished` says that between events only the first is left. Enabling
needs the third: it starts with the key as the last run left it.

**Selection.** `reselect` asks `mstp_updtRolesTree` for new roles, and `selected` tells PRT and PIM that they have them. Port Information sets the one and clears the
other in four places, in the midst of calls from anywhere, and in BEGIN it calls nobody; only PRS gives an answer, for all ports of the tree at once.
`RolesSelected` is inductive only with what is on the way, and that is a statement about positions on the stack (`Has`: a frame is there; `Under`: it
is there with only certain frames above it). `SelInv` says of each tree of a bridge that runs the protocol:

1. If a selection is outstanding (`Unselected`: PRS is in another state, or some port has `reselect`) a call of PRS for that tree is on the stack. Who clears `selected`
   or sets `reselect` outside BEGIN has pushed that call in the same step (`PimAsks`), and PRS leaves the stack only by an answer or because
   nobody asks (`PrsEffects`). A call of PRS that has entered INIT_TREE is at the head until it has selected.
2. PRS is in no state only in BEGIN, with the call that initialises it on the stack above `BEGIN_DONE`; PIM of a port is in no state only
   before that, with its own first call on the stack below calls of PIM alone. Together with the next point this is why the first selection finds every PIM
   DISABLED and every port asking: a port whose PIM had not run would never be `selected`.
3. A port's link is enabled only outside BEGIN, and until then PIM stays DISABLED.
4. Once PRS has selected, each port is `selected` or asks for it again.

Point 1 fails without point 2 for a bridge that is just being enabled, where PIM asks and nobody calls PRS. With the stack empty nothing is awaited, and
`RolesSelected` is what is left.

**Event queue.** `Counted` is not inductive: it must be known who is between `insque` and
`sem_post`, and that it is one thread only. The inductive invariant adds that the mutex is held by that thread, and by no thread that is not between lock and unlock (`MutexHeld`),
that the receiver sends and frees only while it works (`Working`), and that a message is in the hand
of the thread that allocated it. The refinement then follows step by step: `Link` is `Send`, `Unlink` is `Receive`
(which needs `TokenIsElement`), `Drain` is `Flush`, all others stutter. `SleepsUnlocked` is what can be
proved of `SendsReturn`: nobody sleeps with the lock.

**Configuration.** `Applied` speaks of a state in which the queue is empty; the invariant must say
what a queue that is not empty amounts to. For each value that events set - the priority, the status, the presence of each MSTI - the *last* event of the queue
that sets it sets it to what the caches hold, and if there is none the protocol has that value already (`Mirrors`). A look appends events that lead from the old caches to the new ones
(`EventsMirror`: each instance is mentioned once, because the sequence of events is a bijection with the set of ids); a handler takes
the first one (`HandleMirror`); a re-initialisation starts from cleared caches and a wiped
protocol, which mirror each other (`ReinitMirror`). With `Holds` - the caches hold the replica unless `fresh` -
an empty queue gives `Applied`. `DigestCurrent` is inductive given that an MSTI without info has an empty table entry
(`InfoIsTable`). `NeverLive` follows from the lemmas on the handlers: each of them sets
the re-initialisation flag if it changes anything of a running protocol.

**VLANs on their trees.** `mstp_updateMstiVidMapping` takes the VLANs it gives an instance from the CIST only, never from another
instance. That no VLAN gets on two trees is thus a question of the *order* of events: a VLAN that moves must be taken from
one instance before it is given to the other. `Mirrors` cannot say that; `VlanInv` therefore follows the whole queue. `Walk(q, x, y)`:
the events of q, taken one by one, lead from the map x to the map y, and on every map on the way no VLAN is on two trees.
The invariant is that the queue walks from the protocol's table to the caches, that database, replica and caches
are disjoint maps, the latter two at most one command away from the database (`Near`): one instance
differs, and if it has VLANs in both maps it has another number of them - which is why comparing by number is enough, unless a map changed twice between two looks (`hurried`). A
look appends a walk (`EventsWalk`: any order of updates of two maps one command apart is one), a handler takes its first step, a
wipe starts from empty maps (`NothingCached`). With an empty queue the table is the database's map (`WalkEnds`): `VlansApplied`. And at
any other moment the table is the first map of the walk: `VlansOnOneTree`.

**Trees in use.** `numOfValidTrees` is incremented by *every* update of an MSTI and decremented by a deletion of one in use, so it may count too much, never
too little - if it does not wrap. `CountInv` gives it two bounds. From below: with the CIST, counted or not yet, at
least one more than the MSTIs in use. From above: what it counts, the updates that wait in the queue and those the next look will send (`Due`) are together no more than
one update of each MSTI per command given. `UpdatesSent`: a look turns what is due into events, one each. The CIST's
event is the first after every wipe, so that the protocol never starts with the CIST uncounted. `FewChanges`, `1 + MaxMsti * (1 + MaxChanges) <= 255`,
then keeps the counter below 256; beyond it TLC finds the counter at 0, as section 5 tells.

**Plugin.** The inductive invariant, `CopyTrue`, strengthens `CopyIsAsic` by the interfaces that no port of the copy has: they are closed on an MSTI. The core is
what the last of several calls was: `GreatestOf` (a finite non-empty set of times has a greatest one),
`ToldLast` (the ASIC keeps the call with the greatest time), `CallTimes` (two calls with the same time carry the same state, because
a walk comes to one port at a time). From these `OwnedState`: an interface in a port of the database ends in that port's state or, on an MSTI, Disabled;
`UnownedState`: one in no port ends Disabled on an MSTI. `PluginReconciles` is the refinement: a write
is `Change` and leaves the ASIC alone, `Reconfigure` is `Reconcile`.

## 7. What is only model-checked

Liveness (`Converges`, `HandlersEnd`, `SilenceForgotten`, `ChangeSpreads`,
`NewInfoSent`, `AckSent`, `QueueDelivers`, `SendsReturn`, `Settles`, the plugin's `Converges`) and `ENABLED` are out of the prover's reach.
Invariants that are not proved:

- `NoLoop` and `EchoBlocked`: the whole argument of the protocol, across bridges and forward delays.
- `MachinesAtRest` beyond `RolesSelected`, and `SelectionCurrent`: every machine must be shown to have been called after the last
  change of anything it reads, which needs for all ten machines what `PstInv` and `PstDue` say of one. Neither holds of every network:
  a return to discarding may be owed (section 5), and `SelectionCurrent` needs MST neighbours (section 3).
- `HeldInfoIsAlive`: rests on the two before, for PIM and PRT.
- `TreesCounted` beyond `FewChanges`: it does not hold there, the counter wraps.

## 8. What is not modelled

- Ports added and removed while STP runs (`mstp_addLport`, `mstp_removeLport`), and the port and interface caches
  that lead to them. The engine's ports are constants; a set of present ports would enter every
  loop over ports, and with it every operator and proof of the engine.
- The branches of `mstpd_pti_sm.c:324`, 393 and `mstpd_pim_sm.c:1186` for a transaction that cannot be created: never taken.
- Per-port configuration events, and the times, hop count and hold count of the CIST, which a running protocol takes over in
  place. In `Stpd` a change of configuration is `Reconfigure`, followed by a later `Enable`, and constants do not change;
  what the change is, and when the `Enable` comes, is the subject of `StpdConfig`.
- OVSDB's transactions: a command of the CLI is one atomic step that succeeds.
- The plugin's `mstp_inform_stp_global_port_state` (it turns `block_all_mstp` into one more state of an interface, section 5),
  its dumps, and `port_state` strings outside the enumeration.
- `MSTP_NON_STP_BRIDGE` messages as queue entries: a link event without STP writes
  the database in one step, which nothing can interleave with.
- In `Stpd` the event queue is part of `wire`, which holds what is on the wire or in
  the queue for a port; disabling empties it (`ClearProtocolData`). `EventQueue` shows that a queue is all it is.
- The `master` and `mastered` bits of an MSTI (`mstp_recordMastered`, `mstpd_util.c:3270`): only a flag of the BPDUs and the
  dumps depend on them.
- The order in which `mstp_tcmSm`'s DETECTED sets `newInfo` and spreads the change: `TcmDetected` sets it first, and no
  call in between reads it.
- One port priority for all trees of a port. BPDU guard's re-enable timer, traps, statistics, show
  and debug output, what the CLI prints, HMAC-MD5, options and start-up of the daemon.

## 9. Plan

Done: the protocol engine with three families of instances and the theorems on its calls, types, message queue, hello times, agreements,
port states, the database with its key for all trees, roles, and their selection; the event queue and the plugin with their abstract specifications and the refinements proved; the
configuration with its theorems, VLANs included.
What would come next, in this order:

1. *Dynamic ports.* `mstp_addLport` and `mstp_removeLport` as events of `Stpd`, with a port set as state;
   a run that removes the Root Port while others propose.
2. *Database.* The informer with `MSTP_NON_STP_BRIDGE` messages, and an abstract
   specification of the database (each port's state is written in the order it changed, and nothing else is written)
   that `Stpd` implements under a refinement mapping.
3. *Abstract spanning tree.* A specification of the handshake (ports of a link, forwarding only after agreement or
   two forward delays) that the pair instances refine.
4. *Composition.* `StpdConfig`'s priority, instances and VLAN table in the place of `Stpd`'s constants, so that a region boundary
   appears and disappears under a running network.
5. *Proofs.* The role's part of `MachinesAtRest` (when a handler ends, no selected role is left that PRT has not taken), from who calls
   PRT after a selection; with it that a port whose link is down is blocked, then `HeldInfoIsAlive`.
