----------------------------- MODULE StpdConfig -----------------------------
(***************************************************************************)
(* How a configuration reaches the protocol.  The CLI writes the database; *)
(* the OVSDB thread of ops-stpd looks at its replica, compares it with     *)
(* what it sent last and queues an event per difference; the Protocol      *)
(* thread handles the events, and when one changes what a running protocol *)
(* works with, or when the protocol is disabled, it wipes its data,        *)
(* empties the queue and has everything sent again (mstp_config_reinit).   *)
(*                                                                         *)
(* mstpd_run and mstp_config_reinit both hold the OVSDB lock, so each is   *)
(* one step.  Queue operations are those of Fifo, which EventQueue         *)
(* implements.  The bridge priority of the CIST stands for every value     *)
(* whose change re-initialises the protocol (MSTI priorities, the region's *)
(* name and revision); times, hops and the hold count are taken over by    *)
(* the running protocol and left out.  Ports, BPDUs and ticks are in Stpd. *)
(***************************************************************************)
EXTENDS Integers, Sequences, FiniteSets

CONSTANTS MaxMsti,   \* the highest MSTI id in use, at most 64
          Vlan,
          Priority,
          Cleared,   \* a value wiped by memset: no row holds it
          MaxChanges \* bound: changes of the configuration

ASSUME ConfigAssumption ==
  /\ MaxMsti \in 1 .. 64
  /\ Cleared \notin Priority
  /\ MaxChanges \in Nat

CistId == 0
Msti == 1 .. MaxMsti
TreeCount == 0 .. 255  \* uint8_t

VARIABLES
  db,      \* the database
  replica, \* the daemon's copy of it, brought up to date by ovsdb_idl_run
  fresh,   \* the replica changed after the last mstpd_reconfigure
  conf,    \* mstp_global_conf, mstp_cist_conf, msti_lookup: what was sent
  queue,   \* the events of the Protocol thread
  mstp,    \* what the Protocol thread works with
  changes, \* changes of the configuration so far
  unseen,  \* VLAN maps changed and neither thread has looked yet
  hurried  \* history: VLAN maps changed twice between two looks

env == <<db, changes>>
vars == <<db, replica, fresh, conf, queue, mstp, changes, unseen, hurried>>

\* an instance without VLANs has no row, msti_lookup or MSTI info
Config == [enable : BOOLEAN, priority : Priority, msti : [Msti -> SUBSET Vlan]]
NoConf == [enable |-> FALSE, priority |-> Cleared, msti |-> [m \in Msti |-> {}]]

Event == [type : {"cist"}, priority : Priority]
         \cup [type : {"msti"}, mstid : Msti, vlans : (SUBSET Vlan) \ {{}}]
         \cup [type : {"delete"}, mstid : Msti]
         \cup [type : {"admin"}, status : BOOLEAN]

Digest == [Vlan -> {CistId} \cup Msti]

Mstp == [spanning : BOOLEAN,                        \* Spanning
         dyn      : BOOLEAN,                        \* MSTP_DYN_RECONFIG_CHANGE
         cist     : Priority \cup {Cleared},        \* Cleared: not MSTP_CIST_VALID
         info     : SUBSET Msti,                    \* MSTP_MSTI_INFO is not NULL
         table    : [{CistId} \cup Msti -> SUBSET Vlan], \* mstp_MstiVidTable
         digest   : Digest \cup {Cleared},          \* MstConfigId.digest
         trees    : TreeCount]                      \* numOfValidTrees

TypeOK ==
  /\ db \in Config /\ replica \in Config /\ fresh \in BOOLEAN
  /\ conf \in Config \cup {NoConf}
  /\ queue \in Seq(Event)
  /\ mstp \in Mstp
  /\ changes \in 0 .. MaxChanges
  /\ unseen \in BOOLEAN /\ hurried \in BOOLEAN

Init ==
  /\ db \in [enable : BOOLEAN, priority : Priority, msti : {[m \in Msti |-> {}]}]
  /\ replica = db /\ fresh = TRUE
  /\ conf = NoConf
  /\ queue = <<>>
  /\ mstp = [spanning |-> FALSE, dyn |-> FALSE, cist |-> Cleared, info |-> {},
             table |-> [t \in {CistId} \cup Msti |-> IF t = CistId THEN Vlan ELSE {}],
             digest |-> Cleared, trees |-> 0]
  /\ changes = 0
  /\ unseen = FALSE /\ hurried = FALSE
-----------------------------------------------------------------------------
(* commands of the CLI, each one transaction, one VLAN in each *)

Change(new) ==
  /\ changes < MaxChanges
  /\ changes' = changes + 1
  /\ db' = new
  /\ unseen' = (unseen \/ new.msti # db.msti)
  /\ hurried' = (hurried \/ (unseen /\ new.msti # db.msti))
  /\ UNCHANGED <<replica, fresh, conf, queue, mstp>>

\* spanning-tree, no spanning-tree
CliEnable == Change([db EXCEPT !.enable = ~ @])

CliPriority(p) == p # db.priority /\ Change([db EXCEPT !.priority = p])

\* spanning-tree instance M vlan V: refused if V is mapped to an instance
CliMap(m, v) ==
  /\ \A k \in Msti : v \notin db.msti[k]
  /\ Change([db EXCEPT !.msti[m] = @ \cup {v}])

\* no spanning-tree instance M vlan V: refused for the only VLAN of M
CliUnmap(m, v) ==
  /\ v \in db.msti[m]
  /\ db.msti[m] # {v}
  /\ Change([db EXCEPT !.msti[m] = @ \ {v}])

\* no spanning-tree instance M
CliNoInstance(m) == db.msti[m] # {} /\ Change([db EXCEPT !.msti[m] = {}])

Cli ==
  \/ CliEnable
  \/ \E p \in Priority : CliPriority(p)
  \/ \E m \in Msti : \/ CliNoInstance(m)
                     \/ \E v \in Vlan : CliMap(m, v) \/ CliUnmap(m, v)
-----------------------------------------------------------------------------
(* the OVSDB thread: what the mstp_*_config_update functions send for the  *)
(* rows r when the caches hold c, and what the caches hold then            *)

New(c, r, m) == r.msti[m] # {} /\ c.msti[m] = {}

\* VLANs are compared by their number
Differs(c, r, m) ==
  /\ r.msti[m] # {} /\ c.msti[m] # {}
  /\ Cardinality(c.msti[m]) # Cardinality(r.msti[m])

\* mutant: also for the instances whose VLANs are gone
ResentGone(c, r, m) == New(c, r, m) \/ \E k \in 1 .. m : Differs(c, r, k)

\* config_change stays TRUE for the instances after one that differs
Resent(c, r, m) ==
  \/ New(c, r, m)
  \/ r.msti[m] # {} /\ \E k \in 1 .. m : Differs(c, r, k)

Cached(c, r) ==
  [enable |-> r.enable, priority |-> r.priority,
   msti |-> [m \in Msti |-> IF r.msti[m] = {} \/ New(c, r, m) \/ Differs(c, r, m)
                            THEN r.msti[m] ELSE c.msti[m]]]

\* the events of the instances ids, in the order of their ids
Nth(ids, i) == CHOOSE m \in ids : Cardinality({k \in ids : k <= m}) = i
EventsFor(ids, event) == [i \in 1 .. Cardinality(ids) |-> event[Nth(ids, i)]]

CistEvents(c, r) ==
  IF c.priority = r.priority THEN <<>>
  ELSE <<[type |-> "cist", priority |-> r.priority]>>

Updated(c, r) == {m \in Msti : Resent(c, r, m)}
Deleted(c, r) == {m \in Msti : r.msti[m] = {} /\ c.msti[m] # {}}

MstiEvents(c, r) ==
  EventsFor(Updated(c, r),
            [m \in Msti |-> [type |-> "msti", mstid |-> m, vlans |-> Cached(c, r).msti[m]]])
  \o EventsFor(Deleted(c, r), [m \in Msti |-> [type |-> "delete", mstid |-> m]])

AdminEvents(c, r) ==
  IF c.enable = r.enable THEN <<>> ELSE <<[type |-> "admin", status |-> r.enable]>>

Events(c, r) == CistEvents(c, r) \o MstiEvents(c, r) \o AdminEvents(c, r)

\* mstpd_run, mstpd_reconfigure
Look ==
  /\ replica # db \/ fresh
  /\ replica' = db
  /\ fresh' = FALSE
  /\ queue' = queue \o Events(conf, db)
  /\ conf' = Cached(conf, db)
  /\ unseen' = FALSE
  /\ UNCHANGED <<db, mstp, changes, hurried>>
-----------------------------------------------------------------------------
(* the Protocol thread: s is what it works with *)

\* mstp_getMstIdForVid for every VLAN: the CIST is looked at first
DigestOf(table) ==
  [v \in Vlan |->
     IF v \in table[CistId] \/ \A m \in Msti : v \notin table[m] THEN CistId
     ELSE CHOOSE m \in Msti : v \in table[m] /\ \A k \in 1 .. m - 1 : v \notin table[k]]

\* update_mstp_cist_config
CistConfig(s, p) ==
  [s EXCEPT !.cist = p,
            !.trees = IF s.cist = Cleared THEN (@ + 1) % 256 ELSE @,
            !.dyn = @ \/ (s.spanning /\ s.cist # p)]

\* mutant: the CIST keeps the VLANs
MappedTwice(table, m, vlans) == [table EXCEPT ![m] = vlans]

\* mstp_updateMstiVidMapping
Mapped(table, m, vlans) ==
  [t \in DOMAIN table |->
     CASE t = m -> vlans
       [] t = CistId -> (table[t] \cup (table[m] \ vlans)) \ (vlans \ table[m])
       [] OTHER -> table[t]]

\* update_mstp_msti_config
MstiConfig(s, m, vlans) ==
  LET table == Mapped(s.table, m, vlans)
      live  == s.spanning /\ table # s.table
  IN  [s EXCEPT !.info = @ \cup {m},
                !.table = table,
                !.digest = IF live THEN DigestOf(table) ELSE @,
                !.dyn = @ \/ live,
                !.trees = (@ + 1) % 256]

\* the VLANs of the instances ids go back to the CIST
Unmapped(table, ids) ==
  [t \in DOMAIN table |->
     CASE t = CistId -> table[t] \cup UNION {table[m] : m \in ids}
       [] t \in ids -> {}
       [] OTHER -> table[t]]

\* delete_mstp_msti_config
MstiDelete(s, m) ==
  IF m \notin s.info THEN s
  ELSE LET table == Unmapped(s.table, {m})
       IN  [s EXCEPT !.info = @ \ {m}, !.table = table, !.digest = DigestOf(table),
                     !.dyn = TRUE, !.trees = (@ - 1) % 256]

\* mutant: MSTP_CIST_VALID survives
WipedButCist(s) ==
  [s EXCEPT !.spanning = FALSE, !.dyn = FALSE, !.info = {},
            !.table = [Unmapped(s.table, s.info) EXCEPT ![CistId] = {}],
            !.digest = Cleared, !.trees = 0]

\* mstp_clearProtocolData; Spanning = FALSE
Wiped(s) ==
  [s EXCEPT !.spanning = FALSE, !.dyn = FALSE, !.cist = Cleared, !.info = {},
            !.table = [Unmapped(s.table, s.info) EXCEPT ![CistId] = {}],
            !.digest = Cleared, !.trees = 0]

\* mutant: the digest is built only when the map changes
StartedUnsigned(s) == [s EXCEPT !.spanning = TRUE, !.dyn = FALSE]

\* mstp_adminStatusUpdate(TRUE), when the protocol does not run
Started(s) ==
  [s EXCEPT !.spanning = TRUE, !.digest = DigestOf(s.table), !.dyn = FALSE]

\* the case of the event in mstpd_protocol_thread
After(s, e) ==
  CASE e.type = "cist" -> CistConfig(s, e.priority)
    [] e.type = "msti" -> MstiConfig(s, e.mstid, e.vlans)
    [] e.type = "delete" -> MstiDelete(s, e.mstid)
    [] e.type = "admin" -> IF e.status /\ ~ s.spanning THEN Started(s) ELSE s

\* mutant: changes take effect in the running protocol
MustReinitOnAdmin(e) == e.type = "admin" /\ ~ e.status /\ mstp.spanning

\* the event disables the protocol, or changes what it runs with
MustReinit(e) ==
  \/ e.type = "admin" /\ ~ e.status /\ mstp.spanning
  \/ After(mstp, e).spanning /\ After(mstp, e).dyn

\* a commit to the database inside the handler may update the replica
Commits ==
  /\ replica' \in {replica, db}
  /\ fresh' = (fresh \/ replica' # replica)

Handle ==
  /\ queue # <<>>
  /\ ~ MustReinit(Head(queue))
  /\ mstp' = After(mstp, Head(queue))
  /\ queue' = Tail(queue)
  /\ Commits
  /\ UNCHANGED <<db, conf, changes, unseen, hurried>>

\* mutant: what was sent is remembered
ReinitFromCaches ==
  /\ queue # <<>>
  /\ MustReinit(Head(queue))
  /\ mstp' = Wiped(After(mstp, Head(queue)))
  /\ Commits
  /\ queue' = Events(conf, replica')
  /\ conf' = Cached(conf, replica')
  /\ unseen' = (unseen /\ replica' # db)
  /\ UNCHANGED <<db, changes, hurried>>

\* mutant: the queue is not emptied
ReinitUnflushed ==
  /\ queue # <<>>
  /\ MustReinit(Head(queue))
  /\ mstp' = Wiped(After(mstp, Head(queue)))
  /\ Commits
  /\ queue' = Tail(queue) \o Events(NoConf, replica')
  /\ conf' = Cached(NoConf, replica')
  /\ unseen' = (unseen /\ replica' # db)
  /\ UNCHANGED <<db, changes, hurried>>

\* mstp_checkDynReconfigChanges, mstp_adminStatusUpdate(FALSE):
\* mstp_clearProtocolData and mstp_config_reinit
Reinit ==
  /\ queue # <<>>
  /\ MustReinit(Head(queue))
  /\ mstp' = Wiped(After(mstp, Head(queue)))
  /\ Commits
  /\ queue' = Events(NoConf, replica')
  /\ conf' = Cached(NoConf, replica')
  /\ unseen' = (unseen /\ replica' # db)
  /\ UNCHANGED <<db, changes, hurried>>

Next == Cli \/ Look \/ Handle \/ Reinit

Spec == Init /\ [][Next]_vars

\* both threads loop for ever: mstpd_ovs_main_thread polls the database and
\* mstpd_protocol_thread waits for the next event
FairSpec == Spec /\ WF_vars(Look) /\ WF_vars(Handle \/ Reinit)
-----------------------------------------------------------------------------
Settled == queue = <<>> /\ replica = db /\ ~ fresh

\* When no event waits the protocol runs if and only if the database enables
\* it, with the database's values and instances, whatever was flushed by
\* re-initialisations on the way.
Applied == Settled =>
  /\ mstp.spanning = db.enable
  /\ mstp.cist = db.priority
  /\ mstp.info = {m \in Msti : db.msti[m] # {}}

\* ... and every VLAN is on the tree the database maps it to, in the table
\* and in the digest that decides which neighbours are in this region.  VLAN
\* maps that change twice between two looks are excepted: see the README.
VlansApplied == Settled /\ ~ hurried =>
  /\ \A m \in Msti : mstp.table[m] = db.msti[m]
  /\ mstp.spanning => \A v \in Vlan, m \in Msti : mstp.digest[v] = m <=> v \in db.msti[m]

\* While the protocol runs the digest in its BPDUs is that of the table that
\* decides which VLANs its trees carry, between any two events.
DigestCurrent == mstp.spanning => mstp.digest = DigestOf(mstp.table)

\* mstp_allTransmitReadyCondition looks at the MSTIs only if numOfValidTrees
\* is above 1: it never counts too few, whatever was deleted, resent or wiped.
TreesCounted == mstp.spanning => mstp.trees >= 1 + Cardinality(mstp.info)

\* A running protocol never sees its priority, its instances or their VLANs
\* change: it is stopped and started again in between.
NeverLive == [][mstp.spanning /\ mstp'.spanning =>
                  UNCHANGED <<mstp.cist, mstp.info, mstp.table>>]_vars

\* The re-initialisations come to an end: once the CLI rests both threads do.
Settles == <>[]Settled
=============================================================================
