-------------------------- MODULE StpdConfigProofs --------------------------
(***************************************************************************)
(* Whatever the CLI writes and however the two threads interleave, for any *)
(* number of instances, VLANs and changes: a running protocol never sees   *)
(* its configuration change, its digest is that of its VLAN table, no VLAN *)
(* is on two trees, and when nothing waits it runs with the values, and    *)
(* the VLANs where, the database has them.  For as many changes as an      *)
(* 8-bit counter allows: it never counts fewer trees than are in use.      *)
(***************************************************************************)
EXTENDS StpdConfig, FiniteSetTheorems, TLAPS

(* The events for the instances, in the order of their ids *)

UpTo(ids, m) == {k \in ids : k <= m}
Rank(ids) == [m \in ids |-> Cardinality(UpTo(ids, m))]

LEMMA MstiFinite ==
  ASSUME NEW ids \in SUBSET Msti
  PROVE  ids \subseteq Int /\ IsFiniteSet(ids) /\ Cardinality(ids) \in Nat
<1>1. MaxMsti \in Int /\ 1 \in Int
  BY ConfigAssumption
<1>2. IsFiniteSet(Msti) /\ Msti \subseteq Int
  BY <1>1, FS_Interval DEF Msti
<1> QED BY <1>2, FS_Subset, FS_CardinalityType

LEMMA RankIsBijective ==
  ASSUME NEW ids \in SUBSET Msti
  PROVE  /\ Rank(ids) \in Injection(ids, 1 .. Cardinality(ids))
         /\ Rank(ids) \in Surjection(ids, 1 .. Cardinality(ids))
<1> DEFINE places == 1 .. Cardinality(ids)
<1>1. ids \subseteq Int /\ IsFiniteSet(ids) /\ Cardinality(ids) \in Nat
  BY MstiFinite
<1>2. ASSUME NEW m \in ids
      PROVE  IsFiniteSet(UpTo(ids, m)) /\ Cardinality(UpTo(ids, m)) \in places
  <2>1. UpTo(ids, m) \in SUBSET ids /\ m \in UpTo(ids, m)
    BY <1>1 DEF UpTo
  <2>2. IsFiniteSet(UpTo(ids, m)) /\ Cardinality(UpTo(ids, m)) <= Cardinality(ids)
    BY <2>1, <1>1, FS_Subset
  <2>3. Cardinality(UpTo(ids, m)) \in Nat /\ Cardinality(UpTo(ids, m)) # 0
    BY <2>1, <2>2, FS_CardinalityType, FS_EmptySet
  <2> QED BY <1>1, <2>2, <2>3
<1>3. ASSUME NEW m \in ids, NEW n \in ids, m < n
      PROVE  Cardinality(UpTo(ids, m)) # Cardinality(UpTo(ids, n))
  <2>1. UpTo(ids, m) \in SUBSET UpTo(ids, n)
    <3>1. ASSUME NEW k \in ids, k <= m PROVE k <= n
      <4>1. k \in Int /\ m \in Int /\ n \in Int /\ m < n
        BY <1>1, <1>3
      <4> QED BY <3>1, <4>1
    <3> QED BY <3>1 DEF UpTo
  <2>2. n \in UpTo(ids, n) /\ n \notin UpTo(ids, m)
    BY <1>1, <1>3 DEF UpTo
  <2>3. IsFiniteSet(UpTo(ids, n))
    BY <1>2
  <2> QED BY <2>1, <2>2, <2>3, FS_Subset
<1>4. Rank(ids) \in Injection(ids, places)
  <2>1. Rank(ids) \in [ids -> places]
    BY <1>2 DEF Rank
  <2>2. ASSUME NEW m \in ids, NEW n \in ids, Rank(ids)[m] = Rank(ids)[n] PROVE m = n
    <3>1. m < n \/ n < m \/ m = n
      BY <1>1
    <3> QED BY <3>1, <2>2, <1>3 DEF Rank
  <2> QED BY <2>1, <2>2 DEF Injection, IsInjective
<1>5. IsFiniteSet(places) /\ Cardinality(places) = Cardinality(ids)
  <2>1. 1 \in Int /\ Cardinality(ids) \in Int
    BY <1>1
  <2>2. Cardinality(places) = IF 1 > Cardinality(ids) THEN 0 ELSE Cardinality(ids) - 1 + 1
    BY <2>1, FS_Interval
  <2> QED BY <1>1, <2>1, <2>2, FS_Interval
<1>6. Rank(ids) \in Surjection(ids, places)
  BY <1>4, <1>5, FS_Injection
<1> QED BY <1>4, <1>6

LEMMA NthIsThere ==
  ASSUME NEW ids \in SUBSET Msti
  PROVE  /\ \A i \in 1 .. Cardinality(ids) : Nth(ids, i) \in ids /\ Rank(ids)[Nth(ids, i)] = i
         /\ \A m \in ids : \E i \in 1 .. Cardinality(ids) : Nth(ids, i) = m
<1>1. ASSUME NEW i \in 1 .. Cardinality(ids)
      PROVE  Nth(ids, i) \in ids /\ Rank(ids)[Nth(ids, i)] = i
  <2>1. \E m \in ids : Rank(ids)[m] = i
    BY RankIsBijective DEF Surjection
  <2>2. \E m \in ids : Cardinality({k \in ids : k <= m}) = i
    BY <2>1 DEF Rank, UpTo
  <2>3. Nth(ids, i) \in ids /\ Cardinality({k \in ids : k <= Nth(ids, i)}) = i
    BY <2>2 DEF Nth
  <2> QED BY <2>3 DEF Rank, UpTo
<1>2. ASSUME NEW m \in ids PROVE \E i \in 1 .. Cardinality(ids) : Nth(ids, i) = m
  <2>1. Rank(ids)[m] \in 1 .. Cardinality(ids)
    BY RankIsBijective DEF Injection
  <2>2. Nth(ids, Rank(ids)[m]) \in ids /\ Rank(ids)[Nth(ids, Rank(ids)[m])] = Rank(ids)[m]
    BY <1>1, <2>1
  <2>3. Nth(ids, Rank(ids)[m]) = m
    BY <2>2, RankIsBijective DEF Injection, IsInjective
  <2> QED BY <2>1, <2>3
<1> QED BY <1>1, <1>2

\* es holds the event of each instance in ids once and nothing else
Once(es, ids, event) ==
  /\ \A i \in DOMAIN es : \E m \in ids : es[i] = event[m]
  /\ \A m \in ids : \E i \in DOMAIN es :
       /\ es[i] = event[m]
       /\ \A j \in DOMAIN es : j > i => \E k \in ids : k # m /\ es[j] = event[k]

LEMMA EventsForOnce ==
  ASSUME NEW ids \in SUBSET Msti, NEW E, NEW event,
         \A m \in ids : event[m] \in E
  PROVE  EventsFor(ids, event) \in Seq(E) /\ Once(EventsFor(ids, event), ids, event)
<1> DEFINE es == EventsFor(ids, event)
<1>1. DOMAIN es = 1 .. Cardinality(ids) /\ Cardinality(ids) \in Nat
  BY MstiFinite DEF EventsFor
<1>2. ASSUME NEW i \in DOMAIN es PROVE Nth(ids, i) \in ids /\ es[i] = event[Nth(ids, i)]
  BY <1>1, NthIsThere DEF EventsFor
<1>3. ASSUME NEW i \in DOMAIN es, NEW j \in DOMAIN es, i # j
      PROVE  Nth(ids, i) # Nth(ids, j)
  BY <1>1, <1>3, NthIsThere
<1>4. ASSUME NEW m \in ids PROVE \E i \in DOMAIN es : Nth(ids, i) = m
  BY <1>1, NthIsThere
<1>5. es \in Seq(E)
  <2>1. es \in [1 .. Cardinality(ids) -> E]
    BY <1>1, <1>2 DEF EventsFor
  <2> HIDE DEF es
  <2> QED BY <1>1, <2>1
<1>6. ASSUME NEW i \in DOMAIN es
      PROVE  \A j \in DOMAIN es :
               j > i => \E k \in ids : k # Nth(ids, i) /\ es[j] = event[k]
  BY <1>1, <1>2, <1>3
<1>7. ASSUME NEW m \in ids
      PROVE  \E i \in DOMAIN es :
               /\ es[i] = event[m]
               /\ \A j \in DOMAIN es : j > i => \E k \in ids : k # m /\ es[j] = event[k]
  BY <1>2, <1>4, <1>6
<1>8. Once(es, ids, event)
  BY <1>2, <1>7 DEF Once
<1> QED BY <1>5, <1>8
-----------------------------------------------------------------------------
(* What a queue says of one value.  K: the events that set it.  To[e]: the *)
(* value e sets it to.  Before: the value when the queue is handled first. *)

LastSets(q, K, To, after) ==
  \E i \in DOMAIN q :
    /\ q[i] \in K
    /\ To[q[i]] = after
    /\ \A j \in DOMAIN q : j > i => q[j] \notin K

Silent(q, K) == \A i \in DOMAIN q : q[i] \notin K

Leads(q, K, To, before, after) ==
  \/ LastSets(q, K, To, after)
  \/ Silent(q, K) /\ before = after

LEMMA AppendSilent ==
  ASSUME NEW E, NEW q \in Seq(E), NEW es \in Seq(E), NEW K, NEW To,
         NEW before, NEW after,
         Leads(q, K, To, before, after), Silent(es, K)
  PROVE  Leads(q \o es, K, To, before, after)
<1>1. Len(q) \in Nat /\ Len(es) \in Nat /\ DOMAIN q = 1 .. Len(q) /\ DOMAIN es = 1 .. Len(es)
  OBVIOUS
<1>2. DOMAIN (q \o es) = 1 .. Len(q) + Len(es)
  OBVIOUS
<1>3. \A i \in DOMAIN q : (q \o es)[i] = q[i]
  OBVIOUS
<1>4. ASSUME NEW i \in DOMAIN (q \o es), i \notin DOMAIN q PROVE (q \o es)[i] \notin K
  <2>1. i - Len(q) \in DOMAIN es /\ (q \o es)[i] = es[i - Len(q)]
    BY <1>1, <1>2, <1>4
  <2> QED BY <2>1 DEF Silent
<1>5. CASE LastSets(q, K, To, after)
  <2>1. PICK i \in DOMAIN q :
          q[i] \in K /\ To[q[i]] = after /\ \A j \in DOMAIN q : j > i => q[j] \notin K
    BY <1>5 DEF LastSets
  <2>2. i \in DOMAIN (q \o es)
    BY <1>1, <1>2
  <2>3. \A j \in DOMAIN (q \o es) : j > i => (q \o es)[j] \notin K
    BY <1>3, <1>4, <2>1
  <2> QED BY <1>3, <2>1, <2>2, <2>3 DEF Leads, LastSets
<1>6. CASE Silent(q, K) /\ before = after
  BY <1>3, <1>4, <1>6 DEF Leads, Silent
<1> QED BY <1>5, <1>6 DEF Leads

LEMMA AppendSets ==
  ASSUME NEW E, NEW q \in Seq(E), NEW es \in Seq(E), NEW K, NEW To,
         NEW before, NEW after, LastSets(es, K, To, after)
  PROVE  Leads(q \o es, K, To, before, after)
<1>1. Len(q) \in Nat /\ Len(es) \in Nat /\ DOMAIN q = 1 .. Len(q) /\ DOMAIN es = 1 .. Len(es)
  OBVIOUS
<1>2. DOMAIN (q \o es) = 1 .. Len(q) + Len(es)
  OBVIOUS
<1>3. PICK i \in DOMAIN es :
        es[i] \in K /\ To[es[i]] = after /\ \A j \in DOMAIN es : j > i => es[j] \notin K
  BY DEF LastSets
<1>4. Len(q) + i \in DOMAIN (q \o es) /\ (q \o es)[Len(q) + i] = es[i]
  BY <1>1, <1>2
<1>5. ASSUME NEW j \in DOMAIN (q \o es), j > Len(q) + i PROVE (q \o es)[j] \notin K
  <2>1. j \in Int /\ j <= Len(q) + Len(es) /\ i \in Int /\ i >= 1
    BY <1>1, <1>2
  <2>2. j - Len(q) \in DOMAIN es /\ j - Len(q) > i
    BY <1>1, <1>5, <2>1
  <2>3. (q \o es)[j] = es[j - Len(q)]
    BY <1>1, <1>2, <2>2
  <2>4. es[j - Len(q)] \notin K
    BY <1>3, <2>2
  <2> QED BY <2>3, <2>4
<1> DEFINE n == Len(q) + i
           all == q \o es
<1>6. n \in DOMAIN all /\ all[n] \in K /\ To[all[n]] = after
  BY <1>3, <1>4
<1>7. \A j \in DOMAIN all : j > n => all[j] \notin K
  BY <1>5
<1> HIDE DEF n, all
<1>8. LastSets(all, K, To, after)
  BY <1>6, <1>7 DEF LastSets
<1> QED BY <1>8 DEF Leads, all

\* the thread handles the first event
LEMMA HandleOne ==
  ASSUME NEW E, NEW q \in Seq(E), q # <<>>, NEW K, NEW To,
         NEW before, NEW now, NEW after,
         Leads(q, K, To, before, after),
         Head(q) \in K => now = To[Head(q)],
         Head(q) \notin K => now = before
  PROVE  Leads(Tail(q), K, To, now, after)
<1>1. Len(q) \in Nat \ {0} /\ DOMAIN q = 1 .. Len(q) /\ Head(q) = q[1]
  OBVIOUS
<1>2. DOMAIN Tail(q) = 1 .. Len(q) - 1 /\ \A i \in DOMAIN Tail(q) : Tail(q)[i] = q[i + 1]
  OBVIOUS
<1>3. CASE LastSets(q, K, To, after)
  <2>1. PICK i \in DOMAIN q :
          q[i] \in K /\ To[q[i]] = after /\ \A j \in DOMAIN q : j > i => q[j] \notin K
    BY <1>3 DEF LastSets
  <2>2. CASE i = 1
    <3>1. now = after
      BY <1>1, <2>1, <2>2
    <3>2. Silent(Tail(q), K)
      BY <1>1, <1>2, <2>1, <2>2 DEF Silent
    <3> QED BY <3>1, <3>2 DEF Leads
  <2>3. CASE i # 1
    <3>1. i - 1 \in DOMAIN Tail(q) /\ Tail(q)[i - 1] = q[i]
      BY <1>1, <1>2, <2>3
    <3>2. ASSUME NEW j \in DOMAIN Tail(q), j > i - 1 PROVE Tail(q)[j] \notin K
      <4>1. j + 1 \in DOMAIN q /\ j + 1 > i
        BY <1>1, <1>2, <3>2
      <4>2. q[j + 1] \notin K
        BY <2>1, <4>1
      <4>3. Tail(q)[j] = q[j + 1]
        BY <1>2
      <4> QED BY <4>2, <4>3
    <3> DEFINE n == i - 1
               rest == Tail(q)
    <3>3. n \in DOMAIN rest /\ rest[n] \in K /\ To[rest[n]] = after
      BY <2>1, <3>1
    <3>4. \A j \in DOMAIN rest : j > n => rest[j] \notin K
      BY <3>2
    <3> HIDE DEF n, rest
    <3>5. LastSets(rest, K, To, after)
      BY <3>3, <3>4 DEF LastSets
    <3> QED BY <3>5 DEF Leads, rest
  <2> QED BY <2>2, <2>3
<1>4. CASE Silent(q, K) /\ before = after
  <2>1. now = after
    BY <1>1, <1>4 DEF Silent
  <2>2. Silent(Tail(q), K)
    BY <1>1, <1>2, <1>4 DEF Silent
  <2> QED BY <2>1, <2>2 DEF Leads
<1> QED BY <1>3, <1>4 DEF Leads
-----------------------------------------------------------------------------
(* The events of one look *)

Caches == Config \cup {NoConf}

LEMMA CachedType ==
  ASSUME NEW c \in Caches, NEW r \in Config
  PROVE  Cached(c, r) \in Config
<1>1. c.msti \in [Msti -> SUBSET Vlan] /\ r.msti \in [Msti -> SUBSET Vlan]
  BY DEF Caches, Config, NoConf
<1>2. r.enable \in BOOLEAN /\ r.priority \in Priority
  BY DEF Config
<1>3. Cached(c, r).msti \in [Msti -> SUBSET Vlan]
  BY <1>1 DEF Cached
<1> QED BY <1>1, <1>2 DEF Cached, Config

CistEvent == [type : {"cist"}, priority : Priority]
MstiEvent == [type : {"msti"}, mstid : Msti, vlans : (SUBSET Vlan) \ {{}}]
DeleteEvent == [type : {"delete"}, mstid : Msti]
AdminEvent == [type : {"admin"}, status : BOOLEAN]

PriorityOf == [e \in CistEvent |-> e.priority]
StatusOf == [e \in AdminEvent |-> e.status]
About(m) == {e \in MstiEvent \cup DeleteEvent : e.mstid = m}
Keeps(m) == [e \in About(m) |-> e.type = "msti"]

UpdateEvents(c, r) == EventsFor(Updated(c, r),
  [m \in Msti |-> [type |-> "msti", mstid |-> m, vlans |-> Cached(c, r).msti[m]]])
DeleteEvents(c, r) == EventsFor(Deleted(c, r),
  [m \in Msti |-> [type |-> "delete", mstid |-> m]])

\* an instance that is sent has a row, and what is sent are its VLANs
LEMMA UpdatedHasVlans ==
  ASSUME NEW c \in Caches, NEW r \in Config, NEW m \in Updated(c, r)
  PROVE  /\ m \in Msti /\ r.msti[m] # {}
         /\ Cached(c, r).msti[m] \in (SUBSET Vlan) \ {{}}
<1>1. m \in Msti /\ r.msti[m] # {}
  BY DEF Updated, Resent, New
<1>2. Cached(c, r).msti[m] \in SUBSET Vlan
  BY <1>1, CachedType DEF Config
<1>3. Cached(c, r).msti[m] # {}
  BY <1>1 DEF Cached, New
<1> QED BY <1>1, <1>2, <1>3

LEMMA UpdateEventsOnce ==
  ASSUME NEW c \in Caches, NEW r \in Config
  PROVE  /\ UpdateEvents(c, r) \in Seq(MstiEvent)
         /\ \A m \in Updated(c, r) : LastSets(UpdateEvents(c, r), About(m), Keeps(m), TRUE)
         /\ \A m \in Msti \ Updated(c, r) : Silent(UpdateEvents(c, r), About(m))
<1> DEFINE ids == Updated(c, r)
           event == [m \in Msti |->
                       [type |-> "msti", mstid |-> m, vlans |-> Cached(c, r).msti[m]]]
           es == UpdateEvents(c, r)
<1>1. ids \in SUBSET Msti
  BY DEF Updated
<1>2. ASSUME NEW m \in ids
      PROVE event[m] \in MstiEvent /\ event[m].mstid = m /\ event[m].type = "msti"
  BY UpdatedHasVlans DEF MstiEvent
<1>3. es = EventsFor(ids, event)
  BY DEF UpdateEvents
<1> HIDE DEF ids, event, es
<1>4. es \in Seq(MstiEvent) /\ Once(es, ids, event)
  <2>1. \A m \in ids : event[m] \in MstiEvent
    BY <1>2
  <2> QED BY <1>1, <1>3, <2>1, EventsForOnce
<1>5. ASSUME NEW m \in ids PROVE LastSets(es, About(m), Keeps(m), TRUE)
  <2>1. PICK i \in DOMAIN es :
           /\ es[i] = event[m]
           /\ \A j \in DOMAIN es : j > i => \E k \in ids : k # m /\ es[j] = event[k]
    BY <1>4 DEF Once
  <2>2. es[i] \in About(m)
    BY <1>2, <2>1 DEF About
  <2>3. Keeps(m)[es[i]] = TRUE
    BY <1>2, <2>1, <2>2 DEF Keeps
  <2>4. \A j \in DOMAIN es : j > i => es[j] \notin About(m)
    BY <1>2, <2>1 DEF About
  <2> QED BY <2>2, <2>3, <2>4 DEF LastSets
<1>6. ASSUME NEW m \in Msti \ ids PROVE Silent(es, About(m))
  BY <1>2, <1>4 DEF Silent, About, Once
<1> QED BY <1>4, <1>5, <1>6 DEF ids, es

LEMMA DeleteEventsOnce ==
  ASSUME NEW c \in Caches, NEW r \in Config
  PROVE  /\ DeleteEvents(c, r) \in Seq(DeleteEvent)
         /\ \A m \in Deleted(c, r) : LastSets(DeleteEvents(c, r), About(m), Keeps(m), FALSE)
         /\ \A m \in Msti \ Deleted(c, r) : Silent(DeleteEvents(c, r), About(m))
<1> DEFINE ids == Deleted(c, r)
           event == [m \in Msti |-> [type |-> "delete", mstid |-> m]]
           es == DeleteEvents(c, r)
<1>1. ids \in SUBSET Msti
  BY DEF Deleted
<1>2. ASSUME NEW m \in ids
      PROVE event[m] \in DeleteEvent /\ event[m].mstid = m /\ event[m].type = "delete"
  BY <1>1 DEF DeleteEvent
<1>3. es = EventsFor(ids, event)
  BY DEF DeleteEvents
<1> HIDE DEF ids, event, es
<1>4. es \in Seq(DeleteEvent) /\ Once(es, ids, event)
  <2>1. \A m \in ids : event[m] \in DeleteEvent
    BY <1>2
  <2> QED BY <1>1, <1>3, <2>1, EventsForOnce
<1>5. ASSUME NEW m \in ids PROVE LastSets(es, About(m), Keeps(m), FALSE)
  <2>1. PICK i \in DOMAIN es :
           /\ es[i] = event[m]
           /\ \A j \in DOMAIN es : j > i => \E k \in ids : k # m /\ es[j] = event[k]
    BY <1>4 DEF Once
  <2>2. es[i] \in About(m)
    BY <1>2, <2>1 DEF About
  <2>3. Keeps(m)[es[i]] = FALSE
    BY <1>2, <2>1, <2>2 DEF Keeps
  <2>4. \A j \in DOMAIN es : j > i => es[j] \notin About(m)
    BY <1>2, <2>1 DEF About
  <2> QED BY <2>2, <2>3, <2>4 DEF LastSets
<1>6. ASSUME NEW m \in Msti \ ids PROVE Silent(es, About(m))
  BY <1>2, <1>4 DEF Silent, About, Once
<1> QED BY <1>4, <1>5, <1>6 DEF ids, es
-----------------------------------------------------------------------------
(* What was sent leads the Protocol thread to what the caches hold *)

Mirrors(q, s, c) ==
  /\ Leads(q, AdminEvent, StatusOf, s.spanning, c.enable)
  /\ Leads(q, CistEvent, PriorityOf, s.cist, c.priority)
  /\ \A m \in Msti : Leads(q, About(m), Keeps(m), m \in s.info, c.msti[m] # {})

LEMMA EventKinds ==
  /\ Event = CistEvent \cup MstiEvent \cup DeleteEvent \cup AdminEvent
  /\ \A e \in CistEvent : e.type = "cist"
  /\ \A e \in MstiEvent : e.type = "msti"
  /\ \A e \in DeleteEvent : e.type = "delete"
  /\ \A e \in AdminEvent : e.type = "admin"
  /\ \A m : About(m) \subseteq MstiEvent \cup DeleteEvent
BY DEF Event, CistEvent, MstiEvent, DeleteEvent, AdminEvent, About

LEMMA SilentKind ==
  ASSUME NEW E, NEW es \in Seq(E), NEW K, E \cap K = {}
  PROVE  Silent(es, K)
BY DEF Silent

LEMMA CistEventsOnce ==
  ASSUME NEW c \in Caches, NEW r \in Config
  PROVE  /\ CistEvents(c, r) \in Seq(CistEvent)
         /\ \/ LastSets(CistEvents(c, r), CistEvent, PriorityOf, Cached(c, r).priority)
            \/ /\ Silent(CistEvents(c, r), CistEvent)
               /\ Cached(c, r).priority = c.priority
<1> DEFINE e == [type |-> "cist", priority |-> r.priority]
<1>1. e \in CistEvent /\ PriorityOf[e] = r.priority /\ Cached(c, r).priority = r.priority
  BY DEF CistEvent, Config, PriorityOf, Cached
<1>2. CASE c.priority = r.priority
  <2>1. CistEvents(c, r) = <<>>
    BY <1>2 DEF CistEvents
  <2>2. <<>> \in Seq(CistEvent) /\ DOMAIN <<>> = {}
    OBVIOUS
  <2> QED BY <1>1, <1>2, <2>1, <2>2 DEF Silent
<1>3. CASE c.priority # r.priority
  <2>1. CistEvents(c, r) = <<e>>
    BY <1>3 DEF CistEvents
  <2> HIDE DEF e
  <2>2. <<e>> \in Seq(CistEvent)
    BY <1>1
  <2>3. DOMAIN <<e>> = {1} /\ <<e>>[1] = e
    OBVIOUS
  <2>4. LastSets(<<e>>, CistEvent, PriorityOf, r.priority)
    BY <1>1, <2>3 DEF LastSets
  <2> QED BY <1>1, <2>1, <2>2, <2>4
<1> QED BY <1>2, <1>3

LEMMA AdminEventsOnce ==
  ASSUME NEW c \in Caches, NEW r \in Config
  PROVE  /\ AdminEvents(c, r) \in Seq(AdminEvent)
         /\ \/ LastSets(AdminEvents(c, r), AdminEvent, StatusOf, Cached(c, r).enable)
            \/ /\ Silent(AdminEvents(c, r), AdminEvent)
               /\ Cached(c, r).enable = c.enable
<1> DEFINE e == [type |-> "admin", status |-> r.enable]
<1>1. e \in AdminEvent /\ StatusOf[e] = r.enable /\ Cached(c, r).enable = r.enable
  BY DEF AdminEvent, Config, StatusOf, Cached
<1>2. CASE c.enable = r.enable
  <2>1. AdminEvents(c, r) = <<>>
    BY <1>2 DEF AdminEvents
  <2>2. <<>> \in Seq(AdminEvent) /\ DOMAIN <<>> = {}
    OBVIOUS
  <2> QED BY <1>1, <1>2, <2>1, <2>2 DEF Silent
<1>3. CASE c.enable # r.enable
  <2>1. AdminEvents(c, r) = <<e>>
    BY <1>3 DEF AdminEvents
  <2> HIDE DEF e
  <2>2. <<e>> \in Seq(AdminEvent)
    BY <1>1
  <2>3. DOMAIN <<e>> = {1} /\ <<e>>[1] = e
    OBVIOUS
  <2>4. LastSets(<<e>>, AdminEvent, StatusOf, r.enable)
    BY <1>1, <2>3 DEF LastSets
  <2> QED BY <1>1, <2>1, <2>2, <2>4
<1> QED BY <1>2, <1>3

LEMMA Widen ==
  ASSUME NEW E, NEW F, E \subseteq F, NEW es \in Seq(E)
  PROVE  es \in Seq(F)
OBVIOUS

LEMMA EventsAreParts ==
  ASSUME NEW c \in Caches, NEW r \in Config, NEW q \in Seq(Event)
  PROVE  LET q1 == q \o CistEvents(c, r)
             q2 == q1 \o UpdateEvents(c, r)
             q3 == q2 \o DeleteEvents(c, r)
         IN  /\ Events(c, r) \in Seq(Event)
             /\ q \o Events(c, r) = q3 \o AdminEvents(c, r)
             /\ q1 \in Seq(Event) /\ q2 \in Seq(Event) /\ q3 \in Seq(Event)
             /\ CistEvents(c, r) \in Seq(Event) /\ UpdateEvents(c, r) \in Seq(Event)
             /\ DeleteEvents(c, r) \in Seq(Event) /\ AdminEvents(c, r) \in Seq(Event)
<1> DEFINE ce == CistEvents(c, r)
           ue == UpdateEvents(c, r)
           de == DeleteEvents(c, r)
           ae == AdminEvents(c, r)
<1>1. ce \in Seq(CistEvent) /\ ue \in Seq(MstiEvent) /\ de \in Seq(DeleteEvent)
      /\ ae \in Seq(AdminEvent)
  BY CistEventsOnce, UpdateEventsOnce, DeleteEventsOnce, AdminEventsOnce
<1>2. Events(c, r) = ce \o (ue \o de) \o ae
  BY DEF Events, MstiEvents, UpdateEvents, DeleteEvents
<1> HIDE DEF ce, ue, de, ae
<1>3. ce \in Seq(Event) /\ ue \in Seq(Event) /\ de \in Seq(Event) /\ ae \in Seq(Event)
  <2>1. /\ CistEvent \subseteq Event /\ MstiEvent \subseteq Event
        /\ DeleteEvent \subseteq Event /\ AdminEvent \subseteq Event
    BY EventKinds
  <2> QED BY <1>1, <2>1, Widen
<1>4. /\ Events(c, r) \in Seq(Event)
      /\ q \o Events(c, r) = (((q \o ce) \o ue) \o de) \o ae
      /\ q \o ce \in Seq(Event) /\ (q \o ce) \o ue \in Seq(Event)
      /\ ((q \o ce) \o ue) \o de \in Seq(Event)
  <2>1. /\ ce \o (ue \o de) \o ae \in Seq(Event) /\ q \o ce \in Seq(Event)
        /\ (q \o ce) \o ue \in Seq(Event) /\ ((q \o ce) \o ue) \o de \in Seq(Event)
    BY <1>3
  <2>2. q \o (ce \o (ue \o de) \o ae) = (q \o (ce \o (ue \o de))) \o ae
    <3> DEFINE front == ce \o (ue \o de)
    <3>1. front \in Seq(Event)
      BY <1>3
    <3> HIDE DEF front
    <3>2. q \o (front \o ae) = (q \o front) \o ae
      BY <1>3, <3>1
    <3> QED BY <3>2 DEF front
  <2>3. q \o (ce \o (ue \o de)) = ((q \o ce) \o ue) \o de
    BY <1>3
  <2> QED BY <1>2, <2>1, <2>2, <2>3
<1> QED BY <1>3, <1>4 DEF ce, ue, de, ae

\* what a look changes in the caches it sends
LEMMA CachesFollow ==
  ASSUME NEW c \in Caches, NEW r \in Config, NEW m \in Msti
  PROVE  /\ m \in Updated(c, r) => Cached(c, r).msti[m] # {} /\ m \notin Deleted(c, r)
         /\ m \in Deleted(c, r) => Cached(c, r).msti[m] = {}
         /\ m \notin Updated(c, r) \cup Deleted(c, r) =>
              (Cached(c, r).msti[m] # {}) = (c.msti[m] # {})
<1>1. Cached(c, r).msti[m] = IF r.msti[m] = {} \/ New(c, r, m) \/ Differs(c, r, m)
                             THEN r.msti[m] ELSE c.msti[m]
  BY DEF Cached
<1>2. CASE m \in Updated(c, r)
  BY <1>2, UpdatedHasVlans DEF Deleted
<1>3. CASE m \in Deleted(c, r)
  BY <1>1, <1>3, UpdatedHasVlans DEF Deleted
<1>4. CASE m \notin Updated(c, r) \cup Deleted(c, r)
  <2>1. CASE r.msti[m] = {}
    BY <1>1, <1>4, <2>1 DEF Deleted
  <2>2. CASE r.msti[m] # {}
    <3>1. ~ New(c, r, m)
      BY <1>4, <2>2 DEF Updated, Resent
    <3>2. c.msti[m] # {}
      BY <2>2, <3>1 DEF New
    <3>3. Cached(c, r).msti[m] # {}
      BY <1>1, <2>2, <3>2
    <3> QED BY <1>4, <3>2, <3>3
  <2> QED BY <2>1, <2>2
<1> QED BY <1>2, <1>3, <1>4

LEMMA EventsMirror ==
  ASSUME NEW c \in Caches, NEW r \in Config, NEW q \in Seq(Event), NEW s,
         Mirrors(q, s, c)
  PROVE  q \o Events(c, r) \in Seq(Event) /\ Mirrors(q \o Events(c, r), s, Cached(c, r))
<1> DEFINE ce == CistEvents(c, r)
           ue == UpdateEvents(c, r)
           de == DeleteEvents(c, r)
           ae == AdminEvents(c, r)
           q1 == q \o ce
           q2 == q1 \o ue
           q3 == q2 \o de
           new == Cached(c, r)
<1>1. /\ Events(c, r) \in Seq(Event) /\ q \o Events(c, r) = q3 \o ae
      /\ q1 \in Seq(Event) /\ q2 \in Seq(Event) /\ q3 \in Seq(Event)
      /\ ce \in Seq(Event) /\ ue \in Seq(Event) /\ de \in Seq(Event) /\ ae \in Seq(Event)
  BY EventsAreParts
<1>2. /\ ce \in Seq(CistEvent) /\ ue \in Seq(MstiEvent)
      /\ de \in Seq(DeleteEvent) /\ ae \in Seq(AdminEvent)
  BY CistEventsOnce, UpdateEventsOnce, DeleteEventsOnce, AdminEventsOnce
<1>3. Leads(q3 \o ae, AdminEvent, StatusOf, s.spanning, new.enable)
  <2>1. Silent(ce, AdminEvent) /\ Silent(ue, AdminEvent) /\ Silent(de, AdminEvent)
    BY <1>2, EventKinds, SilentKind
  <2>2. Leads(q, AdminEvent, StatusOf, s.spanning, c.enable)
    BY DEF Mirrors
  <2> HIDE DEF ce, ue, de, ae, new
  <2>3. Leads(q3, AdminEvent, StatusOf, s.spanning, c.enable)
    BY <1>1, <2>1, <2>2, AppendSilent
  <2>4. LastSets(ae, AdminEvent, StatusOf, new.enable)
        \/ (Silent(ae, AdminEvent) /\ new.enable = c.enable)
    BY AdminEventsOnce DEF ae, new
  <2> HIDE DEF q3
  <2> QED BY <1>1, <2>3, <2>4, AppendSilent, AppendSets
<1>4. Leads(q3 \o ae, CistEvent, PriorityOf, s.cist, new.priority)
  <2>1. Silent(ue, CistEvent) /\ Silent(de, CistEvent) /\ Silent(ae, CistEvent)
    BY <1>2, EventKinds, SilentKind
  <2>2. Leads(q, CistEvent, PriorityOf, s.cist, c.priority)
    BY DEF Mirrors
  <2>3. LastSets(ce, CistEvent, PriorityOf, new.priority)
        \/ (Silent(ce, CistEvent) /\ new.priority = c.priority)
    BY CistEventsOnce
  <2> HIDE DEF ce, ue, de, ae, new
  <2>4. Leads(q1, CistEvent, PriorityOf, s.cist, new.priority)
    BY <1>1, <2>2, <2>3, AppendSilent, AppendSets
  <2> HIDE DEF q1
  <2> QED BY <1>1, <2>1, <2>4, AppendSilent
<1>5. ASSUME NEW m \in Msti
      PROVE  Leads(q3 \o ae, About(m), Keeps(m), m \in s.info, new.msti[m] # {})
  <2>1. Silent(ce, About(m)) /\ Silent(ae, About(m))
    BY <1>2, EventKinds, SilentKind
  <2>2. Leads(q1, About(m), Keeps(m), m \in s.info, c.msti[m] # {})
    <3>1. Leads(q, About(m), Keeps(m), m \in s.info, c.msti[m] # {})
      BY DEF Mirrors
    <3> HIDE DEF ce
    <3> QED BY <1>1, <2>1, <3>1, AppendSilent
  <2>3. Leads(q3, About(m), Keeps(m), m \in s.info, new.msti[m] # {})
    <3>1. CASE m \in Updated(c, r)
      <4>1. LastSets(ue, About(m), Keeps(m), TRUE) /\ Silent(de, About(m))
        BY <3>1, UpdateEventsOnce, DeleteEventsOnce, CachesFollow
      <4>2. (new.msti[m] # {}) = TRUE
        BY <3>1, CachesFollow
      <4> HIDE DEF q1, ue, de, new
      <4>3. Leads(q2, About(m), Keeps(m), m \in s.info, TRUE)
        BY <1>1, <4>1, AppendSets
      <4> HIDE DEF q2
      <4>4. Leads(q3, About(m), Keeps(m), m \in s.info, TRUE)
        BY <1>1, <4>1, <4>3, AppendSilent
      <4> QED BY <4>2, <4>4, Zenon
    <3>2. CASE m \in Deleted(c, r)
      <4>1. LastSets(de, About(m), Keeps(m), FALSE)
        BY <3>2, DeleteEventsOnce
      <4>2. (new.msti[m] # {}) = FALSE
        BY <3>2, CachesFollow
      <4> HIDE DEF q2, ue, de, new
      <4>3. Leads(q3, About(m), Keeps(m), m \in s.info, FALSE)
        BY <1>1, <4>1, AppendSets
      <4> QED BY <4>2, <4>3, Zenon
    <3>3. CASE m \notin Updated(c, r) \cup Deleted(c, r)
      <4>1. Silent(ue, About(m)) /\ Silent(de, About(m))
        BY <3>3, UpdateEventsOnce, DeleteEventsOnce
      <4>2. (new.msti[m] # {}) = (c.msti[m] # {})
        BY <3>3, CachesFollow
      <4> HIDE DEF q1, ue, de, new
      <4>3. Leads(q2, About(m), Keeps(m), m \in s.info, c.msti[m] # {})
        BY <1>1, <2>2, <4>1, AppendSilent
      <4> HIDE DEF q2
      <4>4. Leads(q3, About(m), Keeps(m), m \in s.info, c.msti[m] # {})
        BY <1>1, <4>1, <4>3, AppendSilent
      <4> QED BY <4>2, <4>4, Zenon
    <3> QED BY <3>1, <3>2, <3>3
  <2> HIDE DEF q3, ae, new
  <2> QED BY <1>1, <2>1, <2>3, AppendSilent
<1>6. q \o Events(c, r) \in Seq(Event)
  BY <1>1
<1> HIDE DEF q3, ae, new
<1>7. Mirrors(q3 \o ae, s, new)
  BY <1>3, <1>4, <1>5 DEF Mirrors
<1> QED BY <1>1, <1>6, <1>7 DEF new

\* mstp_config_reinit: nothing waits, nothing is set, nothing was sent
LEMMA ReinitMirror ==
  ASSUME NEW r \in Config, NEW s, s.spanning = FALSE, s.cist = Cleared, s.info = {}
  PROVE  Events(NoConf, r) \in Seq(Event) /\ Mirrors(Events(NoConf, r), s, Cached(NoConf, r))
<1>1. NoConf \in Caches
  BY DEF Caches
<1>2. <<>> \in Seq(Event) /\ DOMAIN <<>> = {}
  OBVIOUS
<1>3. Mirrors(<<>>, s, NoConf)
  <2>1. \A K : Silent(<<>>, K)
    BY <1>2 DEF Silent
  <2>2. /\ NoConf.enable = FALSE /\ NoConf.priority = Cleared
        /\ \A m \in Msti : NoConf.msti[m] = {}
    BY DEF NoConf
  <2>3. Leads(<<>>, AdminEvent, StatusOf, s.spanning, NoConf.enable)
    BY <2>1, <2>2 DEF Leads
  <2>4. Leads(<<>>, CistEvent, PriorityOf, s.cist, NoConf.priority)
    BY <2>1, <2>2 DEF Leads
  <2>5. ASSUME NEW m \in Msti
        PROVE  Leads(<<>>, About(m), Keeps(m), m \in s.info, NoConf.msti[m] # {})
    <3>1. (m \in s.info) = (NoConf.msti[m] # {})
      BY <2>2
    <3> QED BY <2>1, <3>1 DEF Leads
  <2> QED BY <2>3, <2>4, <2>5 DEF Mirrors
<1>4. <<>> \o Events(NoConf, r) \in Seq(Event)
      /\ Mirrors(<<>> \o Events(NoConf, r), s, Cached(NoConf, r))
  BY <1>1, <1>2, <1>3, EventsMirror
<1>5. Events(NoConf, r) \in Seq(Event)
  BY <1>1, <1>2, EventsAreParts
<1>6. <<>> \o Events(NoConf, r) = Events(NoConf, r)
  BY <1>5
<1> QED BY <1>4, <1>5, <1>6

Holds(c, r) ==
  /\ c.enable = r.enable /\ c.priority = r.priority
  /\ \A m \in Msti : (c.msti[m] # {}) = (r.msti[m] # {})

LEMMA CachedHolds ==
  ASSUME NEW c \in Caches, NEW r \in Config
  PROVE  Holds(Cached(c, r), r)
<1>1. Cached(c, r).enable = r.enable /\ Cached(c, r).priority = r.priority
  BY DEF Cached
<1>2. ASSUME NEW m \in Msti PROVE (Cached(c, r).msti[m] # {}) = (r.msti[m] # {})
  <2>1. Cached(c, r).msti[m] = IF r.msti[m] = {} \/ New(c, r, m) \/ Differs(c, r, m)
                               THEN r.msti[m] ELSE c.msti[m]
    BY DEF Cached
  <2>2. CASE r.msti[m] = {} \/ New(c, r, m) \/ Differs(c, r, m)
    BY <2>1, <2>2
  <2>3. CASE ~ (r.msti[m] = {} \/ New(c, r, m) \/ Differs(c, r, m))
    <3>1. r.msti[m] # {} /\ c.msti[m] # {}
      BY <2>3 DEF New
    <3> QED BY <2>1, <2>3, <3>1
  <2> QED BY <2>2, <2>3
<1> QED BY <1>1, <1>2 DEF Holds
-----------------------------------------------------------------------------
(* What the handlers do to the data of the protocol *)

Table == [{CistId} \cup Msti -> SUBSET Vlan]

InfoIsTable(s) == \A m \in Msti : m \in s.info <=> s.table[m] # {}

\* the digest has a tree for every VLAN: there is a least instance
LEMMA DigestType ==
  ASSUME NEW table \in Table
  PROVE  DigestOf(table) \in Digest
<1>1. ASSUME NEW v \in Vlan, NEW n \in Msti, v \in table[n]
      PROVE  \E m \in Msti : v \in table[m] /\ \A k \in 1 .. m - 1 : v \notin table[k]
  <2> DEFINE ids == {m \in Msti : v \in table[m]}
             least == Nth(ids, 1)
  <2>1. ids \in SUBSET Msti /\ n \in ids /\ ids \subseteq Int
        /\ IsFiniteSet(ids) /\ Cardinality(ids) \in Nat
    BY <1>1, MstiFinite
  <2>2. 1 \in 1 .. Cardinality(ids)
    BY <2>1, FS_EmptySet
  <2>3. least \in ids /\ Rank(ids)[least] = 1
    BY <2>1, <2>2, NthIsThere
  <2>4. Cardinality(UpTo(ids, least)) = 1
    BY <2>3 DEF Rank
  <2>5. IsFiniteSet(UpTo(ids, least))
    BY <2>1, FS_Subset DEF UpTo
  <2>6. PICK x : UpTo(ids, least) = {x}
    BY <2>4, <2>5, FS_Singleton
  <2>7. least \in UpTo(ids, least)
    BY <2>1, <2>3 DEF UpTo
  <2>8. ASSUME NEW k \in 1 .. least - 1, v \in table[k] PROVE FALSE
    <3>1. least \in Int /\ least <= MaxMsti /\ MaxMsti \in Int
      BY <2>1, <2>3, ConfigAssumption DEF Msti
    <3>2. k \in Msti /\ k <= least /\ k # least
      BY <3>1 DEF Msti
    <3>3. k \in UpTo(ids, least)
      BY <2>8, <3>2 DEF UpTo
    <3> QED BY <2>6, <2>7, <3>2, <3>3
  <2> QED BY <2>3, <2>8
<1> DEFINE tree(v) ==
      IF v \in table[CistId] \/ \A m \in Msti : v \notin table[m] THEN CistId
      ELSE CHOOSE m \in Msti : v \in table[m] /\ \A k \in 1 .. m - 1 : v \notin table[k]
<1>2. ASSUME NEW v \in Vlan PROVE tree(v) \in {CistId} \cup Msti
  <2>1. CASE v \in table[CistId] \/ \A m \in Msti : v \notin table[m]
    BY <2>1
  <2>2. CASE ~ (v \in table[CistId] \/ \A m \in Msti : v \notin table[m])
    <3>1. \E m \in Msti : v \in table[m] /\ \A k \in 1 .. m - 1 : v \notin table[k]
      BY <1>1, <2>2
    <3>2. (CHOOSE m \in Msti : v \in table[m] /\ \A k \in 1 .. m - 1 : v \notin table[k])
          \in Msti
      BY <3>1
    <3> QED BY <2>2, <3>2
  <2> QED BY <2>1, <2>2
<1>3. DigestOf(table) = [v \in Vlan |-> tree(v)]
  BY Zenon DEF DigestOf
<1> HIDE DEF tree
<1> QED BY <1>2, <1>3 DEF Digest

LEMMA CountType ==
  ASSUME NEW n \in TreeCount
  PROVE  (n + 1) % 256 \in TreeCount /\ (n - 1) % 256 \in TreeCount
BY DEF TreeCount

LEMMA CistStep ==
  ASSUME NEW s \in Mstp, NEW p \in Priority
  PROVE  LET t == CistConfig(s, p)
         IN  /\ t \in Mstp
             /\ t.spanning = s.spanning /\ t.cist = p /\ t.info = s.info
             /\ t.table = s.table /\ t.digest = s.digest
             /\ s.spanning /\ ~ t.dyn => s.cist = p
<1> DEFINE t == CistConfig(s, p)
           n == IF s.cist = Cleared THEN (s.trees + 1) % 256 ELSE s.trees
           d == s.dyn \/ (s.spanning /\ s.cist # p)
<1>1. n \in TreeCount /\ d \in BOOLEAN
  BY CountType DEF Mstp
<1>2. t = [s EXCEPT !.cist = p, !.trees = n, !.dyn = d]
  BY DEF CistConfig
<1> HIDE DEF n, t
<1>3. t \in Mstp
  BY <1>1, <1>2 DEF Mstp
<1>4. /\ t.spanning = s.spanning /\ t.cist = p /\ t.info = s.info
      /\ t.table = s.table /\ t.digest = s.digest /\ t.dyn = d
  BY <1>2 DEF Mstp
<1> QED BY <1>3, <1>4 DEF t

LEMMA MappedTable ==
  ASSUME NEW table \in Table, NEW m \in Msti, NEW vlans \in SUBSET Vlan
  PROVE  /\ Mapped(table, m, vlans) \in Table
         /\ Mapped(table, m, vlans)[m] = vlans
         /\ \A k \in Msti \ {m} : Mapped(table, m, vlans)[k] = table[k]
<1>1. DOMAIN table = {CistId} \cup Msti /\ CistId \notin Msti
  BY ConfigAssumption DEF Table, Msti, CistId
<1> QED BY <1>1 DEF Mapped, Table

LEMMA MstiStep ==
  ASSUME NEW s \in Mstp, NEW m \in Msti, NEW vlans \in SUBSET Vlan
  PROVE  LET t == MstiConfig(s, m, vlans)
         IN  /\ t \in Mstp
             /\ t.spanning = s.spanning /\ t.cist = s.cist /\ t.info = s.info \cup {m}
             /\ t.table[m] = vlans
             /\ \A k \in Msti \ {m} : t.table[k] = s.table[k]
             /\ s.spanning /\ ~ t.dyn => t.table = s.table /\ t.digest = s.digest
<1> DEFINE t == MstiConfig(s, m, vlans)
           table == Mapped(s.table, m, vlans)
           live == s.spanning /\ table # s.table
           digest == IF live THEN DigestOf(table) ELSE s.digest
           n == (s.trees + 1) % 256
           d == s.dyn \/ live
<1>1. s.table \in Table
  BY DEF Mstp, Table
<1>2. /\ table \in Table /\ table[m] = vlans
      /\ \A k \in Msti \ {m} : table[k] = s.table[k]
  BY <1>1, MappedTable
<1>3. n \in TreeCount /\ d \in BOOLEAN /\ digest \in Digest \cup {Cleared}
  BY <1>2, CountType, DigestType DEF Mstp
<1>4. t = [s EXCEPT !.info = s.info \cup {m}, !.table = table, !.digest = digest,
                    !.dyn = d, !.trees = n]
  BY DEF MstiConfig
<1>5. s.spanning /\ ~ d => table = s.table /\ digest = s.digest
  BY DEF Mstp
<1> HIDE DEF t, table, digest, n, d
<1>6. t \in Mstp
  BY <1>2, <1>3, <1>4 DEF Mstp, Table
<1>7. /\ t.spanning = s.spanning /\ t.cist = s.cist /\ t.info = s.info \cup {m}
      /\ t.table = table /\ t.digest = digest /\ t.dyn = d
  BY <1>4 DEF Mstp
<1> QED BY <1>2, <1>5, <1>6, <1>7 DEF t

LEMMA UnmappedTable ==
  ASSUME NEW table \in Table, NEW ids \in SUBSET Msti
  PROVE  /\ Unmapped(table, ids) \in Table
         /\ \A m \in ids : Unmapped(table, ids)[m] = {}
         /\ \A m \in Msti \ ids : Unmapped(table, ids)[m] = table[m]
<1>1. DOMAIN table = {CistId} \cup Msti /\ CistId \notin Msti
  BY ConfigAssumption DEF Table, Msti, CistId
<1>2. UNION {table[m] : m \in ids} \in SUBSET Vlan
  BY DEF Table
<1> QED BY <1>1, <1>2 DEF Unmapped, Table

LEMMA DeleteStep ==
  ASSUME NEW s \in Mstp, NEW m \in Msti
  PROVE  LET t == MstiDelete(s, m)
         IN  /\ t \in Mstp
             /\ t.spanning = s.spanning /\ t.cist = s.cist /\ t.info = s.info \ {m}
             /\ m \notin s.info => t = s
             /\ m \in s.info => t.table[m] = {} /\ t.dyn
             /\ \A k \in Msti \ {m} : t.table[k] = s.table[k]
<1> DEFINE t == MstiDelete(s, m)
           table == Unmapped(s.table, {m})
           n == (s.trees - 1) % 256
<1>1. s.table \in Table
  BY DEF Mstp, Table
<1>2. /\ table \in Table /\ table[m] = {}
      /\ \A k \in Msti \ {m} : table[k] = s.table[k]
  BY <1>1, UnmappedTable
<1>3. n \in TreeCount /\ DigestOf(table) \in Digest
  BY <1>2, CountType, DigestType DEF Mstp
<1>4. CASE m \notin s.info
  <2>1. t = s
    BY <1>4 DEF MstiDelete
  <2>2. s.info = s.info \ {m}
    BY <1>4
  <2> QED BY <1>4, <2>1, <2>2
<1>5. CASE m \in s.info
  <2>1. t = [s EXCEPT !.info = s.info \ {m}, !.table = table, !.digest = DigestOf(table),
                      !.dyn = TRUE, !.trees = n]
    BY <1>5 DEF MstiDelete
  <2> HIDE DEF t, table, n
  <2>2. t \in Mstp
    BY <1>2, <1>3, <2>1 DEF Mstp, Table
  <2>3. /\ t.spanning = s.spanning /\ t.cist = s.cist /\ t.info = s.info \ {m}
        /\ t.table = table /\ t.dyn
    BY <2>1 DEF Mstp
  <2> QED BY <1>2, <1>5, <2>2, <2>3 DEF t
<1> QED BY <1>4, <1>5

LEMMA StartStep ==
  ASSUME NEW s \in Mstp
  PROVE  LET t == Started(s)
         IN  /\ t \in Mstp
             /\ t.spanning /\ ~ t.dyn /\ t.cist = s.cist /\ t.info = s.info
             /\ t.table = s.table /\ t.digest = DigestOf(s.table)
<1>1. DigestOf(s.table) \in Digest
  BY DigestType DEF Mstp, Table
<1> QED BY <1>1 DEF Started, Mstp

LEMMA WipeStep ==
  ASSUME NEW s \in Mstp, InfoIsTable(s)
  PROVE  LET t == Wiped(s)
         IN  /\ t \in Mstp
             /\ t.spanning = FALSE /\ t.dyn = FALSE /\ t.cist = Cleared /\ t.info = {}
             /\ InfoIsTable(t)
<1> DEFINE t == Wiped(s)
           table == [Unmapped(s.table, s.info) EXCEPT ![CistId] = {}]
<1>1. s.table \in Table /\ s.info \in SUBSET Msti
  BY DEF Mstp, Table
<1>2. table \in Table
  BY <1>1, UnmappedTable DEF Table
<1>3. ASSUME NEW m \in Msti PROVE table[m] = {}
  <2>1. m # CistId
    BY ConfigAssumption DEF Msti, CistId
  <2>2. table[m] = Unmapped(s.table, s.info)[m]
    BY <1>1, <2>1, UnmappedTable DEF Table
  <2> QED BY <1>1, <2>2, UnmappedTable DEF InfoIsTable
<1>4. t = [s EXCEPT !.spanning = FALSE, !.dyn = FALSE, !.cist = Cleared, !.info = {},
                    !.table = table, !.digest = Cleared, !.trees = 0]
  BY DEF Wiped
<1> HIDE DEF t, table
<1>5. t \in Mstp
  <2>1. 0 \in TreeCount /\ {} \in SUBSET Msti
    BY DEF TreeCount
  <2> QED BY <1>2, <1>4, <2>1 DEF Mstp, Table
<1>6. /\ t.spanning = FALSE /\ t.dyn = FALSE /\ t.cist = Cleared /\ t.info = {}
      /\ t.table = table
  BY <1>4 DEF Mstp
<1>7. InfoIsTable(t)
  BY <1>3, <1>6 DEF InfoIsTable
<1> QED BY <1>5, <1>6, <1>7 DEF t

\* handling e in s leads to t: what it sets, and what it leaves alone unless
\* the protocol starts or is to be re-initialised
Handled(s, e, t) ==
  /\ t \in Mstp
  /\ InfoIsTable(t)
  /\ t.spanning /\ ~ t.dyn => t.digest = DigestOf(t.table)
  /\ s.spanning /\ ~ t.dyn => t.cist = s.cist /\ t.info = s.info /\ t.table = s.table
  /\ e \in AdminEvent /\ (e.status \/ ~ s.spanning) => t.spanning = StatusOf[e]
  /\ e \notin AdminEvent => t.spanning = s.spanning
  /\ e \in CistEvent => t.cist = PriorityOf[e]
  /\ e \notin CistEvent => t.cist = s.cist
  /\ \A m \in Msti : /\ e \in About(m) => (m \in t.info) = Keeps(m)[e]
                     /\ e \notin About(m) => (m \in t.info) = (m \in s.info)

LEMMA AfterStep ==
  ASSUME NEW s \in Mstp, InfoIsTable(s), s.spanning => s.digest = DigestOf(s.table),
         NEW e \in Event
  PROVE  Handled(s, e, After(s, e))
<1> DEFINE t == After(s, e)
<1>0. s.spanning \in BOOLEAN
  BY DEF Mstp
<1>1. CASE e \in CistEvent
  <2>1. t = CistConfig(s, e.priority) /\ e.priority \in Priority /\ PriorityOf[e] = e.priority
    BY <1>1 DEF After, CistEvent, PriorityOf
  <2>2. e \notin AdminEvent /\ \A m \in Msti : e \notin About(m)
    BY <1>1, EventKinds
  <2> HIDE DEF t
  <2>3. /\ t \in Mstp
        /\ t.spanning = s.spanning /\ t.cist = e.priority /\ t.info = s.info
        /\ t.table = s.table /\ t.digest = s.digest
        /\ s.spanning /\ ~ t.dyn => s.cist = e.priority
    BY <2>1, CistStep
  <2>4. InfoIsTable(t)
    BY <2>3 DEF InfoIsTable
  <2> QED BY <1>1, <2>1, <2>2, <2>3, <2>4 DEF Handled, t
<1>2. CASE e \in MstiEvent
  <2>1. /\ t = MstiConfig(s, e.mstid, e.vlans)
        /\ e.mstid \in Msti /\ e.vlans \in SUBSET Vlan /\ e.vlans # {} /\ e.type = "msti"
    BY <1>2 DEF After, MstiEvent
  <2>2. e \notin AdminEvent /\ e \notin CistEvent
    BY <1>2, EventKinds
  <2> HIDE DEF t
  <2>3. /\ t \in Mstp
        /\ t.spanning = s.spanning /\ t.cist = s.cist /\ t.info = s.info \cup {e.mstid}
        /\ t.table[e.mstid] = e.vlans
        /\ \A k \in Msti \ {e.mstid} : t.table[k] = s.table[k]
        /\ s.spanning /\ ~ t.dyn => t.table = s.table /\ t.digest = s.digest
    BY <2>1, MstiStep
  <2>4. InfoIsTable(t)
    BY <2>1, <2>3 DEF InfoIsTable
  <2>5. s.spanning /\ ~ t.dyn => t.info = s.info
    <3>1. ASSUME t.table = s.table PROVE e.mstid \in s.info
      BY <2>1, <2>3, <3>1 DEF InfoIsTable
    <3> QED BY <2>3, <3>1
  <2>6. ASSUME NEW m \in Msti
        PROVE  /\ e \in About(m) => (m \in t.info) = Keeps(m)[e]
               /\ e \notin About(m) => (m \in t.info) = (m \in s.info)
    <3>1. e \in About(m) <=> m = e.mstid
      BY <1>2 DEF About
    <3>2. e \in About(m) => Keeps(m)[e] = TRUE
      BY <2>1 DEF Keeps
    <3>3. CASE m = e.mstid
      <4>1. (m \in t.info) = TRUE
        BY <2>3, <3>3
      <4> QED BY <3>1, <3>2, <3>3, <4>1
    <3>4. CASE m # e.mstid
      <4>1. (m \in t.info) = (m \in s.info)
        BY <2>3, <3>4
      <4> QED BY <3>1, <3>4, <4>1
    <3> QED BY <3>3, <3>4
  <2>7. t.spanning /\ ~ t.dyn => t.digest = DigestOf(t.table)
    BY <2>3
  <2> QED BY <2>2, <2>3, <2>4, <2>5, <2>6, <2>7 DEF Handled, t
<1>3. CASE e \in DeleteEvent
  <2>1. t = MstiDelete(s, e.mstid) /\ e.mstid \in Msti /\ e.type = "delete"
    BY <1>3 DEF After, DeleteEvent
  <2>2. e \notin AdminEvent /\ e \notin CistEvent
    BY <1>3, EventKinds
  <2> HIDE DEF t
  <2>3. /\ t \in Mstp
        /\ t.spanning = s.spanning /\ t.cist = s.cist /\ t.info = s.info \ {e.mstid}
        /\ e.mstid \notin s.info => t = s
        /\ e.mstid \in s.info => t.table[e.mstid] = {} /\ t.dyn
        /\ \A k \in Msti \ {e.mstid} : t.table[k] = s.table[k]
    BY <2>1, DeleteStep
  <2>4. InfoIsTable(t)
    BY <2>1, <2>3 DEF InfoIsTable
  <2>5. ~ t.dyn => t = s
    BY <2>3
  <2>6. ASSUME NEW m \in Msti
        PROVE  /\ e \in About(m) => (m \in t.info) = Keeps(m)[e]
               /\ e \notin About(m) => (m \in t.info) = (m \in s.info)
    <3>1. e \in About(m) <=> m = e.mstid
      BY <1>3 DEF About
    <3>2. e \in About(m) => Keeps(m)[e] = FALSE
      BY <2>1 DEF Keeps
    <3>3. CASE m = e.mstid
      <4>1. (m \in t.info) = FALSE
        BY <2>3, <3>3
      <4> QED BY <3>1, <3>2, <3>3, <4>1
    <3>4. CASE m # e.mstid
      <4>1. (m \in t.info) = (m \in s.info)
        BY <2>3, <3>4
      <4> QED BY <3>1, <3>4, <4>1
    <3> QED BY <3>3, <3>4
  <2> QED BY <2>2, <2>3, <2>4, <2>5, <2>6 DEF Handled, t
<1>4. CASE e \in AdminEvent
  <2>1. /\ e.type = "admin" /\ e.status \in BOOLEAN /\ StatusOf[e] = e.status
        /\ t = IF e.status /\ ~ s.spanning THEN Started(s) ELSE s
    BY <1>4 DEF After, AdminEvent, StatusOf
  <2>2. e \notin CistEvent /\ \A m \in Msti : e \notin About(m)
    BY <1>4, EventKinds
  <2> HIDE DEF t
  <2>3. CASE e.status /\ ~ s.spanning
    <3>1. /\ t \in Mstp
          /\ t.spanning /\ ~ t.dyn /\ t.cist = s.cist /\ t.info = s.info
          /\ t.table = s.table /\ t.digest = DigestOf(s.table)
      BY <2>1, <2>3, StartStep
    <3>2. InfoIsTable(t)
      BY <3>1 DEF InfoIsTable
    <3>3. t.spanning = StatusOf[e]
      BY <2>1, <2>3, <3>1 DEF Mstp
    <3> QED BY <1>4, <2>2, <2>3, <3>1, <3>2, <3>3 DEF Handled, t
  <2>4. CASE ~ (e.status /\ ~ s.spanning)
    <3>1. t = s
      BY <2>1, <2>4
    <3>2. e.status \/ ~ s.spanning => t.spanning = StatusOf[e]
      BY <1>0, <2>1, <2>4, <3>1
    <3> QED BY <1>4, <2>2, <3>1, <3>2 DEF Handled, t
  <2> QED BY <2>3, <2>4
<1>5. e \in CistEvent \cup MstiEvent \cup DeleteEvent \cup AdminEvent
  BY EventKinds
<1> QED BY <1>1, <1>2, <1>3, <1>4, <1>5

LEMMA HandleMirror ==
  ASSUME NEW q \in Seq(Event), q # <<>>, NEW s, NEW t, NEW c,
         Mirrors(q, s, c), Handled(s, Head(q), t),
         Head(q) \in AdminEvent => Head(q).status \/ ~ s.spanning
  PROVE  Mirrors(Tail(q), t, c)
<1>1. Leads(Tail(q), AdminEvent, StatusOf, t.spanning, c.enable)
  <2>1. Leads(q, AdminEvent, StatusOf, s.spanning, c.enable)
    BY DEF Mirrors
  <2>2. /\ Head(q) \in AdminEvent => t.spanning = StatusOf[Head(q)]
        /\ Head(q) \notin AdminEvent => t.spanning = s.spanning
    BY DEF Handled
  <2> QED BY <2>1, <2>2, HandleOne
<1>2. Leads(Tail(q), CistEvent, PriorityOf, t.cist, c.priority)
  <2>1. Leads(q, CistEvent, PriorityOf, s.cist, c.priority)
    BY DEF Mirrors
  <2>2. /\ Head(q) \in CistEvent => t.cist = PriorityOf[Head(q)]
        /\ Head(q) \notin CistEvent => t.cist = s.cist
    BY DEF Handled
  <2> QED BY <2>1, <2>2, HandleOne
<1>3. ASSUME NEW m \in Msti
      PROVE  Leads(Tail(q), About(m), Keeps(m), m \in t.info, c.msti[m] # {})
  <2> DEFINE before == m \in s.info
             now == m \in t.info
             after == c.msti[m] # {}
  <2>1. Leads(q, About(m), Keeps(m), before, after)
    BY DEF Mirrors
  <2>2. /\ Head(q) \in About(m) => now = Keeps(m)[Head(q)]
        /\ Head(q) \notin About(m) => now = before
    BY DEF Handled
  <2> HIDE DEF before, now, after
  <2>3. Leads(Tail(q), About(m), Keeps(m), now, after)
    BY <2>1, <2>2, HandleOne
  <2> QED BY <2>3 DEF now, after
<1> QED BY <1>1, <1>2, <1>3 DEF Mirrors
-----------------------------------------------------------------------------
(* The inductive invariant *)

IInv ==
  /\ TypeOK
  /\ InfoIsTable(mstp)
  /\ DigestCurrent
  /\ Mirrors(queue, mstp, conf)
  /\ ~ fresh => Holds(conf, replica)

LEMMA InitInv == Init => IInv
<1> SUFFICES ASSUME Init PROVE IInv
  OBVIOUS
<1> USE DEF Init
<1>1. db \in Config /\ replica \in Config
  BY DEF Config
<1>2. mstp \in Mstp
  <2> DEFINE table == [t \in {CistId} \cup Msti |-> IF t = CistId THEN Vlan ELSE {}]
  <2>1. table \in [{CistId} \cup Msti -> SUBSET Vlan] /\ 0 \in TreeCount
    BY DEF TreeCount
  <2> QED BY <2>1 DEF Mstp
<1>3. TypeOK
  <2>1. <<>> \in Seq(Event)
    OBVIOUS
  <2>2. changes \in 0 .. MaxChanges
    BY ConfigAssumption
  <2> QED BY <1>1, <1>2, <2>1, <2>2 DEF TypeOK
<1>4. InfoIsTable(mstp)
  <2>1. CistId \notin Msti
    BY ConfigAssumption DEF CistId, Msti
  <2> QED BY <2>1 DEF InfoIsTable
<1>5. Mirrors(queue, mstp, conf)
  <2>1. \A K : Silent(<<>>, K)
    BY DEF Silent
  <2>2. /\ mstp.spanning = conf.enable /\ mstp.cist = conf.priority
        /\ \A m \in Msti : (m \in mstp.info) = (conf.msti[m] # {})
    BY DEF NoConf
  <2> QED BY <2>1, <2>2, Zenon DEF Mirrors, Leads
<1>6. DigestCurrent /\ fresh
  BY DEF DigestCurrent
<1> QED BY <1>3, <1>4, <1>5, <1>6 DEF IInv

\* a command of the CLI changes the database and nothing else
LEMMA CliInv == ASSUME IInv, Cli PROVE IInv' /\ UNCHANGED mstp
<1>1. db \in Config
  BY DEF IInv, TypeOK
<1>2. \E new \in Config : Change(new)
  <2>1. CASE CliEnable
    BY <1>1, <2>1 DEF CliEnable, Config
  <2>2. ASSUME NEW p \in Priority, CliPriority(p) PROVE \E new \in Config : Change(new)
    BY <1>1, <2>2 DEF CliPriority, Config
  <2>3. ASSUME NEW m \in Msti, CliNoInstance(m) PROVE \E new \in Config : Change(new)
    BY <1>1, <2>3 DEF CliNoInstance, Config
  <2>4. ASSUME NEW m \in Msti, NEW v \in Vlan, CliMap(m, v)
        PROVE  \E new \in Config : Change(new)
    BY <1>1, <2>4 DEF CliMap, Config
  <2>5. ASSUME NEW m \in Msti, NEW v \in Vlan, CliUnmap(m, v)
        PROVE  \E new \in Config : Change(new)
    BY <1>1, <2>5 DEF CliUnmap, Config
  <2> QED BY <2>1, <2>2, <2>3, <2>4, <2>5 DEF Cli
<1>3. PICK new \in Config : Change(new)
  BY <1>2
<1>4. /\ db' \in Config /\ UNCHANGED <<replica, fresh, conf, queue, mstp>>
      /\ changes' \in 0 .. MaxChanges /\ unseen' \in BOOLEAN /\ hurried' \in BOOLEAN
  BY <1>3, ConfigAssumption DEF Change, IInv, TypeOK
<1>5. TypeOK'
  BY <1>4 DEF IInv, TypeOK
<1>6. InfoIsTable(mstp)' /\ DigestCurrent' /\ Mirrors(queue, mstp, conf)'
      /\ (~ fresh => Holds(conf, replica))'
  BY <1>4 DEF IInv, InfoIsTable, DigestCurrent, Mirrors, Holds
<1> QED BY <1>4, <1>5, <1>6 DEF IInv

LEMMA LookInv == ASSUME IInv, Look PROVE IInv' /\ UNCHANGED mstp
<1>1. /\ db \in Config /\ conf \in Caches /\ queue \in Seq(Event)
      /\ Mirrors(queue, mstp, conf)
  BY DEF IInv, TypeOK, Caches
<1>2. /\ replica' = db /\ fresh' = FALSE /\ queue' = queue \o Events(conf, db)
      /\ conf' = Cached(conf, db) /\ unseen' = FALSE /\ UNCHANGED <<db, mstp, changes, hurried>>
  BY DEF Look
<1>3. queue' \in Seq(Event) /\ Mirrors(queue', mstp, conf')
  BY <1>1, <1>2, EventsMirror
<1>4. conf' \in Config /\ Holds(conf', replica')
  BY <1>1, <1>2, CachedType, CachedHolds
<1>5. TypeOK'
  BY <1>1, <1>2, <1>3, <1>4 DEF IInv, TypeOK
<1>6. InfoIsTable(mstp)' /\ DigestCurrent'
  BY <1>2 DEF IInv, InfoIsTable, DigestCurrent
<1>7. Mirrors(queue, mstp, conf)' /\ (~ fresh => Holds(conf, replica))'
  BY <1>2, <1>3, <1>4
<1> QED BY <1>2, <1>5, <1>6, <1>7 DEF IInv

LEMMA CommitsInv ==
  ASSUME IInv, Commits
  PROVE  /\ replica' \in Config /\ fresh' \in BOOLEAN
         /\ ~ fresh' => ~ fresh /\ replica' = replica
BY DEF Commits, IInv, TypeOK

LEMMA HandleInv ==
  ASSUME IInv, Handle
  PROVE  IInv' /\ (mstp.spanning => UNCHANGED <<mstp.cist, mstp.info, mstp.table>>)
<1> DEFINE e == Head(queue)
<1>1. /\ mstp \in Mstp /\ queue \in Seq(Event) /\ queue # <<>> /\ e \in Event
      /\ conf \in Caches /\ InfoIsTable(mstp) /\ Mirrors(queue, mstp, conf)
      /\ mstp.spanning => mstp.digest = DigestOf(mstp.table)
  BY DEF IInv, TypeOK, Caches, DigestCurrent, Handle
<1>2. /\ ~ MustReinit(e) /\ mstp' = After(mstp, e) /\ queue' = Tail(queue) /\ Commits
      /\ UNCHANGED <<db, conf, changes, unseen, hurried>>
  BY DEF Handle
<1> HIDE DEF e
<1>3. Handled(mstp, e, mstp')
  BY <1>1, <1>2, AfterStep
<1>4. e \in AdminEvent => e.status \/ ~ mstp.spanning
  BY <1>2, EventKinds DEF MustReinit
<1>5. ~ (mstp'.spanning /\ mstp'.dyn)
  BY <1>2 DEF MustReinit
<1>6. Mirrors(queue', mstp', conf')
  BY <1>1, <1>2, <1>3, <1>4, HandleMirror DEF e
<1>7. replica' \in Config /\ fresh' \in BOOLEAN /\ (~ fresh' => ~ fresh /\ replica' = replica)
  BY <1>2, CommitsInv
<1>8. mstp' \in Mstp /\ InfoIsTable(mstp') /\ (mstp'.spanning => mstp'.digest = DigestOf(mstp'.table))
  BY <1>3, <1>5 DEF Handled
<1>9. queue' \in Seq(Event)
  BY <1>1, <1>2
<1>10. TypeOK'
  BY <1>2, <1>7, <1>8, <1>9 DEF IInv, TypeOK
<1>11. (~ fresh => Holds(conf, replica))'
  BY <1>2, <1>7 DEF IInv, Holds
<1>12. mstp.spanning => mstp'.cist = mstp.cist /\ mstp'.info = mstp.info /\ mstp'.table = mstp.table
  <2>1. CASE mstp'.spanning
    BY <1>3, <1>5, <2>1 DEF Handled
  <2>2. CASE ~ mstp'.spanning
    BY <1>1, <1>3, <1>4, <2>2, EventKinds DEF Handled, StatusOf
  <2> QED BY <2>1, <2>2
<1> QED BY <1>6, <1>8, <1>10, <1>11, <1>12 DEF IInv, DigestCurrent

LEMMA ReinitInv == ASSUME IInv, Reinit PROVE IInv' /\ ~ mstp'.spanning
<1> DEFINE e == Head(queue)
           s == After(mstp, e)
<1>1. /\ mstp \in Mstp /\ queue \in Seq(Event) /\ queue # <<>> /\ e \in Event
      /\ InfoIsTable(mstp)
      /\ mstp.spanning => mstp.digest = DigestOf(mstp.table)
  BY DEF IInv, TypeOK, DigestCurrent, Reinit
<1>2. /\ mstp' = Wiped(s) /\ Commits
      /\ queue' = Events(NoConf, replica') /\ conf' = Cached(NoConf, replica')
      /\ unseen' = (unseen /\ replica' # db) /\ UNCHANGED <<db, changes, hurried>>
  BY DEF Reinit
<1> HIDE DEF e, s
<1>3. s \in Mstp /\ InfoIsTable(s)
  <2>1. Handled(mstp, e, s)
    BY <1>1, AfterStep DEF s
  <2> QED BY <2>1 DEF Handled
<1>4. /\ mstp' \in Mstp /\ mstp'.spanning = FALSE /\ mstp'.cist = Cleared
      /\ mstp'.info = {} /\ InfoIsTable(mstp')
  BY <1>2, <1>3, WipeStep
<1>5. replica' \in Config /\ fresh' \in BOOLEAN
  BY <1>2, CommitsInv
<1>6. queue' \in Seq(Event) /\ Mirrors(queue', mstp', conf')
  BY <1>2, <1>4, <1>5, ReinitMirror
<1>7. conf' \in Config /\ Holds(conf', replica')
  BY <1>2, <1>5, CachedType, CachedHolds DEF Caches
<1>8. TypeOK'
  BY <1>2, <1>4, <1>5, <1>6, <1>7 DEF IInv, TypeOK
<1> QED BY <1>4, <1>6, <1>7, <1>8 DEF IInv, DigestCurrent

LEMMA NextInv == ASSUME IInv, [Next]_vars PROVE IInv'
<1>1. CASE Next
  BY <1>1, CliInv, LookInv, HandleInv, ReinitInv DEF Next
<1>2. CASE UNCHANGED vars
  BY <1>2 DEF vars, IInv, TypeOK, InfoIsTable, DigestCurrent, Mirrors, Holds
<1> QED BY <1>1, <1>2
-----------------------------------------------------------------------------
\* The events of a look are sent in an order and with values the handlers of
\* the Protocol thread accept, and what they work with keeps its type.
THEOREM ConfigTypes == Spec => []TypeOK
<1>1. IInv => TypeOK
  BY DEF IInv
<1> QED BY InitInv, NextInv, <1>1, PTL DEF Spec

\* mstp_buildMstConfigurationDigest is called wherever the VLAN table of a
\* running protocol has changed.
THEOREM DigestIsCurrent == Spec => []DigestCurrent
<1>1. IInv => DigestCurrent
  BY DEF IInv
<1> QED BY InitInv, NextInv, <1>1, PTL DEF Spec

\* When no event waits and the replica is up to date the protocol runs with
\* what the database holds, whatever mstp_config_reinit flushed on the way.
THEOREM ConfigIsApplied == Spec => []Applied
<1>1. IInv => Applied
  <2> SUFFICES ASSUME IInv, Settled PROVE
        /\ mstp.spanning = db.enable
        /\ mstp.cist = db.priority
        /\ mstp.info = {m \in Msti : db.msti[m] # {}}
    BY DEF Applied
  <2>1. Holds(conf, db) /\ queue = <<>> /\ mstp \in Mstp
    BY DEF IInv, TypeOK, Settled
  <2>2. \A K, To, v : ~ LastSets(queue, K, To, v)
    BY <2>1 DEF LastSets
  <2>3. /\ mstp.spanning = conf.enable /\ mstp.cist = conf.priority
        /\ \A m \in Msti : (m \in mstp.info) = (conf.msti[m] # {})
    BY <2>2, Zenon DEF IInv, Mirrors, Leads
  <2>4. mstp.info \subseteq Msti
    BY <2>1 DEF Mstp
  <2> QED BY <2>1, <2>3, <2>4 DEF Holds
<1> QED BY InitInv, NextInv, <1>1, PTL DEF Spec

\* No event changes the values a running protocol works with: it is wiped
\* (mstp_checkDynReconfigChanges) in the step that would.
THEOREM NeverLiveHolds == Spec => NeverLive
<1>1. ASSUME IInv, [Next]_vars
      PROVE  [mstp.spanning /\ mstp'.spanning =>
                UNCHANGED <<mstp.cist, mstp.info, mstp.table>>]_vars
  <2>1. CASE Cli \/ Look
    BY <1>1, <2>1, CliInv, LookInv
  <2>2. CASE Handle
    BY <1>1, <2>2, HandleInv
  <2>3. CASE Reinit
    BY <1>1, <2>3, ReinitInv
  <2>4. CASE UNCHANGED vars
    BY <2>4
  <2> QED BY <1>1, <2>1, <2>2, <2>3, <2>4 DEF Next
<1> QED BY InitInv, NextInv, <1>1, PTL DEF Spec, NeverLive
-----------------------------------------------------------------------------
(* The VLANs: the events in the queue walk the table from the map it holds *)
(* to the map in the caches, and no map on the way has a VLAN on two trees *)

Maps == [Msti -> SUBSET Vlan]
Apart(x) == \A m \in Msti, k \in Msti : m # k => x[m] \cap x[k] = {}

\* what e does to the map x
Told(e) == IF e.type = "msti" THEN e.vlans ELSE {}
Row(x, e) == [m \in Msti |-> IF e \in About(m) THEN Told(e) ELSE x[m]]

WalksBy(T, q, x, y) ==
  /\ T \in [0 .. Len(q) -> Maps]
  /\ T[0] = x /\ T[Len(q)] = y
  /\ \A i \in 0 .. Len(q) : Apart(T[i])
  /\ \A i \in 1 .. Len(q) : T[i] = Row(T[i - 1], q[i])

Walk(q, x, y) == \E T : WalksBy(T, q, x, y)

LEMMA WalkStays ==
  ASSUME NEW x \in Maps, Apart(x)
  PROVE  Walk(<<>>, x, x)
<1> DEFINE T == [i \in 0 .. 0 |-> x]
<1>1. Len(<<>>) = 0 /\ 1 .. 0 = {}
  OBVIOUS
<1>2. T \in [0 .. 0 -> Maps] /\ T[0] = x /\ \A i \in 0 .. 0 : T[i] = x
  OBVIOUS
<1> HIDE DEF T
<1>3. WalksBy(T, <<>>, x, x)
  BY <1>1, <1>2 DEF WalksBy
<1> QED BY <1>3 DEF Walk

LEMMA WalkEnds ==
  ASSUME NEW q \in Seq(Event), NEW x, NEW y, Walk(q, x, y)
  PROVE  /\ x \in Maps /\ Apart(x)
         /\ q = <<>> => x = y
<1>1. PICK T : WalksBy(T, q, x, y)
  BY DEF Walk
<1>2. Len(q) \in Nat /\ 0 \in 0 .. Len(q) /\ (q = <<>> => Len(q) = 0)
  OBVIOUS
<1> QED BY <1>1, <1>2 DEF WalksBy

\* the thread handles the first event
LEMMA WalkOne ==
  ASSUME NEW q \in Seq(Event), q # <<>>, NEW x, NEW y, Walk(q, x, y)
  PROVE  Walk(Tail(q), Row(x, Head(q)), y)
<1>1. PICK T : WalksBy(T, q, x, y)
  BY DEF Walk
<1>2. Len(q) \in Nat \ {0} /\ Len(Tail(q)) = Len(q) - 1 /\ Head(q) = q[1]
      /\ \A i \in 1 .. Len(q) - 1 : Tail(q)[i] = q[i + 1]
  OBVIOUS
<1> DEFINE n == Len(q) - 1
           U == [i \in 0 .. n |-> T[i + 1]]
<1>3. n \in Nat /\ n + 1 = Len(q) /\ \A i \in 0 .. n : i + 1 \in 0 .. Len(q)
      /\ 0 \in 0 .. n /\ n \in 0 .. n /\ 0 + 1 = 1
  BY <1>2
<1>4. \A i \in 0 .. n : U[i] = T[i + 1]
  OBVIOUS
<1>5. U \in [0 .. n -> Maps]
  BY <1>1, <1>3 DEF WalksBy
<1>6. \A i \in 0 .. n : Apart(U[i])
  <2>1. \A i \in 0 .. Len(q) : Apart(T[i])
    BY <1>1 DEF WalksBy
  <2> HIDE DEF U
  <2> QED BY <2>1, <1>3, <1>4
<1>7. U[0] = Row(x, Head(q)) /\ U[n] = y
  <2>1. /\ T[0] = x /\ T[Len(q)] = y
        /\ \A i \in 1 .. Len(q) : T[i] = Row(T[i - 1], q[i])
    BY <1>1 DEF WalksBy
  <2>2. 1 \in 1 .. Len(q) /\ 1 - 1 = 0
    BY <1>2
  <2>3. T[1] = Row(T[0], q[1])
    BY <2>1, <2>2
  <2>4. U[0] = T[1] /\ U[n] = T[Len(q)]
    <3> HIDE DEF U
    <3>1. U[0] = T[0 + 1] /\ U[n] = T[n + 1]
      BY <1>3, <1>4
    <3> QED BY <3>1, <1>3
  <2> QED BY <2>1, <2>3, <2>4, <1>2
<1>8. ASSUME NEW i \in 1 .. n PROVE U[i] = Row(U[i - 1], Tail(q)[i])
  <2>1. i + 1 \in 1 .. Len(q) /\ (i + 1) - 1 = i /\ i \in 0 .. n /\ i - 1 \in 0 .. n
        /\ (i - 1) + 1 = i
    BY <1>3
  <2>2. T[i + 1] = Row(T[(i + 1) - 1], q[i + 1])
    BY <1>1, <2>1 DEF WalksBy
  <2>3. U[i] = T[i + 1] /\ U[i - 1] = T[i] /\ Tail(q)[i] = q[i + 1]
    <3> HIDE DEF U
    <3>1. U[i - 1] = T[(i - 1) + 1]
      BY <1>4, <2>1
    <3> QED BY <3>1, <1>2, <1>4, <2>1
  <2> HIDE DEF U
  <2> QED BY <2>1, <2>2, <2>3
<1> HIDE DEF U, n
<1>9. WalksBy(U, Tail(q), Row(x, Head(q)), y)
  <2>1. Len(Tail(q)) = n
    BY <1>2 DEF n
  <2> QED BY <2>1, <1>5, <1>6, <1>7, <1>8 DEF WalksBy
<1> QED BY <1>9 DEF Walk

LEMMA WalkOn ==
  ASSUME NEW q \in Seq(Event), NEW es \in Seq(Event), NEW x, NEW y, NEW z,
         Walk(q, x, y), Walk(es, y, z)
  PROVE  Walk(q \o es, x, z)
<1>1. PICK T : WalksBy(T, q, x, y)
  BY DEF Walk
<1>2. PICK S : WalksBy(S, es, y, z)
  BY DEF Walk
<1> DEFINE a == Len(q)
           b == Len(es)
           all == q \o es
           U == [i \in 0 .. a + b |-> IF i <= a THEN T[i] ELSE S[i - a]]
<1>3. /\ a \in Nat /\ b \in Nat /\ Len(all) = a + b
      /\ \A i \in 1 .. a : all[i] = q[i]
      /\ \A i \in a + 1 .. a + b : all[i] = es[i - a]
  OBVIOUS
<1>4. /\ T \in [0 .. a -> Maps] /\ T[0] = x /\ T[a] = y
      /\ \A i \in 0 .. a : Apart(T[i])
      /\ \A i \in 1 .. a : T[i] = Row(T[i - 1], q[i])
  BY <1>1 DEF WalksBy
<1>5. /\ S \in [0 .. b -> Maps] /\ S[0] = y /\ S[b] = z
      /\ \A i \in 0 .. b : Apart(S[i])
      /\ \A i \in 1 .. b : S[i] = Row(S[i - 1], es[i])
  BY <1>2 DEF WalksBy
<1> HIDE DEF a, b, all
<1>6. /\ \A i \in 0 .. a : U[i] = T[i]
      /\ \A i \in a .. a + b : U[i] = S[i - a]
  <2>1. \A i \in 0 .. a : U[i] = T[i]
    BY <1>3
  <2>2. ASSUME NEW i \in a .. a + b PROVE U[i] = S[i - a]
    <3>1. CASE i = a
      <4>1. a - a = 0
        BY <1>3
      <4> QED BY <1>3, <1>4, <1>5, <3>1, <4>1
    <3>2. CASE i # a
      BY <1>3, <3>2
    <3> QED BY <3>1, <3>2
  <2> QED BY <2>1, <2>2
<1>7. ASSUME NEW i \in 0 .. a + b PROVE U[i] \in Maps /\ Apart(U[i])
  <2> HIDE DEF U
  <2>1. CASE i \in 0 .. a
    BY <1>4, <1>6, <2>1
  <2>2. CASE i \notin 0 .. a
    <3>1. i \in a .. a + b /\ i - a \in 0 .. b
      BY <1>3, <2>2
    <3> QED BY <1>5, <1>6, <3>1
  <2> QED BY <2>1, <2>2
<1>8. U \in [0 .. a + b -> Maps]
  BY <1>7
<1>9. U[0] = x /\ U[a + b] = z
  <2>1. 0 \in 0 .. a /\ a + b \in a .. a + b /\ (a + b) - a = b
    BY <1>3
  <2> HIDE DEF U
  <2> QED BY <2>1, <1>4, <1>5, <1>6
<1>10. ASSUME NEW i \in 1 .. a + b PROVE U[i] = Row(U[i - 1], all[i])
  <2> HIDE DEF U
  <2>1. CASE i \in 1 .. a
    <3>1. i \in 0 .. a /\ i - 1 \in 0 .. a
      BY <1>3, <2>1
    <3> QED BY <1>3, <1>4, <1>6, <2>1, <3>1
  <2>2. CASE i \notin 1 .. a
    <3>1. /\ i \in a .. a + b /\ i - 1 \in a .. a + b /\ i - a \in 1 .. b
          /\ i \in a + 1 .. a + b /\ (i - 1) - a = (i - a) - 1
      BY <1>3, <2>2
    <3>2. U[i] = S[i - a] /\ U[i - 1] = S[(i - a) - 1] /\ all[i] = es[i - a]
      BY <1>3, <1>6, <3>1
    <3> QED BY <1>5, <3>1, <3>2
  <2> QED BY <2>1, <2>2
<1> HIDE DEF U
<1>11. WalksBy(U, all, x, z)
  BY <1>3, <1>7, <1>8, <1>9, <1>10 DEF WalksBy
<1> QED BY <1>11 DEF Walk, all

\* a set of events that all say what the map y holds for their instance
Saying(y) == {e \in Event : \A m \in Msti : e \in About(m) => Told(e) = y[m]}

\* x and y may be mixed: no VLAN is on two trees in any mixture
Mixes(x, y) ==
  \A m \in Msti, k \in Msti :
    m # k => x[m] \cap x[k] = {} /\ y[m] \cap y[k] = {} /\ x[m] \cap y[k] = {}

LEMMA WalkSaid ==
  ASSUME NEW x \in Maps, NEW y \in Maps, Mixes(x, y), NEW es \in Seq(Saying(y)),
         \A m \in Msti : Silent(es, About(m)) => x[m] = y[m]
  PROVE  Walk(es, x, y)
<1> DEFINE n == Len(es)
           Said(i, m) == \E j \in 1 .. i : es[j] \in About(m)
           T == [i \in 0 .. n |-> [m \in Msti |-> IF Said(i, m) THEN y[m] ELSE x[m]]]
<1>1. n \in Nat /\ DOMAIN es = 1 .. n /\ \A i \in 1 .. n : es[i] \in Saying(y)
  OBVIOUS
<1> HIDE DEF n
<1>2. ASSUME NEW i \in 0 .. n
      PROVE  /\ T[i] = [m \in Msti |-> IF Said(i, m) THEN y[m] ELSE x[m]]
             /\ T[i] \in Maps
             /\ \A m \in Msti : T[i][m] = y[m] \/ T[i][m] = x[m]
  <2> HIDE DEF Said
  <2>1. T[i] = [m \in Msti |-> IF Said(i, m) THEN y[m] ELSE x[m]]
    OBVIOUS
  <2> HIDE DEF T
  <2> QED BY <2>1 DEF Maps
<1>3. T \in [0 .. n -> Maps]
  <2>1. \A i \in 0 .. n : T[i] \in Maps
    BY <1>2
  <2> QED BY <2>1
<1>4. ASSUME NEW i \in 0 .. n PROVE Apart(T[i])
  <2> HIDE DEF T
  <2>1. ASSUME NEW m \in Msti, NEW k \in Msti, m # k PROVE T[i][m] \cap T[i][k] = {}
    <3>1. /\ T[i][m] = y[m] \/ T[i][m] = x[m]
          /\ T[i][k] = y[k] \/ T[i][k] = x[k]
      BY <1>2
    <3>2. /\ x[m] \cap x[k] = {} /\ y[m] \cap y[k] = {}
          /\ x[m] \cap y[k] = {} /\ x[k] \cap y[m] = {}
      BY <2>1 DEF Mixes
    <3> QED BY <3>1, <3>2
  <2> QED BY <2>1 DEF Apart
<1>5. T[0] = x
  <2>1. T[0] = [m \in Msti |-> IF Said(0, m) THEN y[m] ELSE x[m]] /\ 1 .. 0 = {}
    BY <1>1, <1>2
  <2>2. T[0] = [m \in Msti |-> x[m]]
    BY <2>1
  <2> QED BY <2>2 DEF Maps
<1>6. T[n] = y
  <2>1. T[n] = [m \in Msti |-> IF Said(n, m) THEN y[m] ELSE x[m]]
    BY <1>1, <1>2
  <2>2. ASSUME NEW m \in Msti, ~ Said(n, m) PROVE x[m] = y[m]
    <3>1. Silent(es, About(m))
      BY <1>1, <2>2 DEF Silent
    <3> QED BY <3>1
  <2> HIDE DEF T, Said
  <2>3. T[n] = [m \in Msti |-> y[m]]
    BY <2>1, <2>2
  <2> QED BY <2>3 DEF Maps
<1>7. ASSUME NEW i \in 1 .. n PROVE T[i] = Row(T[i - 1], es[i])
  <2>1. i \in 0 .. n /\ i - 1 \in 0 .. n
    BY <1>1
  <2>2. ASSUME NEW m \in Msti PROVE Said(i, m) <=> Said(i - 1, m) \/ es[i] \in About(m)
    <3>1. 1 .. i = (1 .. i - 1) \cup {i}
      BY <1>1
    <3> QED BY <3>1
  <2>3. es[i] \in Saying(y)
    BY <1>1
  <2> HIDE DEF Said, T
  <2>4. ASSUME NEW m \in Msti
        PROVE  T[i][m] = IF es[i] \in About(m) THEN Told(es[i]) ELSE T[i - 1][m]
    <3>1. es[i] \in About(m) => Told(es[i]) = y[m]
      BY <2>3 DEF Saying
    <3>2. /\ T[i][m] = IF Said(i, m) THEN y[m] ELSE x[m]
          /\ T[i - 1][m] = IF Said(i - 1, m) THEN y[m] ELSE x[m]
      BY <1>2, <2>1
    <3> QED BY <2>2, <3>1, <3>2
  <2>5. T[i] \in Maps
    BY <1>2, <2>1
  <2> QED BY <2>4, <2>5 DEF Row, Maps
<1> HIDE DEF T
<1>8. WalksBy(T, es, x, y)
  BY <1>3, <1>4, <1>5, <1>6, <1>7 DEF WalksBy, n
<1> QED BY <1>8 DEF Walk

LEMMA SilentParts ==
  ASSUME NEW E, NEW a \in Seq(E), NEW b \in Seq(E), NEW K, Silent(a \o b, K)
  PROVE  Silent(a, K) /\ Silent(b, K)
<1>1. \A i \in DOMAIN a : i \in DOMAIN (a \o b) /\ (a \o b)[i] = a[i]
  OBVIOUS
<1>2. \A i \in DOMAIN b : Len(a) + i \in DOMAIN (a \o b) /\ (a \o b)[Len(a) + i] = b[i]
  OBVIOUS
<1> QED BY <1>1, <1>2 DEF Silent

\* an update sends what the cache then holds, a delete that it holds nothing
LEMMA EventsSay ==
  ASSUME NEW c \in Caches, NEW r \in Config
  PROVE  /\ Events(c, r) \in Seq(Saying(Cached(c, r).msti))
         /\ \A m \in Msti : Silent(Events(c, r), About(m)) =>
              c.msti[m] = Cached(c, r).msti[m]
<1> DEFINE ce == CistEvents(c, r)
           ue == UpdateEvents(c, r)
           de == DeleteEvents(c, r)
           ae == AdminEvents(c, r)
           y == Cached(c, r).msti
<1>1. /\ ce \in Seq(CistEvent) /\ ue \in Seq(MstiEvent)
      /\ de \in Seq(DeleteEvent) /\ ae \in Seq(AdminEvent)
  BY CistEventsOnce, UpdateEventsOnce, DeleteEventsOnce, AdminEventsOnce
<1>2. CistEvent \subseteq Saying(y) /\ AdminEvent \subseteq Saying(y)
  BY EventKinds DEF Saying
<1>3. ue \in Seq(Saying(y))
  <2> DEFINE event == [m \in Msti |-> [type |-> "msti", mstid |-> m, vlans |-> y[m]]]
  <2>1. ue = EventsFor(Updated(c, r), event) /\ Updated(c, r) \in SUBSET Msti
    BY DEF UpdateEvents, Updated
  <2>2. ASSUME NEW m \in Updated(c, r) PROVE event[m] \in Saying(y)
    <3>1. /\ event[m] \in MstiEvent /\ event[m].mstid = m /\ event[m].type = "msti"
          /\ event[m].vlans = y[m]
      BY UpdatedHasVlans DEF MstiEvent
    <3> HIDE DEF event, y
    <3>2. event[m] \in Event /\ Told(event[m]) = y[m]
          /\ \A k \in Msti : event[m] \in About(k) => k = m
      BY <3>1, EventKinds DEF Told, About
    <3> QED BY <3>2 DEF Saying
  <2> HIDE DEF event, ue, y
  <2> QED BY <2>1, <2>2, EventsForOnce
<1>4. de \in Seq(Saying(y))
  <2> DEFINE event == [m \in Msti |-> [type |-> "delete", mstid |-> m]]
  <2>1. de = EventsFor(Deleted(c, r), event) /\ Deleted(c, r) \in SUBSET Msti
    BY DEF DeleteEvents, Deleted
  <2>2. ASSUME NEW m \in Deleted(c, r) PROVE event[m] \in Saying(y)
    <3>1. event[m] \in DeleteEvent /\ event[m].mstid = m /\ event[m].type = "delete"
      BY <2>1 DEF DeleteEvent
    <3>2. y[m] = {}
      BY <2>1, CachesFollow
    <3> HIDE DEF event, y
    <3>3. event[m] \in Event /\ Told(event[m]) = y[m]
          /\ \A k \in Msti : event[m] \in About(k) => k = m
      BY <3>1, <3>2, EventKinds DEF Told, About
    <3> QED BY <3>3 DEF Saying
  <2> HIDE DEF event, de, y
  <2> QED BY <2>1, <2>2, EventsForOnce
<1>5. /\ <<>> \in Seq(Event) /\ Events(c, r) \in Seq(Event)
      /\ <<>> \o Events(c, r) = Events(c, r) /\ ce \in Seq(Event) /\ <<>> \o ce = ce
      /\ ue \in Seq(Event) /\ de \in Seq(Event) /\ ae \in Seq(Event)
  <2>1. <<>> \in Seq(Event)
    OBVIOUS
  <2>2. /\ Events(c, r) \in Seq(Event) /\ ce \in Seq(Event) /\ ue \in Seq(Event)
        /\ de \in Seq(Event) /\ ae \in Seq(Event)
    BY <2>1, EventsAreParts
  <2> HIDE DEF ce, ue, de, ae
  <2> QED BY <2>1, <2>2
<1>6. Events(c, r) = ((ce \o ue) \o de) \o ae
  BY <1>5, EventsAreParts
<1>7. Events(c, r) \in Seq(Saying(y))
  <2>1. ce \in Seq(Saying(y)) /\ ae \in Seq(Saying(y))
    BY <1>1, <1>2, Widen
  <2> HIDE DEF ce, ue, de, ae, y
  <2> QED BY <1>3, <1>4, <1>6, <2>1
<1>8. ASSUME NEW m \in Msti, Silent(Events(c, r), About(m))
      PROVE  c.msti[m] = y[m]
  <2>1. Silent(ue, About(m)) /\ Silent(de, About(m))
    <3> HIDE DEF ce, ue, de, ae
    <3>1. /\ ce \o ue \in Seq(Event) /\ (ce \o ue) \o de \in Seq(Event)
      BY <1>5
    <3> DEFINE front == (ce \o ue) \o de
    <3>2. Silent(front, About(m))
      <4>1. Silent(front \o ae, About(m)) /\ front \in Seq(Event)
        BY <1>6, <1>8, <3>1
      <4> HIDE DEF front
      <4> QED BY <1>5, <4>1, SilentParts
    <3>3. Silent(ce \o ue, About(m)) /\ Silent(de, About(m))
      BY <1>5, <3>1, <3>2, SilentParts
    <3> QED BY <1>5, <3>3, SilentParts
  <2>2. m \notin Updated(c, r) /\ m \notin Deleted(c, r)
    <3>1. m \in Updated(c, r) => LastSets(ue, About(m), Keeps(m), TRUE)
      BY UpdateEventsOnce
    <3>2. m \in Deleted(c, r) => LastSets(de, About(m), Keeps(m), FALSE)
      BY DeleteEventsOnce
    <3> HIDE DEF ue, de
    <3> QED BY <2>1, <3>1, <3>2 DEF LastSets, Silent
  <2>3. y[m] = IF r.msti[m] = {} \/ New(c, r, m) \/ Differs(c, r, m)
               THEN r.msti[m] ELSE c.msti[m]
    BY DEF Cached
  <2>4. CASE r.msti[m] = {}
    BY <2>2, <2>3, <2>4 DEF Deleted
  <2>5. CASE r.msti[m] # {}
    <3>1. m \in 1 .. m
      BY ConfigAssumption DEF Msti
    <3>2. ~ New(c, r, m) /\ ~ Differs(c, r, m)
      BY <2>2, <2>5, <3>1 DEF Updated, Resent
    <3> QED BY <2>3, <2>5, <3>2
  <2> QED BY <2>4, <2>5
<1> QED BY <1>7, <1>8

LEMMA EventsWalk ==
  ASSUME NEW c \in Caches, NEW r \in Config, Mixes(c.msti, Cached(c, r).msti)
  PROVE  Walk(Events(c, r), c.msti, Cached(c, r).msti)
<1>1. c.msti \in Maps /\ Cached(c, r).msti \in Maps
  BY CachedType DEF Maps, Caches, Config, NoConf
<1> QED BY <1>1, EventsSay, WalkSaid

(* what the handlers do to the table *)

Rows(s) == [m \in Msti |-> s.table[m]]
CistApart(s) == \A m \in Msti : s.table[CistId] \cap s.table[m] = {}

LEMMA RowsType == ASSUME NEW s \in Mstp PROVE Rows(s) \in Maps
BY DEF Rows, Maps, Mstp

LEMMA AfterRows ==
  ASSUME NEW s \in Mstp, InfoIsTable(s), Apart(Rows(s)), CistApart(s), NEW e \in Event
  PROVE  Rows(After(s, e)) = Row(Rows(s), e) /\ CistApart(After(s, e))
<1> DEFINE t == After(s, e)
<1>0. /\ CistId \notin Msti /\ s.table \in Table /\ DOMAIN s.table = {CistId} \cup Msti
      /\ \A m \in Msti : Rows(s)[m] = s.table[m]
      /\ \A m \in Msti, k \in Msti : m # k => s.table[m] \cap s.table[k] = {}
  BY ConfigAssumption DEF CistId, Msti, Mstp, Table, Rows, Apart
<1>1. ASSUME t.table = s.table, \A m \in Msti : e \notin About(m)
      PROVE  Rows(t) = Row(Rows(s), e) /\ CistApart(t)
  <2> HIDE DEF t
  <2>1. Row(Rows(s), e) = [m \in Msti |-> s.table[m]]
    BY <1>0, <1>1 DEF Row
  <2>2. Rows(t) = [m \in Msti |-> s.table[m]]
    BY <1>1 DEF Rows
  <2> QED BY <1>1, <2>1, <2>2 DEF CistApart
<1>2. CASE e \in CistEvent
  <2>1. t = CistConfig(s, e.priority) /\ e.priority \in Priority
    BY <1>2 DEF After, CistEvent
  <2> HIDE DEF t
  <2>2. t.table = s.table
    BY <2>1, CistStep
  <2> QED BY <1>1, <1>2, <2>2, EventKinds DEF t
<1>3. CASE e \in AdminEvent
  <2>1. t = IF e.status /\ ~ s.spanning THEN Started(s) ELSE s
    BY <1>3 DEF After, AdminEvent
  <2> HIDE DEF t
  <2>2. t.table = s.table
    BY <2>1, StartStep
  <2> QED BY <1>1, <1>3, <2>2, EventKinds DEF t
<1>4. CASE e \in MstiEvent
  <2> DEFINE n == e.mstid
             vlans == e.vlans
             cist == s.table[CistId]
             old == s.table[n]
  <2>1. /\ t = MstiConfig(s, n, vlans) /\ Told(e) = vlans
        /\ n \in Msti /\ vlans \in SUBSET Vlan /\ \A m : e \in About(m) <=> m = n
    BY <1>4 DEF After, MstiEvent, Told, About
  <2>2. t.table = Mapped(s.table, n, vlans)
    BY <2>1 DEF MstiConfig, Mstp
  <2> HIDE DEF t, n, vlans
  <2>3. /\ t.table[CistId] = (cist \cup (old \ vlans)) \ (vlans \ old)
        /\ t.table[n] = vlans
        /\ \A k \in Msti \ {n} : t.table[k] = s.table[k]
    BY <1>0, <2>1, <2>2 DEF Mapped
  <2>4. Rows(t) = Row(Rows(s), e)
    BY <1>0, <2>1, <2>3 DEF Rows, Row
  <2>5. ASSUME NEW m \in Msti PROVE t.table[CistId] \cap t.table[m] = {}
    <3>1. cist \cap old = {} /\ cist \cap s.table[m] = {}
      BY <2>1 DEF CistApart
    <3>2. CASE m = n
      <4> HIDE DEF cist, old
      <4> QED BY <2>3, <3>1, <3>2
    <3>3. CASE m # n
      <4>1. old \cap s.table[m] = {} /\ t.table[m] = s.table[m]
        BY <1>0, <2>1, <2>3, <3>3
      <4> HIDE DEF cist, old
      <4> QED BY <2>3, <3>1, <4>1
    <3> QED BY <3>2, <3>3
  <2> QED BY <2>4, <2>5 DEF CistApart, t
<1>5. CASE e \in DeleteEvent
  <2> DEFINE n == e.mstid
  <2>1. /\ t = MstiDelete(s, n) /\ Told(e) = {}
        /\ n \in Msti /\ \A m : e \in About(m) <=> m = n
    BY <1>5 DEF After, DeleteEvent, Told, About
  <2> HIDE DEF t, n
  <2>2. /\ t.table[n] = {}
        /\ \A k \in Msti \ {n} : t.table[k] = s.table[k]
        /\ t.table[CistId] \subseteq s.table[CistId] \cup s.table[n]
    <3>1. CASE n \notin s.info
      BY <2>1, <3>1 DEF MstiDelete, InfoIsTable
    <3>2. CASE n \in s.info
      <4>1. t.table = Unmapped(s.table, {n})
        BY <2>1, <3>2 DEF MstiDelete, Mstp
      <4> DEFINE u == UNION {s.table[m] : m \in {n}}
      <4>2. t.table = [k \in DOMAIN s.table |->
                         CASE k = CistId -> s.table[k] \cup u
                           [] k \in {n} -> {}
                           [] OTHER -> s.table[k]]
        BY <4>1 DEF Unmapped
      <4>3. u = s.table[n]
        <5>1. {s.table[m] : m \in {n}} = {s.table[n]}
          OBVIOUS
        <5> QED BY <5>1
      <4> HIDE DEF u
      <4>4. t.table[CistId] = s.table[CistId] \cup u
        BY <1>0, <2>1, <4>2
      <4>5. t.table[n] = {} /\ \A k \in Msti \ {n} : t.table[k] = s.table[k]
        BY <1>0, <2>1, <4>2
      <4> QED BY <4>3, <4>4, <4>5
    <3> QED BY <3>1, <3>2
  <2>3. Rows(t) = Row(Rows(s), e)
    BY <1>0, <2>1, <2>2 DEF Rows, Row
  <2>4. ASSUME NEW m \in Msti PROVE t.table[CistId] \cap t.table[m] = {}
    <3>1. s.table[CistId] \cap s.table[m] = {}
      BY DEF CistApart
    <3>2. CASE m = n
      BY <2>2, <3>2
    <3>3. CASE m # n
      BY <1>0, <2>1, <2>2, <3>1, <3>3
    <3> QED BY <3>2, <3>3
  <2> QED BY <2>3, <2>4 DEF CistApart, t
<1>6. e \in CistEvent \cup MstiEvent \cup DeleteEvent \cup AdminEvent
  BY EventKinds
<1> QED BY <1>2, <1>3, <1>4, <1>5, <1>6

LEMMA WipedRows ==
  ASSUME NEW s \in Mstp, InfoIsTable(s)
  PROVE  Rows(Wiped(s)) = NoConf.msti /\ CistApart(Wiped(s))
<1> DEFINE t == Wiped(s)
<1>1. t \in Mstp /\ t.info = {} /\ InfoIsTable(t)
  BY WipeStep
<1>2. t.table = [Unmapped(s.table, s.info) EXCEPT ![CistId] = {}]
  BY DEF Wiped, Mstp
<1> HIDE DEF t
<1>3. \A m \in Msti : t.table[m] = {}
  BY <1>1 DEF InfoIsTable
<1> QED BY <1>3 DEF Rows, NoConf, CistApart, t

\* the digest of a table that has no VLAN twice says which tree has it
LEMMA DigestSays ==
  ASSUME NEW s \in Mstp, Apart(Rows(s)), CistApart(s), NEW v \in Vlan, NEW m \in Msti
  PROVE  DigestOf(s.table)[v] = m <=> v \in s.table[m]
<1> DEFINE table == s.table
           First(k) == v \in table[k] /\ \A j \in 1 .. k - 1 : v \notin table[j]
<1>1. /\ CistId \notin Msti /\ \A k \in Msti : 1 .. k - 1 \subseteq Msti
      /\ \A k \in Msti : k \notin 1 .. k - 1
      /\ \A k \in Msti, j \in Msti : k # j => table[k] \cap table[j] = {}
      /\ \A k \in Msti : table[CistId] \cap table[k] = {}
  BY ConfigAssumption DEF CistId, Msti, Rows, Apart, CistApart
<1>2. DigestOf(table)[v] =
        IF v \in table[CistId] \/ \A k \in Msti : v \notin table[k] THEN CistId
        ELSE CHOOSE k \in Msti : First(k)
  BY Zenon DEF DigestOf
<1> HIDE DEF table
<1>3. ASSUME NEW k \in Msti, v \in table[k]
      PROVE  DigestOf(table)[v] = k
  <2>1. v \notin table[CistId] /\ \A j \in Msti : j # k => v \notin table[j]
    BY <1>1, <1>3
  <2>2. First(k)
    BY <1>1, <1>3, <2>1
  <2>3. \A j \in Msti : First(j) => j = k
    BY <2>1
  <2> HIDE DEF First
  <2>4. (CHOOSE j \in Msti : First(j)) = k
    BY <2>2, <2>3
  <2> QED BY <1>2, <1>3, <2>1, <2>4
<1>4. ASSUME DigestOf(table)[v] = m PROVE v \in table[m]
  <2>1. ~ (v \in table[CistId] \/ \A k \in Msti : v \notin table[k])
    BY <1>1, <1>2, <1>4
  <2>2. PICK k \in Msti : v \in table[k]
    BY <2>1
  <2>3. k = m
    BY <1>3, <1>4, <2>2
  <2> QED BY <2>2, <2>3
<1> QED BY <1>3, <1>4 DEF table

(* two maps one command apart *)

Near(x, y) ==
  \E m \in Msti :
    /\ \A k \in Msti \ {m} : x[k] = y[k]
    /\ x[m] # {} /\ y[m] # {} /\ x[m] # y[m] => Cardinality(x[m]) # Cardinality(y[m])

LEMMA NearItself == ASSUME NEW x PROVE Near(x, x)
<1>1. 1 \in Msti
  BY ConfigAssumption DEF Msti
<1> QED BY <1>1 DEF Near

LEMMA NearMixes ==
  ASSUME NEW x, NEW y, Near(x, y), Apart(x), Apart(y)
  PROVE  Mixes(x, y)
BY DEF Near, Apart, Mixes

\* comparing VLANs by their number finds what one command has changed
LEMMA NearCached ==
  ASSUME NEW c \in Caches, NEW r \in Config, Near(c.msti, r.msti)
  PROVE  Cached(c, r).msti = r.msti
<1>1. r.msti \in Maps
  BY DEF Config, Maps
<1>2. ASSUME NEW m \in Msti PROVE Cached(c, r).msti[m] = r.msti[m]
  <2>1. Cached(c, r).msti[m] = IF r.msti[m] = {} \/ New(c, r, m) \/ Differs(c, r, m)
                               THEN r.msti[m] ELSE c.msti[m]
    BY DEF Cached
  <2>2. r.msti[m] # {} /\ ~ New(c, r, m) /\ ~ Differs(c, r, m) => c.msti[m] = r.msti[m]
    BY DEF Near, New, Differs
  <2> QED BY <2>1, <2>2
<1>3. Cached(c, r).msti = [m \in Msti |-> Cached(c, r).msti[m]]
  BY DEF Cached
<1> QED BY <1>1, <1>2, <1>3 DEF Maps

LEMMA NothingCached ==
  ASSUME NEW r \in Config, Apart(r.msti)
  PROVE  /\ Cached(NoConf, r).msti = r.msti
         /\ Mixes(NoConf.msti, r.msti)
<1>1. NoConf \in Caches /\ \A m \in Msti : NoConf.msti[m] = {}
  BY DEF Caches, NoConf
<1>2. Mixes(NoConf.msti, r.msti)
  BY <1>1 DEF Mixes, Apart
<1>3. r.msti \in Maps
  BY DEF Config, Maps
<1>4. ASSUME NEW m \in Msti PROVE Cached(NoConf, r).msti[m] = r.msti[m]
  <2>1. Cached(NoConf, r).msti[m] =
          IF r.msti[m] = {} \/ New(NoConf, r, m) \/ Differs(NoConf, r, m)
          THEN r.msti[m] ELSE NoConf.msti[m]
    BY DEF Cached
  <2>2. r.msti[m] # {} => New(NoConf, r, m)
    BY <1>1 DEF New
  <2> QED BY <2>1, <2>2
<1>5. Cached(NoConf, r).msti = [m \in Msti |-> Cached(NoConf, r).msti[m]]
  BY DEF Cached
<1> QED BY <1>2, <1>3, <1>4, <1>5 DEF Maps

Finite(x) == \A m \in Msti : IsFiniteSet(x[m])

\* a command adds a VLAN, or takes one or all from an instance
LEMMA CliNear ==
  ASSUME db \in Config, Apart(db.msti), Finite(db.msti), Cli
  PROVE  /\ Apart(db.msti') /\ Finite(db.msti') /\ Near(db.msti, db.msti')
         /\ UNCHANGED <<replica, fresh, conf, queue, mstp>>
         /\ (unseen' <=> unseen \/ db'.msti # db.msti)
         /\ (hurried' <=> hurried \/ (unseen /\ db'.msti # db.msti))
<1> DEFINE x == db.msti
           y == db.msti'
           Good == Apart(y) /\ Finite(y) /\ Near(x, y)
<1>0. x \in Maps
  BY DEF Config, Maps
<1>1. \E new : Change(new)
  BY DEF Cli, CliEnable, CliPriority, CliMap, CliUnmap, CliNoInstance
<1>2. ASSUME CliEnable PROVE Good
  <2>1. y = x
    BY <1>1, <1>2 DEF CliEnable, Change, Config
  <2> QED BY <2>1, NearItself
<1>3. ASSUME \E p \in Priority : CliPriority(p) PROVE Good
  <2>1. y = x
    BY <1>3 DEF CliPriority, Change, Config
  <2> QED BY <2>1, NearItself
<1>4. ASSUME NEW m \in Msti, CliNoInstance(m) PROVE Good
  <2>1. y = [x EXCEPT ![m] = {}]
    BY <1>4 DEF CliNoInstance, Change, Config
  <2> HIDE DEF x, y
  <2>2. y[m] = {} /\ \A k \in Msti \ {m} : y[k] = x[k]
    BY <1>0, <2>1 DEF Maps
  <2>3. Apart(y)
    BY <2>2 DEF Apart, x
  <2>4. Finite(y)
    BY <2>2, FS_EmptySet DEF Finite, x
  <2>5. Near(x, y)
    BY <2>2 DEF Near
  <2> QED BY <2>3, <2>4, <2>5
<1>5. ASSUME NEW m \in Msti, NEW v \in Vlan, CliMap(m, v) PROVE Good
  <2>1. y = [x EXCEPT ![m] = @ \cup {v}] /\ \A k \in Msti : v \notin x[k]
    BY <1>5 DEF CliMap, Change, Config
  <2>0. Apart(x) /\ Finite(x)
    OBVIOUS
  <2> HIDE DEF x, y
  <2>2. y[m] = x[m] \cup {v} /\ \A k \in Msti \ {m} : y[k] = x[k]
    BY <1>0, <2>1 DEF Maps
  <2>3. Apart(y)
    BY <2>0, <2>1, <2>2 DEF Apart
  <2>4. IsFiniteSet(y[m]) /\ Cardinality(y[m]) = Cardinality(x[m]) + 1
        /\ Cardinality(x[m]) \in Nat
    BY <2>0, <2>1, <2>2, FS_AddElement, FS_CardinalityType DEF Finite
  <2>5. Finite(y)
    BY <2>0, <2>2, <2>4 DEF Finite
  <2>6. Cardinality(x[m]) # Cardinality(y[m])
    BY <2>4
  <2>7. Near(x, y)
    BY <2>2, <2>6 DEF Near
  <2> QED BY <2>3, <2>5, <2>7
<1>6. ASSUME NEW m \in Msti, NEW v \in Vlan, CliUnmap(m, v) PROVE Good
  <2>1. y = [x EXCEPT ![m] = @ \ {v}] /\ v \in x[m]
    BY <1>6 DEF CliUnmap, Change, Config
  <2>0. Apart(x) /\ Finite(x)
    OBVIOUS
  <2> HIDE DEF x, y
  <2>2. y[m] = x[m] \ {v} /\ \A k \in Msti \ {m} : y[k] = x[k]
    BY <1>0, <2>1 DEF Maps
  <2>3. Apart(y)
    BY <2>0, <2>2 DEF Apart
  <2>4. IsFiniteSet(y[m]) /\ Cardinality(y[m]) = Cardinality(x[m]) - 1
        /\ Cardinality(x[m]) \in Nat
    BY <2>0, <2>1, <2>2, FS_RemoveElement, FS_CardinalityType DEF Finite
  <2>5. Finite(y)
    BY <2>0, <2>2, <2>4 DEF Finite
  <2>6. Cardinality(x[m]) # Cardinality(y[m])
    BY <2>4
  <2>7. Near(x, y)
    BY <2>2, <2>6 DEF Near
  <2> QED BY <2>3, <2>5, <2>7
<1>7. /\ UNCHANGED <<replica, fresh, conf, queue, mstp>>
      /\ (unseen' <=> unseen \/ db'.msti # db.msti)
      /\ (hurried' <=> hurried \/ (unseen /\ db'.msti # db.msti))
  BY <1>1 DEF Change
<1>8. Good
  <2> HIDE DEF Good
  <2>1. CASE CliEnable \/ \E p \in Priority : CliPriority(p)
    BY <2>1, <1>2, <1>3
  <2> QED BY <2>1, <1>4, <1>5, <1>6 DEF Cli
<1> QED BY <1>7, <1>8

(* the inductive invariant of the VLANs *)

VlanInv == ~ hurried =>
  /\ Apart(db.msti) /\ Apart(replica.msti) /\ Finite(db.msti)
  /\ Near(conf.msti, db.msti) /\ Near(replica.msti, db.msti)
  /\ ~ unseen => conf.msti = db.msti /\ replica.msti = db.msti
  /\ ~ fresh => conf.msti = replica.msti
  /\ Walk(queue, Rows(mstp), conf.msti)
  /\ CistApart(mstp)
  /\ Apart(conf.msti)

LEMMA InitVlanInv == ASSUME Init PROVE VlanInv
<1> DEFINE none == [m \in Msti |-> {}]
<1>1. db.msti = none /\ replica.msti = none /\ conf.msti = none /\ queue = <<>> /\ fresh
  BY DEF Init, NoConf
<1>2. CistId \notin Msti
  BY ConfigAssumption DEF CistId, Msti
<1>3. Rows(mstp) = none /\ CistApart(mstp)
  BY <1>2 DEF Init, Rows, CistApart
<1>4. none \in Maps /\ Apart(none) /\ Finite(none)
  BY FS_EmptySet DEF Maps, Apart, Finite
<1> HIDE DEF none
<1> QED BY <1>1, <1>3, <1>4, NearItself, WalkStays DEF VlanInv

LEMMA CliVlanInv == ASSUME IInv, VlanInv, Cli PROVE VlanInv'
<1> SUFFICES ASSUME ~ hurried' PROVE VlanInv'
  BY DEF VlanInv
<1>1. ~ hurried
  BY DEF Cli, CliEnable, CliPriority, CliMap, CliUnmap, CliNoInstance, Change
<1>2. /\ Apart(db.msti') /\ Finite(db.msti') /\ Near(db.msti, db.msti')
      /\ UNCHANGED <<replica, fresh, conf, queue, mstp>>
      /\ (unseen' <=> unseen \/ db'.msti # db.msti)
      /\ ~ (unseen /\ db'.msti # db.msti)
  BY <1>1, CliNear DEF VlanInv, IInv, TypeOK
<1>3. Near(conf.msti, db.msti') /\ Near(replica.msti, db.msti')
      /\ (~ unseen' => conf.msti = db.msti' /\ replica.msti = db.msti')
  BY <1>1, <1>2 DEF VlanInv
<1> QED BY <1>1, <1>2, <1>3 DEF VlanInv, Apart, Rows, CistApart, Finite

LEMMA LookVlanInv == ASSUME IInv, VlanInv, Look PROVE VlanInv'
<1> SUFFICES ASSUME ~ hurried' PROVE VlanInv'
  BY DEF VlanInv
<1>1. /\ db \in Config /\ conf \in Caches /\ queue \in Seq(Event)
  BY DEF IInv, TypeOK, Caches
<1>2. /\ replica' = db /\ fresh' = FALSE /\ queue' = queue \o Events(conf, db)
      /\ conf' = Cached(conf, db) /\ unseen' = FALSE /\ UNCHANGED <<db, mstp, changes, hurried>>
  BY DEF Look
<1>3. /\ Apart(db.msti) /\ Apart(conf.msti) /\ Finite(db.msti) /\ Near(conf.msti, db.msti)
      /\ Walk(queue, Rows(mstp), conf.msti) /\ CistApart(mstp)
  BY <1>2 DEF VlanInv
<1>4. conf'.msti = db.msti
  BY <1>1, <1>2, <1>3, NearCached
<1>5. Walk(queue', Rows(mstp), conf'.msti)
  <2> DEFINE es == Events(conf, db)
             y == Cached(conf, db).msti
  <2>1. Mixes(conf.msti, y)
    BY <1>2, <1>3, <1>4, NearMixes
  <2>2. Walk(es, conf.msti, y)
    BY <1>1, <2>1, EventsWalk
  <2>3. es \in Seq(Event)
    <3>1. <<>> \in Seq(Event)
      OBVIOUS
    <3> QED BY <1>1, <3>1, EventsAreParts
  <2> HIDE DEF es, y
  <2>4. Walk(queue \o es, Rows(mstp), y)
    BY <1>1, <1>3, <2>2, <2>3, WalkOn
  <2> QED BY <1>2, <2>4 DEF es, y
<1>6. Rows(mstp)' = Rows(mstp) /\ CistApart(mstp)'
  BY <1>2, <1>3 DEF Rows, CistApart
<1>7. Near(db.msti, db.msti)
  BY NearItself
<1>8. /\ Apart(db.msti') /\ Apart(replica'.msti) /\ Finite(db.msti') /\ Apart(conf'.msti)
      /\ Near(conf'.msti, db.msti') /\ Near(replica'.msti, db.msti')
      /\ conf'.msti = db.msti' /\ replica'.msti = db.msti'
  BY <1>2, <1>3, <1>4, <1>7
<1> QED BY <1>2, <1>4, <1>5, <1>6, <1>8 DEF VlanInv

LEMMA HandleVlanInv == ASSUME IInv, VlanInv, Handle PROVE VlanInv'
<1> SUFFICES ASSUME ~ hurried' PROVE VlanInv'
  BY DEF VlanInv
<1> DEFINE e == Head(queue)
<1>1. /\ mstp \in Mstp /\ queue \in Seq(Event) /\ queue # <<>> /\ e \in Event
      /\ InfoIsTable(mstp)
  BY DEF IInv, TypeOK, Handle
<1>2. /\ mstp' = After(mstp, e) /\ queue' = Tail(queue)
      /\ replica' \in {replica, db} /\ (fresh' <=> fresh \/ replica' # replica)
      /\ UNCHANGED <<db, conf, changes, unseen, hurried>>
  BY DEF Handle, Commits
<1>3. /\ Apart(db.msti) /\ Apart(replica.msti) /\ Apart(conf.msti) /\ Finite(db.msti)
      /\ Near(conf.msti, db.msti) /\ Near(replica.msti, db.msti)
      /\ ~ unseen => conf.msti = db.msti /\ replica.msti = db.msti
      /\ ~ fresh => conf.msti = replica.msti
      /\ Walk(queue, Rows(mstp), conf.msti) /\ CistApart(mstp)
  BY <1>2 DEF VlanInv
<1>4. Apart(Rows(mstp))
  BY <1>1, <1>3, WalkEnds
<1> HIDE DEF e
<1>5. Rows(mstp') = Row(Rows(mstp), e) /\ CistApart(mstp')
  BY <1>1, <1>2, <1>3, <1>4, AfterRows
<1>6. Walk(queue', Rows(mstp'), conf'.msti)
  <2> DEFINE x == Rows(mstp)
             y == conf.msti
  <2>1. Walk(queue, x, y)
    BY <1>3
  <2> HIDE DEF x, y
  <2>2. Walk(Tail(queue), Row(x, Head(queue)), y)
    BY <1>1, <2>1, WalkOne
  <2> QED BY <1>2, <1>5, <2>2 DEF x, y, e
<1>7. /\ Apart(replica'.msti) /\ Near(replica'.msti, db.msti)
      /\ ~ unseen => replica'.msti = db.msti
      /\ ~ fresh' => conf.msti = replica'.msti
  BY <1>2, <1>3, NearItself
<1>8. Rows(mstp)' = Rows(mstp') /\ CistApart(mstp)'
  BY <1>5 DEF Rows, CistApart
<1> QED BY <1>2, <1>3, <1>6, <1>7, <1>8 DEF VlanInv

LEMMA ReinitVlanInv == ASSUME IInv, VlanInv, Reinit PROVE VlanInv'
<1> SUFFICES ASSUME ~ hurried' PROVE VlanInv'
  BY DEF VlanInv
<1> DEFINE e == Head(queue)
           s == After(mstp, e)
<1>1. /\ mstp \in Mstp /\ queue \in Seq(Event) /\ queue # <<>> /\ e \in Event
      /\ InfoIsTable(mstp) /\ (mstp.spanning => mstp.digest = DigestOf(mstp.table))
      /\ db \in Config /\ replica' \in Config
  BY CommitsInv DEF IInv, TypeOK, Reinit, DigestCurrent
<1>2. /\ mstp' = Wiped(s)
      /\ replica' \in {replica, db}
      /\ queue' = Events(NoConf, replica') /\ conf' = Cached(NoConf, replica')
      /\ unseen' = (unseen /\ replica' # db) /\ UNCHANGED <<db, changes, hurried>>
  BY DEF Reinit, Commits
<1>3. /\ Apart(db.msti) /\ Apart(replica.msti) /\ Finite(db.msti)
      /\ Near(replica.msti, db.msti)
      /\ ~ unseen => replica.msti = db.msti
  BY <1>2 DEF VlanInv
<1> HIDE DEF e
<1>4. s \in Mstp /\ InfoIsTable(s)
  BY <1>1, AfterStep DEF Handled
<1> HIDE DEF s
<1>5. Rows(mstp') = NoConf.msti /\ CistApart(mstp')
  BY <1>2, <1>4, WipedRows
<1>6. Apart(replica'.msti) /\ Near(replica'.msti, db.msti)
      /\ (~ unseen' => replica'.msti = db.msti)
  BY <1>2, <1>3, NearItself
<1>7. conf'.msti = replica'.msti /\ Mixes(NoConf.msti, conf'.msti)
  BY <1>1, <1>2, <1>6, NothingCached
<1>8. Walk(queue', Rows(mstp'), conf'.msti)
  <2>1. NoConf \in Caches
    BY DEF Caches
  <2> QED BY <1>1, <1>2, <1>5, <1>7, <2>1, EventsWalk
<1>9. Rows(mstp)' = Rows(mstp') /\ CistApart(mstp)'
  BY <1>5 DEF Rows, CistApart
<1>10. /\ Apart(db.msti') /\ Finite(db.msti') /\ Apart(conf'.msti)
       /\ Near(conf'.msti, db.msti') /\ Near(replica'.msti, db.msti')
       /\ ~ unseen' => conf'.msti = db.msti' /\ replica'.msti = db.msti'
  BY <1>2, <1>3, <1>6, <1>7
<1> QED BY <1>6, <1>7, <1>8, <1>9, <1>10 DEF VlanInv

LEMMA NextVlanInv == ASSUME IInv, VlanInv, [Next]_vars PROVE VlanInv'
<1>1. CASE Next
  BY <1>1, CliVlanInv, LookVlanInv, HandleVlanInv, ReinitVlanInv DEF Next
<1>2. CASE UNCHANGED vars
  BY <1>2 DEF vars, VlanInv, Apart, Rows, CistApart, Finite
<1> QED BY <1>1, <1>2

LEMMA VlanInvHolds == Spec => [](IInv /\ VlanInv)
<1>1. Init => IInv /\ VlanInv
  BY InitInv, InitVlanInv
<1>2. IInv /\ VlanInv /\ [Next]_vars => (IInv /\ VlanInv)'
  BY NextInv, NextVlanInv
<1> QED BY <1>1, <1>2, PTL DEF Spec
-----------------------------------------------------------------------------
\* When no event waits and the replica is up to date, every VLAN is on the
\* tree the database maps it to, in mstp_MstiVidTable and in the digest of a
\* running protocol, although update_mstp_msti_config compares VLANs by their
\* number: as long as no VLAN map has changed twice between two looks.
THEOREM VlansAreApplied == Spec => []VlansApplied
<1>1. IInv /\ VlanInv => VlansApplied
  <2> SUFFICES ASSUME IInv, VlanInv, Settled, ~ hurried PROVE
        /\ \A m \in Msti : mstp.table[m] = db.msti[m]
        /\ mstp.spanning => \A v \in Vlan, m \in Msti : mstp.digest[v] = m <=> v \in db.msti[m]
    BY DEF VlansApplied
  <2>1. /\ mstp \in Mstp /\ queue \in Seq(Event) /\ queue = <<>>
        /\ mstp.spanning => mstp.digest = DigestOf(mstp.table)
    BY DEF IInv, TypeOK, DigestCurrent, Settled
  <2>2. Walk(queue, Rows(mstp), conf.msti) /\ conf.msti = db.msti /\ CistApart(mstp)
    BY DEF VlanInv, Settled
  <2>3. Rows(mstp) = db.msti /\ Apart(Rows(mstp))
    BY <2>1, <2>2, WalkEnds
  <2>4. \A m \in Msti : mstp.table[m] = db.msti[m]
    <3>1. \A m \in Msti : mstp.table[m] = Rows(mstp)[m]
      BY DEF Rows
    <3> QED BY <2>3, <3>1
  <2>5. \A v \in Vlan, m \in Msti : DigestOf(mstp.table)[v] = m <=> v \in mstp.table[m]
    BY <2>1, <2>2, <2>3, DigestSays
  <2> QED BY <2>1, <2>4, <2>5
<1> QED BY VlanInvHolds, <1>1, PTL

\* Between any two events, settled or not, mstp_MstiVidTable has no VLAN on
\* two trees, the CIST included, and a tree the digest names carries the VLAN:
\* mstp_updateMstiVidMapping takes from the CIST what it gives an instance.
VlansOnOneTree == ~ hurried =>
  /\ \A m \in Msti, k \in {CistId} \cup Msti : m # k => mstp.table[m] \cap mstp.table[k] = {}
  /\ mstp.spanning => \A v \in Vlan, m \in Msti : mstp.digest[v] = m <=> v \in mstp.table[m]

\* No VLAN is ever on two trees, under the same condition.
THEOREM VlansAreOnOneTree == Spec => []VlansOnOneTree
<1>1. IInv /\ VlanInv => VlansOnOneTree
  <2> SUFFICES ASSUME IInv, VlanInv, ~ hurried PROVE VlansOnOneTree
    BY DEF VlansOnOneTree
  <2>1. /\ mstp \in Mstp /\ queue \in Seq(Event)
        /\ mstp.spanning => mstp.digest = DigestOf(mstp.table)
    BY DEF IInv, TypeOK, DigestCurrent
  <2>2. Walk(queue, Rows(mstp), conf.msti) /\ CistApart(mstp)
    BY DEF VlanInv
  <2>3. Apart(Rows(mstp)) /\ \A m \in Msti : mstp.table[m] = Rows(mstp)[m]
    BY <2>1, <2>2, WalkEnds DEF Rows
  <2>4. \A v \in Vlan, m \in Msti : DigestOf(mstp.table)[v] = m <=> v \in mstp.table[m]
    BY <2>1, <2>2, <2>3, DigestSays
  <2>5. \A m \in Msti, k \in {CistId} \cup Msti :
          m # k => mstp.table[m] \cap mstp.table[k] = {}
    BY <2>2, <2>3 DEF Apart, CistApart
  <2> QED BY <2>1, <2>4, <2>5 DEF VlansOnOneTree
<1> QED BY VlanInvHolds, <1>1, PTL
-----------------------------------------------------------------------------
(* numOfValidTrees: every update of an MSTI increments it, so it is counted *)
(* against the updates that were sent and wait, and those against commands. *)

\* the updates of MSTIs that wait
Updates(q) == {i \in DOMAIN q : q[i].type = "msti"}

LEMMA Shifted ==
  ASSUME NEW S \in SUBSET Int, IsFiniteSet(S), NEW k \in Int
  PROVE  LET T == {i + k : i \in S}
         IN  IsFiniteSet(T) /\ Cardinality(T) = Cardinality(S)
<1> DEFINE T == {i + k : i \in S}
           f == [i \in S |-> i + k]
<1>1. f \in Bijection(S, T)
  <2>1. f \in [S -> T] /\ \A t \in T : \E i \in S : f[i] = t
    OBVIOUS
  <2>2. ASSUME NEW i \in S, NEW j \in S, f[i] = f[j] PROVE i = j
    BY <2>2
  <2> QED BY <2>1, <2>2 DEF Bijection, Injection, Surjection, IsInjective
<1>2. ExistsBijection(S, T)
  BY <1>1 DEF ExistsBijection
<1> QED BY <1>1, <1>2, FS_Bijection

LEMMA UpdatesFinite ==
  ASSUME NEW q \in Seq(Event)
  PROVE  /\ Updates(q) \in SUBSET Int /\ IsFiniteSet(Updates(q))
         /\ Cardinality(Updates(q)) \in Nat /\ Cardinality(Updates(q)) <= Len(q)
<1>1. Len(q) \in Nat /\ DOMAIN q = 1 .. Len(q)
  OBVIOUS
<1>2. IsFiniteSet(1 .. Len(q)) /\ Cardinality(1 .. Len(q)) = Len(q)
  BY <1>1, FS_Interval
<1>3. Updates(q) \in SUBSET (1 .. Len(q)) /\ Updates(q) \in SUBSET Int
  BY <1>1 DEF Updates
<1> QED BY <1>2, <1>3, FS_Subset, FS_CardinalityType

LEMMA UpdatesAppended ==
  ASSUME NEW q \in Seq(Event), NEW es \in Seq(Event)
  PROVE  Cardinality(Updates(q \o es)) = Cardinality(Updates(q)) + Cardinality(Updates(es))
<1> DEFINE T == {i + Len(q) : i \in Updates(es)}
<1>1. /\ Len(q) \in Nat /\ Len(es) \in Nat
      /\ DOMAIN q = 1 .. Len(q) /\ DOMAIN es = 1 .. Len(es)
      /\ DOMAIN (q \o es) = 1 .. Len(q) + Len(es)
      /\ \A i \in 1 .. Len(q) : (q \o es)[i] = q[i]
      /\ \A i \in 1 .. Len(es) : (q \o es)[Len(q) + i] = es[i]
  OBVIOUS
<1>2. IsFiniteSet(T) /\ Cardinality(T) = Cardinality(Updates(es))
  <2>1. Updates(es) \in SUBSET Int /\ IsFiniteSet(Updates(es)) /\ Len(q) \in Int
    BY <1>1, UpdatesFinite
  <2> QED BY <2>1, Shifted, ZenonT(30)
<1>3. Updates(q) \cap T = {}
  BY <1>1 DEF Updates
<1>4. Updates(q \o es) = Updates(q) \cup T
  <2>1. ASSUME NEW i \in Updates(q \o es) PROVE i \in Updates(q) \cup T
    <3>1. CASE i \in 1 .. Len(q)
      BY <1>1, <2>1, <3>1 DEF Updates
    <3>2. CASE i \notin 1 .. Len(q)
      <4>1. /\ i - Len(q) \in 1 .. Len(es) /\ i = (i - Len(q)) + Len(q)
            /\ Len(q) + (i - Len(q)) = i
        BY <1>1, <2>1, <3>2 DEF Updates
      <4>2. i - Len(q) \in Updates(es)
        BY <1>1, <2>1, <4>1 DEF Updates
      <4> QED BY <4>1, <4>2
    <3> QED BY <3>1, <3>2
  <2>2. ASSUME NEW i \in Updates(q) PROVE i \in Updates(q \o es)
    BY <1>1, <2>2 DEF Updates
  <2>3. ASSUME NEW i \in Updates(es) PROVE i + Len(q) \in Updates(q \o es)
    <3>1. i \in 1 .. Len(es) /\ i + Len(q) = Len(q) + i /\ i + Len(q) \in 1 .. Len(q) + Len(es)
      BY <1>1, <2>3 DEF Updates
    <3> QED BY <1>1, <2>3, <3>1 DEF Updates
  <2> QED BY <2>1, <2>2, <2>3
<1>5. IsFiniteSet(Updates(q)) /\ Cardinality({}) = 0
      /\ Cardinality(Updates(q)) \in Nat /\ Cardinality(Updates(es)) \in Nat
  BY UpdatesFinite, FS_EmptySet
<1>6. Cardinality(Updates(q) \cup T)
        = Cardinality(Updates(q)) + Cardinality(T) - Cardinality(Updates(q) \cap T)
  BY <1>2, <1>5, FS_Union
<1>7. Cardinality(Updates(q) \cap T) = 0
  BY <1>3, <1>5
<1> DEFINE a == Cardinality(Updates(q))
           b == Cardinality(Updates(es))
<1>8. Cardinality(Updates(q \o es)) = a + b - 0
  BY <1>2, <1>4, <1>6, <1>7
<1>9. a \in Nat /\ b \in Nat
  BY <1>5
<1> HIDE DEF a, b
<1>10. a + b - 0 = a + b
  BY <1>9
<1> QED BY <1>8, <1>10 DEF a, b

LEMMA UpdatesHandled ==
  ASSUME NEW q \in Seq(Event), q # <<>>
  PROVE  Cardinality(Updates(q))
           = Cardinality(Updates(Tail(q))) + (IF Head(q).type = "msti" THEN 1 ELSE 0)
<1> DEFINE T == {i + 1 : i \in Updates(Tail(q))}
<1>1. /\ Len(q) \in Nat \ {0} /\ DOMAIN q = 1 .. Len(q) /\ Head(q) = q[1]
      /\ Tail(q) \in Seq(Event) /\ DOMAIN Tail(q) = 1 .. Len(q) - 1
      /\ \A i \in 1 .. Len(q) - 1 : Tail(q)[i] = q[i + 1]
  OBVIOUS
<1>2. /\ IsFiniteSet(T) /\ Cardinality(T) = Cardinality(Updates(Tail(q)))
      /\ Cardinality(Updates(Tail(q))) \in Nat
  <2>1. /\ Updates(Tail(q)) \in SUBSET Int /\ IsFiniteSet(Updates(Tail(q)))
        /\ Cardinality(Updates(Tail(q))) \in Nat
    BY <1>1, UpdatesFinite
  <2>2. 1 \in Int
    OBVIOUS
  <2> QED BY <2>1, <2>2, Shifted
<1>3. ASSUME NEW i \in Updates(q), i # 1 PROVE i \in T
  <2>1. i - 1 \in 1 .. Len(q) - 1 /\ (i - 1) + 1 = i
    BY <1>1, <1>3 DEF Updates
  <2>2. i - 1 \in Updates(Tail(q))
    BY <1>1, <1>3, <2>1 DEF Updates
  <2> QED BY <2>1, <2>2
<1>4. T \subseteq Updates(q) /\ 1 \notin T
  <2>1. ASSUME NEW i \in Updates(Tail(q)) PROVE i + 1 \in Updates(q) /\ i + 1 # 1
    <3>1. i \in 1 .. Len(q) - 1 /\ i + 1 \in 1 .. Len(q) /\ i + 1 # 1
      BY <1>1, <2>1 DEF Updates
    <3> QED BY <1>1, <2>1, <3>1 DEF Updates
  <2> QED BY <2>1
<1>5. 1 \in Updates(q) <=> Head(q).type = "msti"
  BY <1>1 DEF Updates
<1>6. CASE Head(q).type = "msti"
  <2>1. Updates(q) = T \cup {1}
    BY <1>3, <1>4, <1>5, <1>6
  <2>2. Cardinality(T \cup {1}) = Cardinality(T) + 1
    BY <1>2, <1>4, FS_AddElement
  <2> QED BY <1>2, <1>6, <2>1, <2>2
<1>7. CASE Head(q).type # "msti"
  <2>1. Updates(q) = T
    BY <1>3, <1>4, <1>5, <1>7
  <2> QED BY <1>2, <1>7, <2>1
<1> QED BY <1>6, <1>7

\* what the next look at the rows r may send at most, when the caches hold c
Due(c, r) == IF Updated(c, r) = {} THEN 0 ELSE MaxMsti

LEMMA UpdatesSent ==
  ASSUME NEW c \in Caches, NEW r \in Config, NEW q \in Seq(Event)
  PROVE  /\ Cardinality(Updates(q \o Events(c, r))) <= Cardinality(Updates(q)) + Due(c, r)
         /\ Due(c, r) \in Nat /\ Due(c, r) <= MaxMsti
         /\ Due(Cached(c, r), r) = 0
<1> DEFINE ce == CistEvents(c, r)
           ue == UpdateEvents(c, r)
           de == DeleteEvents(c, r)
           ae == AdminEvents(c, r)
           q1 == q \o ce
           q2 == q1 \o ue
           q3 == q2 \o de
<1>1. /\ q \o Events(c, r) = q3 \o ae
      /\ q1 \in Seq(Event) /\ q2 \in Seq(Event) /\ q3 \in Seq(Event)
      /\ ce \in Seq(Event) /\ ue \in Seq(Event) /\ de \in Seq(Event) /\ ae \in Seq(Event)
  BY EventsAreParts
<1>2. /\ ce \in Seq(CistEvent) /\ de \in Seq(DeleteEvent) /\ ae \in Seq(AdminEvent)
  BY CistEventsOnce, DeleteEventsOnce, AdminEventsOnce
<1>3. Len(ue) = Cardinality(Updated(c, r))
  <2>1. Cardinality(Updated(c, r)) \in Nat
    BY MstiFinite DEF Updated
  <2> QED BY <2>1 DEF UpdateEvents, EventsFor
<1>4. Cardinality(Updated(c, r)) \in Nat /\ Cardinality(Updated(c, r)) <= Due(c, r)
      /\ Due(c, r) \in Nat /\ Due(c, r) <= MaxMsti
  <2>1. Updated(c, r) \in SUBSET Msti /\ MaxMsti \in Nat /\ 1 \in Int
    BY ConfigAssumption DEF Updated
  <2>2. IsFiniteSet(Msti) /\ Cardinality(Msti) = MaxMsti
    BY <2>1, ConfigAssumption, FS_Interval DEF Msti
  <2>3. Cardinality(Updated(c, r)) \in Nat /\ Cardinality(Updated(c, r)) <= MaxMsti
    BY <2>1, <2>2, FS_Subset, FS_CardinalityType
  <2>4. Updated(c, r) = {} => Cardinality(Updated(c, r)) = 0
    BY FS_EmptySet
  <2> QED BY <2>1, <2>3, <2>4 DEF Due
<1>5. Updates(ce) = {} /\ Updates(de) = {} /\ Updates(ae) = {} /\ Cardinality({}) = 0
  <2>1. \A i \in DOMAIN ce : ce[i].type = "cist"
    <3> HIDE DEF ce
    <3> QED BY <1>2, EventKinds
  <2>2. \A i \in DOMAIN de : de[i].type = "delete"
    <3> HIDE DEF de
    <3> QED BY <1>2, EventKinds
  <2>3. \A i \in DOMAIN ae : ae[i].type = "admin"
    <3> HIDE DEF ae
    <3> QED BY <1>2, EventKinds
  <2> HIDE DEF ce, de, ae
  <2> QED BY <2>1, <2>2, <2>3, FS_EmptySet DEF Updates
<1> HIDE DEF ce, ue, de, ae
<1>6. Cardinality(Updates(q3 \o ae)) = Cardinality(Updates(q)) + Cardinality(Updates(ue))
  <2>1. Cardinality(Updates(q1)) = Cardinality(Updates(q)) + Cardinality(Updates(ce))
    BY <1>1, UpdatesAppended
  <2>2. Cardinality(Updates(q2)) = Cardinality(Updates(q1)) + Cardinality(Updates(ue))
    <3> HIDE DEF q1
    <3> QED BY <1>1, UpdatesAppended
  <2>3. Cardinality(Updates(q3)) = Cardinality(Updates(q2)) + Cardinality(Updates(de))
    <3> HIDE DEF q2
    <3> QED BY <1>1, UpdatesAppended
  <2> HIDE DEF q3
  <2>4. Cardinality(Updates(q3 \o ae)) = Cardinality(Updates(q3)) + Cardinality(Updates(ae))
    BY <1>1, UpdatesAppended
  <2>5. Cardinality(Updates(q)) \in Nat /\ Cardinality(Updates(ue)) \in Nat
    BY <1>1, UpdatesFinite
  <2> HIDE DEF q1, q2
  <2> QED BY <1>5, <2>1, <2>2, <2>3, <2>4, <2>5
<1>7. Cardinality(Updates(ue)) \in Nat /\ Cardinality(Updates(ue)) <= Due(c, r)
  BY <1>1, <1>3, <1>4, UpdatesFinite
<1>8. Due(Cached(c, r), r) = 0
  <2>1. ASSUME NEW m \in Msti, r.msti[m] # {}
        PROVE  ~ New(Cached(c, r), r, m) /\ ~ Differs(Cached(c, r), r, m)
    <3>1. Cached(c, r).msti[m] = IF r.msti[m] = {} \/ New(c, r, m) \/ Differs(c, r, m)
                                 THEN r.msti[m] ELSE c.msti[m]
      BY DEF Cached
    <3>2. CASE New(c, r, m) \/ Differs(c, r, m)
      BY <2>1, <3>1, <3>2 DEF New, Differs
    <3>3. CASE ~ New(c, r, m) /\ ~ Differs(c, r, m)
      BY <2>1, <3>1, <3>3 DEF New, Differs
    <3> QED BY <3>2, <3>3
  <2>2. ASSUME NEW m \in Msti PROVE ~ Resent(Cached(c, r), r, m)
    <3>1. ASSUME NEW k \in 1 .. m PROVE ~ Differs(Cached(c, r), r, k)
      <4>1. k \in Msti
        BY ConfigAssumption DEF Msti
      <4> QED BY <2>1, <4>1 DEF Differs
    <3>2. ~ New(Cached(c, r), r, m)
      BY <2>1 DEF New
    <3> QED BY <3>1, <3>2 DEF Resent
  <2> QED BY <2>2 DEF Updated, Due
<1>9. Cardinality(Updates(q)) \in Nat
  BY UpdatesFinite
<1> HIDE DEF q3
<1> QED BY <1>1, <1>4, <1>6, <1>7, <1>8, <1>9

Uncounted(s) == IF s.cist = Cleared THEN 1 ELSE 0

\* the trees in use; the updates since the data were wiped, against the
\* commands that caused them; the event of the CIST comes first
CountInv ==
  /\ mstp.trees + Uncounted(mstp) >= 1 + Cardinality(mstp.info)
  /\ mstp.trees + Uncounted(mstp) + Cardinality(Updates(queue)) + Due(conf, db)
       <= 1 + MaxMsti * (1 + changes)
  /\ mstp.cist = Cleared =>
       /\ ~ mstp.spanning
       /\ \/ queue = <<>> /\ conf = NoConf
          \/ queue # <<>> /\ Head(queue) \in CistEvent
  /\ replica # db => changes >= 1

\* the counter is 8 bits wide: a command causes at most one update of each
\* instance, so that fewer commands than this cannot make it wrap
FewChanges == 1 + MaxMsti * (1 + MaxChanges) <= 255

LEMMA InitCountInv == ASSUME Init PROVE CountInv
<1>1. mstp.trees = 0 /\ Uncounted(mstp) = 1 /\ Cardinality(mstp.info) = 0
  BY FS_EmptySet DEF Init, Uncounted
<1>2. Cardinality(Updates(queue)) = 0
  <2>1. Updates(queue) = {}
    BY DEF Init, Updates
  <2> QED BY <2>1, FS_EmptySet
<1>3. Due(conf, db) = 0
  <2>1. \A m \in Msti : db.msti[m] = {}
    BY DEF Init
  <2> QED BY <2>1 DEF Due, Updated, Resent, New
<1>4. MaxMsti * (1 + changes) = MaxMsti /\ MaxMsti \in Nat
  BY ConfigAssumption DEF Init
<1> QED BY <1>1, <1>2, <1>3, <1>4 DEF Init, CountInv

LEMMA CountTypes ==
  ASSUME TypeOK
  PROVE  /\ mstp.trees \in 0 .. 255 /\ mstp.info \in SUBSET Msti
         /\ IsFiniteSet(mstp.info) /\ Cardinality(mstp.info) \in Nat
         /\ Uncounted(mstp) \in {0, 1}
         /\ Cardinality(Updates(queue)) \in Nat
         /\ Due(conf, db) \in Nat /\ Due(conf, db) <= MaxMsti
         /\ MaxMsti \in Nat /\ MaxChanges \in Nat /\ changes \in 0 .. MaxChanges
<1>1. mstp \in Mstp /\ queue \in Seq(Event) /\ conf \in Caches /\ db \in Config
      /\ changes \in 0 .. MaxChanges
  BY DEF TypeOK, Caches
<1>2. mstp.trees \in 0 .. 255 /\ mstp.info \in SUBSET Msti
  BY <1>1 DEF Mstp, TreeCount
<1>3. IsFiniteSet(mstp.info) /\ Cardinality(mstp.info) \in Nat
  BY <1>2, MstiFinite
<1>4. Due(conf, db) \in Nat /\ Due(conf, db) <= MaxMsti
  BY <1>1, UpdatesSent
<1>5. Cardinality(Updates(queue)) \in Nat
  BY <1>1, UpdatesFinite
<1>6. MaxMsti \in Nat /\ MaxChanges \in Nat
  BY ConfigAssumption
<1>7. Uncounted(mstp) \in {0, 1}
  BY DEF Uncounted
<1> QED BY <1>1, <1>2, <1>3, <1>4, <1>5, <1>6, <1>7

LEMMA CliCountInv == ASSUME IInv, CountInv, Cli PROVE CountInv'
<1>1. /\ changes' = changes + 1 /\ UNCHANGED <<replica, fresh, conf, queue, mstp>>
  BY DEF Cli, CliEnable, CliPriority, CliMap, CliUnmap, CliNoInstance, Change
<1>2. IInv'
  BY CliInv
<1>3. Due(conf, db)' \in Nat /\ Due(conf, db)' <= MaxMsti
  <2>1. conf' \in Caches /\ db' \in Config /\ queue' \in Seq(Event)
    BY <1>2 DEF IInv, TypeOK, Caches
  <2>2. Due(conf', db') \in Nat /\ Due(conf', db') <= MaxMsti
    BY <2>1, UpdatesSent
  <2> QED BY <2>2 DEF Due
<1>4. MaxMsti * (1 + changes') = MaxMsti * (1 + changes) + MaxMsti
      /\ changes \in Nat /\ MaxMsti \in Nat /\ MaxMsti * (1 + changes) \in Nat
  BY <1>1, CountTypes DEF IInv
<1>5. mstp.trees + Uncounted(mstp) + Cardinality(Updates(queue)) + Due(conf, db)
        <= 1 + MaxMsti * (1 + changes)
  BY DEF CountInv
<1>6. mstp'.trees + Uncounted(mstp') + Cardinality(Updates(queue')) + Due(conf, db)'
        <= 1 + MaxMsti * (1 + changes')
  <2> DEFINE known == mstp.trees + Uncounted(mstp) + Cardinality(Updates(queue))
             n == MaxMsti * (1 + changes)
  <2>1. known \in Nat
    BY CountTypes DEF IInv
  <2>2. mstp'.trees + Uncounted(mstp') + Cardinality(Updates(queue')) = known
    BY <1>1 DEF Uncounted, Updates
  <2>3. known + Due(conf, db) <= 1 + n /\ Due(conf, db) \in Nat
    BY <1>5, CountTypes DEF IInv
  <2> HIDE DEF known, n
  <2>4. known + Due(conf, db)' <= 1 + n + MaxMsti
    BY <1>3, <1>4, <2>1, <2>3 DEF n
  <2> QED BY <1>4, <2>2, <2>4 DEF n
<1>7. changes' >= 1
  BY <1>1, <1>4
<1> QED BY <1>1, <1>6, <1>7 DEF CountInv, Uncounted, Updates, Due

LEMMA CistSentFirst ==
  ASSUME NEW r \in Config
  PROVE  Events(NoConf, r) # <<>> /\ Head(Events(NoConf, r)) \in CistEvent
<1> DEFINE e == [type |-> "cist", priority |-> r.priority]
           rest == MstiEvents(NoConf, r) \o AdminEvents(NoConf, r)
<1>1. CistEvents(NoConf, r) = <<e>> /\ e \in CistEvent /\ e \in Event
  BY ConfigAssumption DEF CistEvents, NoConf, Config, CistEvent, Event
<1>2. NoConf \in Caches /\ <<>> \in Seq(Event)
  BY DEF Caches
<1>3. /\ UpdateEvents(NoConf, r) \in Seq(Event) /\ DeleteEvents(NoConf, r) \in Seq(Event)
      /\ AdminEvents(NoConf, r) \in Seq(Event)
  BY <1>2, EventsAreParts
<1>4. MstiEvents(NoConf, r) = UpdateEvents(NoConf, r) \o DeleteEvents(NoConf, r)
  BY DEF MstiEvents, UpdateEvents, DeleteEvents
<1>5. Events(NoConf, r) = <<e>> \o MstiEvents(NoConf, r) \o AdminEvents(NoConf, r)
      /\ MstiEvents(NoConf, r) \in Seq(Event)
  BY <1>1, <1>3, <1>4 DEF Events
<1> DEFINE a == MstiEvents(NoConf, r)
           b == AdminEvents(NoConf, r)
<1>6. a \in Seq(Event) /\ b \in Seq(Event) /\ Events(NoConf, r) = <<e>> \o a \o b
  BY <1>3, <1>5
<1> HIDE DEF e, a, b
<1>7. <<e>> \o a \o b # <<>> /\ Head(<<e>> \o a \o b) = e
  BY <1>1, <1>6
<1> QED BY <1>1, <1>6, <1>7

LEMMA LookCountInv == ASSUME IInv, CountInv, Look PROVE CountInv'
<1>1. /\ replica' = db /\ queue' = queue \o Events(conf, db) /\ conf' = Cached(conf, db)
      /\ UNCHANGED <<db, mstp, changes>>
  BY DEF Look
<1>2. conf \in Caches /\ db \in Config /\ queue \in Seq(Event)
  BY DEF IInv, TypeOK, Caches
<1>3. /\ Cardinality(Updates(queue')) <= Cardinality(Updates(queue)) + Due(conf, db)
      /\ Due(conf', db') = 0 /\ Due(conf, db) \in Nat
  BY <1>1, <1>2, UpdatesSent
<1>4. Cardinality(Updates(queue')) \in Nat
  <2>1. queue' \in Seq(Event)
    BY LookInv DEF IInv, TypeOK
  <2> QED BY <2>1, UpdatesFinite
<1>5. mstp'.trees + Uncounted(mstp') + Cardinality(Updates(queue')) + Due(conf', db')
        <= 1 + MaxMsti * (1 + changes')
  <2> DEFINE known == mstp.trees + Uncounted(mstp)
             n == 1 + MaxMsti * (1 + changes)
  <2>1. known + Cardinality(Updates(queue)) + Due(conf, db) <= n
    BY DEF CountInv
  <2>2. known \in Nat /\ Cardinality(Updates(queue)) \in Nat /\ n \in Nat
    BY CountTypes DEF IInv
  <2>3. mstp'.trees + Uncounted(mstp') = known /\ 1 + MaxMsti * (1 + changes') = n
    BY <1>1 DEF Uncounted
  <2> HIDE DEF known, n
  <2> QED BY <1>3, <1>4, <2>1, <2>2, <2>3
<1>6. mstp'.cist = Cleared =>
        ~ mstp'.spanning /\ queue' # <<>> /\ Head(queue') \in CistEvent
  <2> SUFFICES ASSUME mstp'.cist = Cleared
               PROVE  ~ mstp'.spanning /\ queue' # <<>> /\ Head(queue') \in CistEvent
    OBVIOUS
  <2>1. /\ ~ mstp.spanning
        /\ \/ queue = <<>> /\ conf = NoConf
           \/ queue # <<>> /\ Head(queue) \in CistEvent
    BY <1>1 DEF CountInv
  <2> DEFINE es == Events(conf, db)
  <2>2. es \in Seq(Event)
    BY <1>2, EventsAreParts
  <2>3. CASE queue = <<>> /\ conf = NoConf
    <3>1. es # <<>> /\ Head(es) \in CistEvent
      BY <1>2, <2>3, CistSentFirst
    <3> HIDE DEF es
    <3>2. queue \o es = es
      BY <2>2, <2>3
    <3> QED BY <1>1, <2>1, <3>1, <3>2 DEF es
  <2>4. CASE queue # <<>> /\ Head(queue) \in CistEvent
    <3> HIDE DEF es
    <3>1. queue \o es # <<>> /\ Head(queue \o es) = Head(queue)
      BY <1>2, <2>2, <2>4
    <3> QED BY <1>1, <2>1, <2>4, <3>1 DEF es
  <2> QED BY <2>1, <2>3, <2>4
<1>7. replica' = db'
  BY <1>1
<1>8. mstp'.trees + Uncounted(mstp') >= 1 + Cardinality(mstp'.info)
  BY <1>1 DEF CountInv, Uncounted
<1> QED BY <1>5, <1>6, <1>7, <1>8 DEF CountInv, Uncounted, Updates, Due

\* what a handler does to the counter, when it does not wrap
LEMMA AfterCounts ==
  ASSUME NEW s \in Mstp, NEW e \in Event,
         s.trees + Uncounted(s) + (IF e.type = "msti" THEN 1 ELSE 0) <= 255,
         s.trees + Uncounted(s) >= 1 + Cardinality(s.info)
  PROVE  LET t == After(s, e)
         IN  /\ t.trees + Uncounted(t) >= 1 + Cardinality(t.info)
             /\ t.trees + Uncounted(t)
                  <= s.trees + Uncounted(s) + (IF e.type = "msti" THEN 1 ELSE 0)
<1> DEFINE t == After(s, e)
           n == Cardinality(s.info)
<1>1. /\ s.trees \in 0 .. 255 /\ Uncounted(s) \in {0, 1}
      /\ s.info \in SUBSET Msti /\ IsFiniteSet(s.info) /\ n \in Nat
  <2>1. s.trees \in 0 .. 255 /\ s.info \in SUBSET Msti
    BY DEF Mstp, TreeCount
  <2>2. Uncounted(s) \in {0, 1}
    BY DEF Uncounted
  <2> QED BY <2>1, <2>2, MstiFinite
<1>2. CASE e \in CistEvent
  <2>1. t = CistConfig(s, e.priority) /\ e.priority \in Priority /\ e.type = "cist"
    BY <1>2 DEF After, CistEvent
  <2>2. t.cist # Cleared /\ t.info = s.info
    BY <2>1, CistStep, ConfigAssumption
  <2>3. t.trees = IF s.cist = Cleared THEN (s.trees + 1) % 256 ELSE s.trees
    BY <2>1 DEF CistConfig, Mstp
  <2>4. CASE s.cist = Cleared
    <3>1. Uncounted(s) = 1 /\ Uncounted(t) = 0
      BY <2>2, <2>4 DEF Uncounted
    <3>2. s.trees + 1 <= 255
      BY <1>1, <2>1, <3>1
    <3>3. t.trees = s.trees + 1
      BY <1>1, <2>3, <2>4, <3>2
    <3> HIDE DEF t
    <3> QED BY <1>1, <2>1, <2>2, <3>1, <3>3 DEF t
  <2>5. CASE s.cist # Cleared
    <3>1. Uncounted(s) = 0 /\ Uncounted(t) = 0 /\ t.trees = s.trees
      BY <2>2, <2>3, <2>5 DEF Uncounted
    <3> HIDE DEF t
    <3> QED BY <1>1, <2>1, <2>2, <3>1 DEF t
  <2> QED BY <2>4, <2>5
<1>3. CASE e \in MstiEvent
  <2>1. t = MstiConfig(s, e.mstid, e.vlans) /\ e.mstid \in Msti /\ e.type = "msti"
        /\ e.vlans \in SUBSET Vlan
    BY <1>3 DEF After, MstiEvent
  <2>2. t.cist = s.cist /\ t.info = s.info \cup {e.mstid}
    BY <2>1, MstiStep
  <2>3. t.trees = (s.trees + 1) % 256
    BY <2>1 DEF MstiConfig, Mstp
  <2>4. s.trees + 1 <= 255
    BY <1>1, <2>1
  <2>5. t.trees = s.trees + 1
    BY <1>1, <2>3, <2>4
  <2>6. Uncounted(t) = Uncounted(s)
    BY <2>2 DEF Uncounted
  <2>7. Cardinality(t.info) \in Nat /\ Cardinality(t.info) <= n + 1
    <3>1. CASE e.mstid \in s.info
      <4>1. t.info = s.info
        BY <2>2, <3>1
      <4> QED BY <1>1, <4>1
    <3>2. CASE e.mstid \notin s.info
      <4>1. Cardinality(s.info \cup {e.mstid}) = n + 1
        BY <1>1, <3>2, FS_AddElement
      <4> QED BY <1>1, <2>2, <4>1
    <3> QED BY <3>1, <3>2
  <2> HIDE DEF t, n
  <2> QED BY <1>1, <2>1, <2>5, <2>6, <2>7 DEF t, n
<1>4. CASE e \in DeleteEvent
  <2>1. t = MstiDelete(s, e.mstid) /\ e.mstid \in Msti /\ e.type = "delete"
    BY <1>4 DEF After, DeleteEvent
  <2>2. CASE e.mstid \notin s.info
    <3>1. t = s
      BY <2>1, <2>2, DeleteStep
    <3> QED BY <1>1, <2>1, <3>1
  <2>3. CASE e.mstid \in s.info
    <3>1. t.cist = s.cist /\ t.info = s.info \ {e.mstid}
      BY <2>1, DeleteStep
    <3>2. t.trees = (s.trees - 1) % 256
      BY <2>1, <2>3 DEF MstiDelete, Mstp
    <3>3. Cardinality(t.info) = n - 1 /\ Cardinality(t.info) \in Nat
      <4>1. Cardinality(s.info \ {e.mstid}) = n - 1
        BY <1>1, <2>3, FS_RemoveElement
      <4>2. t.info \in SUBSET Msti
        BY <1>1, <3>1
      <4> QED BY <3>1, <4>1, <4>2, MstiFinite
    <3>4. s.trees >= 1
      BY <1>1, <3>3
    <3>5. t.trees = s.trees - 1
      BY <1>1, <3>2, <3>4
    <3>6. Uncounted(t) = Uncounted(s)
      BY <3>1 DEF Uncounted
    <3> HIDE DEF t, n
    <3> QED BY <1>1, <2>1, <3>3, <3>5, <3>6 DEF t, n
  <2> QED BY <2>2, <2>3
<1>5. CASE e \in AdminEvent
  <2>1. e.type = "admin" /\ (t = Started(s) \/ t = s)
    BY <1>5 DEF After, AdminEvent
  <2>2. t.trees = s.trees /\ t.cist = s.cist /\ t.info = s.info
    BY <2>1 DEF Started, Mstp
  <2>3. Uncounted(t) = Uncounted(s)
    BY <2>2 DEF Uncounted
  <2> HIDE DEF t
  <2> QED BY <1>1, <2>1, <2>2, <2>3 DEF t
<1>6. e \in CistEvent \cup MstiEvent \cup DeleteEvent \cup AdminEvent
  BY EventKinds
<1> QED BY <1>2, <1>3, <1>4, <1>5, <1>6

\* before it handles an event the counter is below its limit
LEMMA CounterBelow ==
  ASSUME TypeOK, CountInv, FewChanges, queue # <<>>
  PROVE  LET one == IF Head(queue).type = "msti" THEN 1 ELSE 0
         IN  /\ mstp.trees + Uncounted(mstp) + one <= 255
             /\ mstp.trees + Uncounted(mstp) + one + Cardinality(Updates(Tail(queue)))
                  + Due(conf, db) <= 1 + MaxMsti * (1 + changes)
             /\ Cardinality(Updates(Tail(queue))) \in Nat
<1> DEFINE one == IF Head(queue).type = "msti" THEN 1 ELSE 0
           known == mstp.trees + Uncounted(mstp)
           left == Cardinality(Updates(Tail(queue)))
           n == MaxMsti * (1 + changes)
           most == MaxMsti * (1 + MaxChanges)
<1>1. queue \in Seq(Event) /\ Tail(queue) \in Seq(Event)
  BY DEF TypeOK
<1>2. Cardinality(Updates(queue)) = left + one /\ left \in Nat /\ one \in {0, 1}
  BY <1>1, UpdatesHandled, UpdatesFinite
<1>3. known \in Nat /\ Due(conf, db) \in Nat /\ MaxMsti \in Nat
      /\ MaxChanges \in Nat /\ changes \in 0 .. MaxChanges
  <2>1. mstp.trees \in 0 .. 255 /\ Uncounted(mstp) \in {0, 1}
    BY CountTypes
  <2>2. \A a \in 0 .. 255, b \in {0, 1} : a + b \in Nat
    OBVIOUS
  <2>3. known \in Nat
    BY <2>1, <2>2
  <2> HIDE DEF known
  <2> QED BY <2>3, CountTypes
<1>4. n <= most /\ n \in Nat
  <2>1. \A a \in Nat, b \in Nat, c \in Nat : b <= c => a * b <= a * c
    BY SMTT(30)
  <2>2. 1 + changes \in Nat /\ 1 + MaxChanges \in Nat /\ 1 + changes <= 1 + MaxChanges
    BY <1>3
  <2> QED BY <1>3, <2>1, <2>2
<1>5. known + (left + one) + Due(conf, db) <= 1 + n
  BY <1>2 DEF CountInv
<1>6. 1 + most <= 255 /\ most \in Int
  BY <1>3 DEF FewChanges
<1> HIDE DEF one, known, left, n, most
<1>7. known + one <= 255 /\ known + one + left + Due(conf, db) <= 1 + n
  BY <1>2, <1>3, <1>4, <1>5, <1>6
<1> QED BY <1>2, <1>7 DEF one, known, left, n

LEMMA HandleCountInv == ASSUME IInv, CountInv, FewChanges, Handle PROVE CountInv'
<1> DEFINE e == Head(queue)
           one == IF e.type = "msti" THEN 1 ELSE 0
<1>1. /\ mstp \in Mstp /\ queue \in Seq(Event) /\ queue # <<>> /\ e \in Event
  BY DEF IInv, TypeOK, Handle
<1>2. /\ mstp' = After(mstp, e) /\ queue' = Tail(queue)
      /\ replica' \in {replica, db} /\ UNCHANGED <<db, conf, changes>>
  BY DEF Handle, Commits
<1>3. /\ mstp.trees + Uncounted(mstp) + one <= 255
      /\ mstp.trees + Uncounted(mstp) + one + Cardinality(Updates(queue')) + Due(conf, db)
           <= 1 + MaxMsti * (1 + changes)
      /\ Cardinality(Updates(queue')) \in Nat
  BY <1>1, <1>2, CounterBelow DEF IInv
<1>4. mstp.trees + Uncounted(mstp) >= 1 + Cardinality(mstp.info)
  BY DEF CountInv
<1> HIDE DEF e
<1>5. /\ mstp'.trees + Uncounted(mstp') >= 1 + Cardinality(mstp'.info)
      /\ mstp'.trees + Uncounted(mstp') <= mstp.trees + Uncounted(mstp) + one
  BY <1>1, <1>2, <1>3, <1>4, AfterCounts
<1>6. mstp'.trees + Uncounted(mstp') + Cardinality(Updates(queue')) + Due(conf, db)
        <= 1 + MaxMsti * (1 + changes)
  <2> DEFINE new == mstp'.trees + Uncounted(mstp')
             known == mstp.trees + Uncounted(mstp)
             n == MaxMsti * (1 + changes)
  <2>1. IInv'
    BY HandleInv
  <2>2. mstp'.trees \in 0 .. 255 /\ Uncounted(mstp') \in {0, 1}
    BY <2>1 DEF IInv, TypeOK, Mstp, TreeCount, Uncounted
  <2>3. new \in Nat /\ known \in Nat /\ Due(conf, db) \in Nat /\ n \in Nat
    BY <2>2, CountTypes DEF IInv
  <2>4. one \in {0, 1}
    OBVIOUS
  <2> HIDE DEF new, known, n, one
  <2> QED BY <1>3, <1>5, <2>3, <2>4 DEF new, known, n
<1>7. mstp'.cist # Cleared \/ (~ mstp'.spanning /\ queue' = <<>> /\ conf' = NoConf)
  <2>1. Handled(mstp, e, mstp')
    BY <1>1, <1>2, AfterStep DEF IInv, DigestCurrent
  <2>2. CASE e \in CistEvent
    <3>1. PriorityOf[e] \in Priority
      BY <2>2 DEF PriorityOf, CistEvent
    <3> QED BY <2>1, <2>2, <3>1, ConfigAssumption DEF Handled
  <2>3. CASE e \notin CistEvent
    <3>1. mstp'.cist = mstp.cist
      BY <2>1, <2>3 DEF Handled
    <3>2. mstp.cist # Cleared
      BY <1>1, <2>3 DEF CountInv, e
    <3> QED BY <3>1, <3>2
  <2> QED BY <2>2, <2>3
<1>8. replica' # db' => changes' >= 1
  BY <1>2 DEF CountInv
<1> QED BY <1>2, <1>5, <1>6, <1>7, <1>8 DEF CountInv, Uncounted, Updates, Due

LEMMA OnceMore ==
  ASSUME NEW a \in Nat, NEW n \in Nat
  PROVE  /\ a * (1 + n) \in Nat /\ a <= a * (1 + n)
         /\ n >= 1 => a + a <= a * (1 + n)
<1>1. a * (1 + n) = a + a * n /\ a * n \in Nat
  OBVIOUS
<1>2. n >= 1 => a <= a * n
  <2> SUFFICES ASSUME n >= 1 PROVE a <= a * n
    OBVIOUS
  <2>1. PICK k \in Nat : n = 1 + k
    <3>1. n - 1 \in Nat /\ n = 1 + (n - 1)
      OBVIOUS
    <3> QED BY <3>1
  <2>2. a * n = a + a * k /\ a * k \in Nat
    BY <2>1
  <2> QED BY <2>2
<1> QED BY <1>1, <1>2

LEMMA ReinitCountInv == ASSUME IInv, CountInv, Reinit PROVE CountInv'
<1>1. /\ mstp' = Wiped(After(mstp, Head(queue)))
      /\ replica' \in {replica, db}
      /\ queue' = Events(NoConf, replica') /\ conf' = Cached(NoConf, replica')
      /\ UNCHANGED <<db, changes>>
  BY DEF Reinit, Commits
<1>2. IInv' /\ ~ mstp'.spanning
  BY ReinitInv
<1>3. mstp'.trees = 0 /\ mstp'.cist = Cleared /\ mstp'.info = {}
  <2>1. After(mstp, Head(queue)) \in Mstp
    <3>1. Head(queue) \in Event
      BY DEF IInv, TypeOK, Reinit
    <3>2. Handled(mstp, Head(queue), After(mstp, Head(queue)))
      BY <3>1, AfterStep DEF IInv, TypeOK, DigestCurrent
    <3> QED BY <3>2 DEF Handled
  <2> QED BY <1>1, <2>1 DEF Wiped, Mstp
<1>4. Uncounted(mstp') = 1 /\ Cardinality(mstp'.info) = 0
  BY <1>3, FS_EmptySet DEF Uncounted
<1>5. /\ replica' \in Config /\ db' \in Config /\ NoConf \in Caches
      /\ conf' \in Caches /\ queue' \in Seq(Event)
  BY <1>2 DEF IInv, TypeOK, Caches
<1>6. queue' # <<>> /\ Head(queue') \in CistEvent
  BY <1>1, <1>5, CistSentFirst
<1>7. Cardinality(Updates(queue')) <= MaxMsti /\ Cardinality(Updates(queue')) \in Nat
  <2> DEFINE es == Events(NoConf, replica')
  <2>1. <<>> \in Seq(Event) /\ Updates(<<>>) = {} /\ Cardinality({}) = 0
    BY FS_EmptySet DEF Updates
  <2>2. /\ Cardinality(Updates(<<>> \o es)) <= Cardinality(Updates(<<>>)) + Due(NoConf, replica')
        /\ Due(NoConf, replica') \in Nat /\ Due(NoConf, replica') <= MaxMsti
    BY <1>5, <2>1, UpdatesSent
  <2>3. <<>> \o es = es
    BY <1>1, <1>5
  <2>4. Cardinality(Updates(es)) \in Nat
    BY <1>1, <1>5, UpdatesFinite
  <2>5. Cardinality(Updates(es)) <= 0 + Due(NoConf, replica')
    <3> HIDE DEF es
    <3>1. Cardinality(Updates(<<>> \o es)) = Cardinality(Updates(es))
      BY <2>3
    <3>2. Cardinality(Updates(<<>>)) = 0
      BY <2>1
    <3> QED BY <2>2, <3>1, <3>2
  <2> DEFINE sent == Cardinality(Updates(es))
             most == Due(NoConf, replica')
  <2>6. sent \in Nat /\ most \in Nat /\ most <= MaxMsti /\ sent <= 0 + most /\ MaxMsti \in Nat
    BY <2>2, <2>4, <2>5, ConfigAssumption
  <2> HIDE DEF sent, most
  <2>7. sent <= MaxMsti
    BY <2>6
  <2> HIDE DEF es
  <2> QED BY <1>1, <2>4, <2>7 DEF es, sent
<1>8. Due(conf', db') \in Nat /\ Due(conf', db') <= MaxMsti
      /\ (replica' = db' => Due(conf', db') = 0)
  BY <1>1, <1>5, UpdatesSent
<1>9. changes' \in Nat /\ MaxMsti \in Nat /\ (replica' # db' => changes' >= 1)
  BY <1>1, CountTypes DEF IInv, CountInv
<1>10. Cardinality(Updates(queue')) + Due(conf', db') <= MaxMsti * (1 + changes')
  <2> DEFINE sent == Cardinality(Updates(queue'))
             due == Due(conf', db')
             most == MaxMsti * (1 + changes')
  <2>1. sent \in Nat /\ sent <= MaxMsti /\ due \in Nat /\ due <= MaxMsti
    BY <1>7, <1>8
  <2>2. CASE replica' = db'
    <3>1. due = 0 /\ MaxMsti <= most /\ most \in Nat
      BY <1>8, <1>9, <2>2, OnceMore
    <3> HIDE DEF sent, due, most
    <3>2. sent + due <= most
      BY <1>9, <2>1, <3>1
    <3> QED BY <3>2 DEF sent, due, most
  <2>3. CASE replica' # db'
    <3>1. MaxMsti + MaxMsti <= most /\ most \in Nat
      BY <1>9, <2>3, OnceMore
    <3> HIDE DEF sent, due, most
    <3>2. sent + due <= most
      BY <1>9, <2>1, <3>1
    <3> QED BY <3>2 DEF sent, due, most
  <2> QED BY <2>2, <2>3
<1>11. 0 + 1 + Cardinality(Updates(queue')) + Due(conf', db') <= 1 + MaxMsti * (1 + changes')
  BY <1>7, <1>8, <1>9, <1>10
<1> QED BY <1>2, <1>3, <1>4, <1>6, <1>9, <1>11 DEF CountInv, Uncounted, Updates, Due

LEMMA NextCountInv == ASSUME IInv, CountInv, FewChanges, [Next]_vars PROVE CountInv'
<1>1. CASE Next
  BY <1>1, CliCountInv, LookCountInv, HandleCountInv, ReinitCountInv DEF Next
<1>2. CASE UNCHANGED vars
  BY <1>2 DEF vars, CountInv, Uncounted, Updates, Due
<1> QED BY <1>1, <1>2

\* numOfValidTrees never counts too few: updates that were counted twice only
\* add to it, a deletion takes one off only for an instance in use, and the
\* CIST is counted before the protocol can start.  The counter is an unsigned
\* char: this holds as long as the commands given cannot make it wrap.
THEOREM TreesAreCounted == FewChanges => (Spec => []TreesCounted)
<1> SUFFICES ASSUME FewChanges PROVE Spec => []TreesCounted
  OBVIOUS
<1>1. Init => IInv /\ CountInv
  BY InitInv, InitCountInv
<1>2. IInv /\ CountInv /\ [Next]_vars => (IInv /\ CountInv)'
  BY NextInv, NextCountInv
<1>3. IInv /\ CountInv => TreesCounted
  <2> SUFFICES ASSUME IInv, CountInv, mstp.spanning
               PROVE  mstp.trees >= 1 + Cardinality(mstp.info)
    BY DEF TreesCounted
  <2>1. Uncounted(mstp) = 0
    BY DEF CountInv, Uncounted
  <2>2. mstp.trees + 0 >= 1 + Cardinality(mstp.info)
    BY <2>1 DEF CountInv
  <2>3. mstp.trees + 0 = mstp.trees
    BY CountTypes DEF IInv
  <2> QED BY <2>2, <2>3
<1> QED BY <1>1, <1>2, <1>3, PTL DEF Spec
=============================================================================
