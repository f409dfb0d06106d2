-------------------------- MODULE TenantCacheProofs --------------------------
(***************************************************************************)
(* Theorems about TenantCache for every set of tenants and hostnames,      *)
(* every TTL and every sequence of writes to the files: the types, that    *)
(* an answer was read less than a TTL ago or for the request it answers,   *)
(* and that a request that comes a TTL after the last write is answered    *)
(* what the files say.                                                     *)
(***************************************************************************)
EXTENDS TenantCache, FiniteSetTheorems, WellFoundedInduction, TLAPS

\* Everything in the tables was read at a time or later.
ReadSince(table, time) ==
    /\ \A t \in Tenants : table.name[t] # NULL => table.name[t].read >= time
    /\ \A h \in Hostnames : table.host[h] # NULL => table.host[h].read >= time

Legacy(t, h)    == configs[t] = h
Published(t, h) == bundle # Torn /\ bundle[t] = h

\* The entry of a tenant is that of its files, its config having been read or not yet.
NameOK(table, t, read) ==
    IF read /\ configs[t] \in Hostnames
    THEN AsConfig(table.name[t], t, configs[t], "legacy_config")
    ELSE IF bundle # Torn /\ bundle[t] # NULL
    THEN AsConfig(table.name[t], t, bundle[t], "published_bundle")
    ELSE table.name[t] = NULL

\* The entry of a hostname is that of the files, some configs not having been read yet.
HostOK(table, h, left) ==
    IF \E t \in Tenants \ left : Legacy(t, h)
    THEN \E t \in Tenants \ left :
             /\ Legacy(t, h) /\ AsConfig(table.host[h], t, h, "legacy_config")
             /\ \A u \in Tenants \ left : Legacy(u, h) => u <= t
    ELSE IF \E t \in Tenants : Published(t, h)
    THEN \E t \in Tenants :
             /\ Published(t, h) /\ AsConfig(table.host[h], t, h, "published_bundle")
             /\ \A u \in Tenants : Published(u, h) => u <= t
    ELSE table.host[h] = NULL

\* Tables that were begun at a time, with some configs left to be read, are those of the
\* files that have not been written since: a tenant's entry depends on its own config
\* and the bundle, a hostname's on all of them; and the configs left are the last ones.
UpToDate(table, time, left) ==
    written[Bundle] < time =>
        /\ \A t \in Tenants : written[t] < time => NameOK(table, t, t \notin left)
        /\ (\A t \in Tenants : written[t] < time) =>
               /\ \A h \in Hostnames : HostOK(table, h, left)
               /\ \A t \in Tenants \ left, u \in left : configs[t] \in Hostnames => t < u

Left == IF load.step = "list" THEN Tenants ELSE load.paths

CacheOK ==
    /\ fetched_at <= now
    /\ ReadSince(cache, fetched_at)
    /\ UpToDate(cache, fetched_at, {})

LoadOK ==
    load # NULL =>
        /\ load.start <= now
        /\ ReadSince(load.table, load.start)
        /\ load.step = "bundle" => load.table = NoTable
        /\ load.step # "bundle" => UpToDate(load.table, load.start, Left)

\* The tables a request is answered from were begun when it came, or are not due yet.
AnswerOK ==
    answered # NULL => \/ answered = fetched_at
                       \/ answered = now /\ now < fetched_at + TTL

IInv == TypeOK /\ CacheOK /\ LoadOK /\ AnswerOK

-----------------------------------------------------------------------------
(* Sets of numbers.                                                        *)

LEMMA LeastExists ==
    ASSUME NEW S \in SUBSET Nat, S # {}
    PROVE  \E m \in S : \A n \in S : m <= n
<1> DEFINE LessThan == OpToRel(<, Nat)
<1>1. IsWellFoundedOn(LessThan, Nat)
  BY NatLessThanWellFounded
<1>2. \A m, n \in Nat : n < m => <<n, m>> \in LessThan
  BY DEF OpToRel
<1>. HIDE DEF LessThan
<1>3. PICK m \in S : \A n \in S : <<n, m>> \notin LessThan
  BY <1>1, WFMin
<1>4. ASSUME NEW n \in S PROVE m <= n
  <2>1. m \in Nat /\ n \in Nat /\ ~(n < m)
    BY <1>2, <1>3
  <2>. QED  BY <2>1
<1>. QED  BY <1>4

\* The greatest number of a finite set is the one with the fewest above it.
LEMMA GreatestExists ==
    ASSUME NEW S \in SUBSET Nat, S # {}, IsFiniteSet(S)
    PROVE  \E m \in S : \A n \in S : n <= m
<1> DEFINE Above(m) == {n \in S : m < n}
           Sizes    == {Cardinality(Above(m)) : m \in S}
<1>1. ASSUME NEW m \in S PROVE IsFiniteSet(Above(m)) /\ Cardinality(Above(m)) \in Nat
  <2>1. Above(m) \subseteq S
    OBVIOUS
  <2>. QED  BY <2>1, FS_Subset, FS_CardinalityType
<1>2. \E c \in Sizes : \A d \in Sizes : c <= d
  <2>1. Sizes \subseteq Nat
    BY <1>1
  <2>2. Sizes # {}
    OBVIOUS
  <2>. HIDE DEF Sizes
  <2>. QED  BY <2>1, <2>2, LeastExists
<1>3. PICK m \in S : \A n \in S : Cardinality(Above(m)) <= Cardinality(Above(n))
  BY <1>2
<1>4. ASSUME NEW n \in S, m < n PROVE FALSE
  <2>1. Above(n) \subseteq Above(m) /\ n \in Above(m) /\ n \notin Above(n)
    <3>1. \A k \in S : k \in Nat
      OBVIOUS
    <3>2. m \in Nat /\ n \in Nat /\ m < n
      BY <1>4
    <3>3. \A k \in S : n < k => m < k
      BY <3>1, <3>2
    <3>4. ~(n < n)
      BY <3>2
    <3>5. Above(n) \subseteq Above(m)
      BY <3>3
    <3>. QED  BY <1>4, <3>4, <3>5
  <2>. HIDE DEF Above
  <2>2. Above(n) # Above(m)
    BY <2>1
  <2>3. /\ Cardinality(Above(n)) <= Cardinality(Above(m))
        /\ Cardinality(Above(n)) # Cardinality(Above(m))
    BY <2>1, <2>2, <1>1, FS_Subset
  <2>. QED  BY <2>3, <1>1, <1>3
<1>. QED  BY <1>4

\* The first and the last of some tenants.
LEMMA TenantsInOrder ==
    ASSUME NEW S \in SUBSET Tenants, S # {}
    PROVE  /\ Least(S) \in S /\ \A t \in S : Least(S) <= t
           /\ Greatest(S) \in S /\ \A t \in S : t <= Greatest(S)
<1>1. S \in SUBSET Nat /\ IsFiniteSet(S)
  BY TenantsAssumption, FS_Subset
<1>2. (\E m \in S : \A n \in S : m <= n) /\ (\E m \in S : \A n \in S : n <= m)
  BY <1>1, LeastExists, GreatestExists
<1>. QED  BY <1>2 DEF Least, Greatest

-----------------------------------------------------------------------------
(* The tables.                                                             *)

LEMMA EntryIs ==
    ASSUME TypeOK, NEW t \in Tenants, NEW h \in Hostnames, NEW source \in Sources
    PROVE  /\ Entry(t, h, source) \in Config
           /\ AsConfig(Entry(t, h, source), t, h, source)
           /\ Entry(t, h, source).read = now
<1>1. Entry(t, h, source) \in Config /\ Entry(t, h, source).read = now
  BY DEF TypeOK, Entry, Config
<1>2. Entry(t, h, source) # NULL
  BY <1>1, NullAssumption
<1>. QED  BY <1>1, <1>2 DEF Entry, AsConfig

LEMMA NoTableIs ==
    /\ NoTable \in Table
    /\ \A time : ReadSince(NoTable, time)
    /\ bundle = Torn => /\ \A t \in Tenants : NameOK(NoTable, t, FALSE)
                        /\ \A h \in Hostnames : HostOK(NoTable, h, Tenants)
<1>1. NoTable \in Table
  BY DEF NoTable, Table
<1>2. \A time : ReadSince(NoTable, time)
  BY DEF NoTable, ReadSince
<1>3. bundle = Torn => /\ \A t \in Tenants : NameOK(NoTable, t, FALSE)
                       /\ \A h \in Hostnames : HostOK(NoTable, h, Tenants)
  BY DEF NoTable, NameOK, HostOK, Published
<1>. QED  BY <1>1, <1>2, <1>3

LEMMA BundleTableIs ==
    ASSUME TypeOK, bundle # Torn
    PROVE  /\ BundleTable \in Table
           /\ ReadSince(BundleTable, now)
           /\ \A t \in Tenants : NameOK(BundleTable, t, FALSE)
           /\ \A h \in Hostnames : HostOK(BundleTable, h, Tenants)
<1> DEFINE published == "published_bundle"
           at(h) == {t \in Tenants : bundle[t] = h}
<1>1. published \in Sources /\ bundle \in Map /\ now \in Nat
  BY DEF Sources, TypeOK, Time
<1>2. ASSUME NEW t \in Tenants
      PROVE  /\ BundleTable.name[t] \in Config \cup {NULL}
             /\ BundleTable.name[t] # NULL => BundleTable.name[t].read = now
             /\ NameOK(BundleTable, t, FALSE)
  <2>1. BundleTable.name[t] = IF bundle[t] = NULL THEN NULL
                              ELSE Entry(t, bundle[t], published)
    BY DEF BundleTable
  <2>2. CASE bundle[t] = NULL
    BY <2>1, <2>2 DEF NameOK
  <2>3. CASE bundle[t] # NULL
    <3>1. bundle[t] \in Hostnames
      BY <1>1, <2>3 DEF Map
    <3>. QED  BY <1>1, <2>1, <2>3, <3>1, EntryIs DEF NameOK
  <2>. QED  BY <2>2, <2>3
<1>3. ASSUME NEW h \in Hostnames
      PROVE  /\ BundleTable.host[h] \in Config \cup {NULL}
             /\ BundleTable.host[h] # NULL => BundleTable.host[h].read = now
             /\ HostOK(BundleTable, h, Tenants)
  <2>1. BundleTable.host[h] = IF at(h) = {} THEN NULL
                              ELSE Entry(Greatest(at(h)), h, published)
    BY DEF BundleTable
  <2>2. CASE at(h) = {}
    <3>1. ~ \E t \in Tenants : Published(t, h)
      BY <2>2 DEF Published
    <3>. QED  BY <2>1, <2>2, <3>1 DEF HostOK
  <2>3. CASE at(h) # {}
    <3> DEFINE g == Greatest(at(h))
    <3>1. g \in Tenants /\ bundle[g] = h /\ \A t \in Tenants : bundle[t] = h => t <= g
      BY <2>3, TenantsInOrder
    <3>. HIDE DEF g
    <3>2. BundleTable.host[h] = Entry(g, h, published)
      BY <2>1, <2>3 DEF g
    <3>3. /\ Entry(g, h, published) \in Config
          /\ AsConfig(Entry(g, h, published), g, h, published)
          /\ Entry(g, h, published).read = now
      BY <1>1, <3>1, EntryIs
    <3>4. HostOK(BundleTable, h, Tenants)
      BY <3>1, <3>2, <3>3 DEF HostOK, Published
    <3>. QED  BY <3>2, <3>3, <3>4
  <2>. QED  BY <2>2, <2>3
<1>4. BundleTable \in Table
  <2>1. /\ BundleTable.name \in [Tenants -> Config \cup {NULL}]
        /\ BundleTable.host \in [Hostnames -> Config \cup {NULL}]
        /\ BundleTable = [name |-> BundleTable.name, host |-> BundleTable.host]
    BY <1>2, <1>3 DEF BundleTable
  <2>. QED  BY <2>1 DEF Table
<1>5. ReadSince(BundleTable, now)
  <2>1. now >= now
    BY <1>1
  <2>. QED  BY <2>1, <1>2, <1>3, Zenon DEF ReadSince
<1>. QED  BY <1>2, <1>3, <1>4, <1>5

\* A legacy config that is read takes its name and its hostname, and nothing else.
LEMMA PutIs ==
    ASSUME TypeOK, NEW table \in Table, NEW t \in Tenants, NEW h \in Hostnames
    PROVE  LET new == Put(table, t, h)
           IN  /\ new \in Table
               /\ AsConfig(new.name[t], t, h, "legacy_config") /\ new.name[t].read = now
               /\ AsConfig(new.host[h], t, h, "legacy_config") /\ new.host[h].read = now
               /\ \A u \in Tenants \ {t} : new.name[u] = table.name[u]
               /\ \A g \in Hostnames \ {h} : new.host[g] = table.host[g]
<1> DEFINE e == Entry(t, h, "legacy_config")
<1>1. e \in Config /\ AsConfig(e, t, h, "legacy_config") /\ e.read = now
  BY EntryIs DEF Sources
<1>2. Put(table, t, h) = [name |-> [table.name EXCEPT ![t] = e],
                          host |-> [table.host EXCEPT ![h] = e]]
  BY DEF Put
<1>. HIDE DEF e
<1>3. /\ table.name \in [Tenants -> Config \cup {NULL}]
      /\ table.host \in [Hostnames -> Config \cup {NULL}]
  BY DEF Table
<1>. QED  BY <1>1, <1>2, <1>3 DEF Table

-----------------------------------------------------------------------------
(* Every step keeps the invariants.                                        *)

\* What a step that writes no file and leaves the tables and the load alone keeps.
LEMMA ReadLater ==
    ASSUME NEW table \in Table, NEW s \in Time, NEW time \in Time, s <= time,
           ReadSince(table, time)
    PROVE  ReadSince(table, s)
<1>1. ASSUME NEW c \in Config, c.read >= time PROVE c.read >= s
  BY <1>1 DEF Config, Time
<1>. QED  BY <1>1 DEF ReadSince, Table

LEMMA UpToDateStays ==
    ASSUME NEW table, NEW time, NEW left, UNCHANGED <<bundle, configs, written>>
    PROVE  UpToDate(table, time, left) => UpToDate(table, time, left)'
BY DEF UpToDate, NameOK, HostOK, Legacy, Published

LEMMA CacheStays ==
    ASSUME IInv, UNCHANGED <<now, bundle, configs, written, cache, fetched_at>>
    PROVE  CacheOK'
BY DEF IInv, CacheOK, ReadSince, UpToDate, NameOK, HostOK, Legacy, Published

LEMMA StartLoadStep ==
    ASSUME IInv, StartLoad PROVE IInv'
<1>1. /\ load' = [step |-> "bundle", start |-> now, paths |-> {}, table |-> NoTable]
      /\ answered' = NULL
      /\ UNCHANGED <<now, bundle, configs, written, writes, cache, fetched_at>>
  BY DEF StartLoad, files
<1>2. load' \in Load
  BY <1>1, NoTableIs DEF Load, IInv, TypeOK
<1>3. TypeOK'
  BY <1>1, <1>2 DEF IInv, TypeOK
<1>4. LoadOK'
  <2>1. now <= now
    BY DEF IInv, TypeOK, Time
  <2>. QED  BY <1>1, <2>1, NoTableIs DEF LoadOK
<1>5. CacheOK'
  BY <1>1, CacheStays
<1>. QED  BY <1>1, <1>3, <1>4, <1>5 DEF IInv, AnswerOK

LEMMA ReadBundleStep ==
    ASSUME IInv, ReadBundle PROVE IInv'
<1>1. /\ load # NULL /\ load \in Load
      /\ load.step = "bundle" /\ load.table = NoTable
      /\ answered' = NULL
      /\ UNCHANGED <<now, bundle, configs, written, writes, cache, fetched_at>>
  BY DEF ReadBundle, files, IInv, TypeOK, LoadOK
<1>2. PICK s \in Time : load.start = s
  BY <1>1 DEF Load
<1>3. s <= now /\ now \in Time
  BY <1>1, <1>2 DEF IInv, LoadOK, TypeOK
<1>4. PICK new : new = IF bundle = Torn THEN NoTable ELSE BundleTable
  OBVIOUS
<1>5. load' = [load EXCEPT !.step = "list", !.table = new]
  BY <1>1, <1>4 DEF ReadBundle
<1>6. /\ new \in Table
      /\ ReadSince(new, s)
      /\ \A t \in Tenants : NameOK(new, t, FALSE)
      /\ \A h \in Hostnames : HostOK(new, h, Tenants)
  <2>1. CASE bundle = Torn
    BY <1>4, <2>1, NoTableIs
  <2>2. CASE bundle # Torn
    <3>1. new = BundleTable
      BY <1>4, <2>2
    <3>2. /\ new \in Table
          /\ ReadSince(new, now)
          /\ \A t \in Tenants : NameOK(new, t, FALSE)
          /\ \A h \in Hostnames : HostOK(new, h, Tenants)
      BY <2>2, <3>1, BundleTableIs DEF IInv
    <3>3. PICK time \in Time : time = now
      BY <1>3
    <3>. QED  BY <1>3, <3>2, <3>3, ReadLater
  <2>. QED  BY <2>1, <2>2
<1>7. /\ load' \in Load
      /\ load'.step = "list" /\ load'.table = new /\ load'.start = s
  BY <1>1, <1>2, <1>5, <1>6 DEF Load
<1>8. TypeOK'
  BY <1>1, <1>7 DEF IInv, TypeOK
<1>9. UpToDate(new, s, Tenants)'
  <2>1. \A t \in Tenants : NameOK(new, t, t \notin Tenants)
    BY <1>6 DEF NameOK
  <2>2. UpToDate(new, s, Tenants)
    BY <2>1, <1>6 DEF UpToDate
  <2>. QED  BY <2>2, <1>1, UpToDateStays
<1>10. LoadOK'
  <2>1. Left' = Tenants
    BY <1>7 DEF Left
  <2>. QED  BY <1>1, <1>3, <1>6, <1>7, <1>9, <2>1 DEF LoadOK, ReadSince, UpToDate
<1>11. CacheOK'
  BY <1>1, CacheStays
<1>. QED  BY <1>1, <1>8, <1>10, <1>11 DEF IInv, AnswerOK

LEMMA ListConfigsStep ==
    ASSUME IInv, ListConfigs PROVE IInv'
<1>1. /\ load # NULL /\ load \in Load /\ load.step = "list"
      /\ answered' = NULL
      /\ UNCHANGED <<now, bundle, configs, written, writes, cache, fetched_at>>
  BY DEF ListConfigs, files, IInv, TypeOK
<1>2. PICK s \in Time, table \in Table : load.start = s /\ load.table = table
  BY <1>1 DEF Load
<1>3. PICK paths \in SUBSET Tenants : paths = {t \in Tenants : configs[t] # NULL}
  OBVIOUS
<1>4. load' = [load EXCEPT !.step = "configs", !.paths = paths]
  BY <1>3 DEF ListConfigs
<1>5. /\ load' \in Load
      /\ load'.step = "configs" /\ load'.table = table /\ load'.start = s
      /\ load'.paths = paths
  BY <1>1, <1>2, <1>3, <1>4 DEF Load
<1>6. s <= now /\ ReadSince(table, s) /\ UpToDate(table, s, Tenants)
  BY <1>1, <1>2 DEF IInv, LoadOK, Left
<1>7. TypeOK'
  BY <1>1, <1>5 DEF IInv, TypeOK
<1>8. UpToDate(table, s, paths)'
  <2>1. \A t \in Tenants \ paths : configs[t] \notin Hostnames
    BY <1>3, NullAssumption
  <2>2. ASSUME NEW t \in Tenants, NameOK(table, t, t \notin Tenants)
        PROVE  NameOK(table, t, t \notin paths)
    BY <2>1, <2>2 DEF NameOK
  <2>3. ASSUME NEW h \in Hostnames, HostOK(table, h, Tenants)
        PROVE  HostOK(table, h, paths)
    BY <2>1, <2>3 DEF HostOK, Legacy
  <2>4. UpToDate(table, s, paths)
    BY <1>6, <2>1, <2>2, <2>3 DEF UpToDate
  <2>. QED  BY <2>4, <1>1, UpToDateStays
<1>9. LoadOK'
  <2>1. Left' = paths
    BY <1>5 DEF Left
  <2>. QED  BY <1>1, <1>5, <1>6, <1>8, <2>1 DEF LoadOK, ReadSince, UpToDate
<1>10. CacheOK'
  BY <1>1, CacheStays
<1>. QED  BY <1>1, <1>7, <1>9, <1>10 DEF IInv, AnswerOK

LEMMA ReadConfigStep ==
    ASSUME IInv, ReadConfig PROVE IInv'
<1>1. /\ load # NULL /\ load \in Load /\ load.step = "configs" /\ load.paths # {}
      /\ answered' = NULL
      /\ UNCHANGED <<now, bundle, configs, written, writes, cache, fetched_at>>
  BY DEF ReadConfig, files, IInv, TypeOK
<1>2. PICK s \in Time, table \in Table, paths \in SUBSET Tenants :
          load.start = s /\ load.table = table /\ load.paths = paths
  BY <1>1 DEF Load
<1>3. PICK t \in paths : t = Least(paths) /\ \A u \in paths : t <= u
  BY <1>1, <1>2, TenantsInOrder
<1>4. PICK new : new = IF Readable(t) THEN Put(table, t, configs[t]) ELSE table
  OBVIOUS
<1>5. load' = [load EXCEPT !.paths = paths \ {t}, !.table = new]
  BY <1>1, <1>2, <1>3, <1>4 DEF ReadConfig
<1>6. /\ s <= now /\ ReadSince(table, s) /\ UpToDate(table, s, paths)
      /\ s \in Nat /\ now \in Nat
  BY <1>1, <1>2 DEF IInv, LoadOK, Left, TypeOK, Time
<1>7. /\ new \in Table
      /\ \A u \in Tenants \ {t} : new.name[u] = table.name[u]
      /\ \A h \in Hostnames : h # configs[t] => new.host[h] = table.host[h]
      /\ configs[t] \notin Hostnames => new = table
      /\ configs[t] \in Hostnames =>
             /\ AsConfig(new.name[t], t, configs[t], "legacy_config")
             /\ AsConfig(new.host[configs[t]], t, configs[t], "legacy_config")
             /\ new.name[t].read = now
             /\ new.host[configs[t]].read = now
  BY <1>4, PutIs DEF Readable, IInv
<1>8. ReadSince(new, s)
  <2>1. now >= s
    BY <1>6
  <2>2. ASSUME NEW u \in Tenants, new.name[u] # NULL PROVE new.name[u].read >= s
    <3>1. CASE u = t /\ configs[t] \in Hostnames
      BY <3>1, <2>1, <1>7
    <3>2. CASE ~(u = t /\ configs[t] \in Hostnames)
      BY <3>2, <2>2, <1>6, <1>7 DEF ReadSince
    <3>. QED  BY <3>1, <3>2
  <2>3. ASSUME NEW h \in Hostnames, new.host[h] # NULL PROVE new.host[h].read >= s
    <3>1. CASE h = configs[t]
      BY <3>1, <2>1, <1>7
    <3>2. CASE h # configs[t]
      BY <3>2, <2>3, <1>6, <1>7 DEF ReadSince
    <3>. QED  BY <3>1, <3>2
  <2>. QED  BY <2>2, <2>3 DEF ReadSince
<1>9. /\ load' \in Load
      /\ load'.step = "configs" /\ load'.table = new /\ load'.start = s
      /\ load'.paths = paths \ {t}
  BY <1>1, <1>2, <1>5, <1>7 DEF Load
<1>10. TypeOK'
  BY <1>1, <1>9 DEF IInv, TypeOK
<1>11. UpToDate(new, s, paths \ {t})'
  <2>1. ASSUME NEW u \in Tenants, NameOK(table, u, u \notin paths)
        PROVE  NameOK(new, u, u \notin paths \ {t})
    <3>1. CASE u = t
      BY <3>1, <2>1, <1>7 DEF NameOK
    <3>2. CASE u # t
      BY <3>2, <2>1, <1>7 DEF NameOK
    <3>. QED  BY <3>1, <3>2
  <2>2. ASSUME NEW h \in Hostnames, HostOK(table, h, paths),
               \A v \in Tenants \ paths, u \in paths : configs[v] \in Hostnames => v < u
        PROVE  HostOK(new, h, paths \ {t})
    <3>1. CASE configs[t] = h
      <4>1. Legacy(t, h) /\ AsConfig(new.host[h], t, h, "legacy_config")
        BY <3>1, <1>7 DEF Legacy
      <4>2. ASSUME NEW u \in Tenants \ (paths \ {t}), Legacy(u, h) PROVE u <= t
        <5>1. u = t \/ u < t
          BY <2>2, <4>2 DEF Legacy
        <5>2. u \in Nat /\ t \in Nat
          BY TenantsAssumption
        <5>. QED  BY <5>1, <5>2
      <4>. QED  BY <4>1, <4>2 DEF HostOK
    <3>2. CASE configs[t] # h
      <4>1. new.host[h] = table.host[h] /\ ~Legacy(t, h)
        BY <3>2, <1>7 DEF Legacy
      <4>2. \A u \in Tenants : Legacy(u, h) =>
                (u \in Tenants \ paths <=> u \in Tenants \ (paths \ {t}))
        BY <4>1
      <4>. QED  BY <2>2, <4>1, <4>2 DEF HostOK
    <3>. QED  BY <3>1, <3>2
  <2>3. ASSUME NEW v \in Tenants \ (paths \ {t}), NEW u \in paths \ {t},
               configs[v] \in Hostnames,
               \A w \in Tenants \ paths : configs[w] \in Hostnames => w < u
        PROVE  v < u
    <3>1. t <= u /\ t # u /\ t \in Nat /\ u \in Nat
      BY <1>3, TenantsAssumption
    <3>2. CASE v = t
      BY <3>1, <3>2
    <3>3. CASE v # t
      BY <3>3, <2>3
    <3>. QED  BY <3>2, <3>3
  <2>4. UpToDate(new, s, paths \ {t})
    <3>. SUFFICES ASSUME written[Bundle] < s
         PROVE  /\ \A u \in Tenants :
                       written[u] < s => NameOK(new, u, u \notin paths \ {t})
                /\ (\A u \in Tenants : written[u] < s) =>
                       /\ \A h \in Hostnames : HostOK(new, h, paths \ {t})
                       /\ \A v \in Tenants \ (paths \ {t}), u \in paths \ {t} :
                              configs[v] \in Hostnames => v < u
      BY DEF UpToDate
    <3>1. \A u \in Tenants : written[u] < s => NameOK(new, u, u \notin paths \ {t})
      BY <2>1, <1>6 DEF UpToDate
    <3>2. ASSUME \A u \in Tenants : written[u] < s
          PROVE  /\ \A h \in Hostnames : HostOK(new, h, paths \ {t})
                 /\ \A v \in Tenants \ (paths \ {t}), u \in paths \ {t} :
                        configs[v] \in Hostnames => v < u
      <4>1. /\ \A h \in Hostnames : HostOK(table, h, paths)
            /\ \A v \in Tenants \ paths, u \in paths : configs[v] \in Hostnames => v < u
        BY <3>2, <1>6 DEF UpToDate
      <4>. QED  BY <4>1, <2>2, <2>3
    <3>. QED  BY <3>1, <3>2
  <2>. QED  BY <2>4, <1>1, UpToDateStays
<1>12. LoadOK'
  <2>1. Left' = paths \ {t}
    BY <1>9 DEF Left
  <2>. QED  BY <1>1, <1>6, <1>8, <1>9, <1>11, <2>1 DEF LoadOK, ReadSince, UpToDate
<1>13. CacheOK'
  BY <1>1, CacheStays
<1>. QED  BY <1>1, <1>10, <1>12, <1>13 DEF IInv, AnswerOK

LEMMA InstallStep ==
    ASSUME IInv, Install PROVE IInv'
<1>1. /\ load # NULL /\ load \in Load /\ load.step = "configs" /\ load.paths = {}
      /\ cache' = load.table /\ fetched_at' = load.start /\ load' = NULL
      /\ answered' = load.start
      /\ UNCHANGED <<now, bundle, configs, written, writes>>
  BY DEF Install, Stamp, files, IInv, TypeOK
<1>2. PICK s \in Time, table \in Table : load.start = s /\ load.table = table
  BY <1>1 DEF Load
<1>3. s <= now /\ ReadSince(table, s) /\ UpToDate(table, s, {})
  BY <1>1, <1>2 DEF IInv, LoadOK, Left
<1>4. TypeOK'
  BY <1>1, <1>2 DEF IInv, TypeOK
<1>5. UpToDate(table, s, {})'
  BY <1>1, <1>3, UpToDateStays
<1>6. CacheOK'
  BY <1>1, <1>2, <1>3, <1>5 DEF CacheOK, ReadSince, UpToDate
<1>7. LoadOK' /\ AnswerOK'
  BY <1>1 DEF LoadOK, AnswerOK
<1>. QED  BY <1>4, <1>6, <1>7 DEF IInv

\* Tables dated 0 promise nothing: no file was written before.
LEMMA NothingSince0 ==
    ASSUME TypeOK, NEW table, NEW left PROVE UpToDate(table, 0, left)
<1>1. written[Bundle] \in Nat
  BY DEF TypeOK, Time
<1>. QED  BY <1>1 DEF UpToDate

LEMMA RestartStep ==
    ASSUME IInv, Restart PROVE IInv'
<1>1. /\ cache' = NoTable /\ fetched_at' = 0 /\ load' = NULL /\ answered' = NULL
      /\ UNCHANGED <<now, bundle, configs, written, writes>>
  BY DEF Restart, files
<1>2. 0 \in Time /\ now \in Nat
  BY NumbersAssumption DEF Time, IInv, TypeOK
<1>3. TypeOK'
  BY <1>1, <1>2, NoTableIs DEF IInv, TypeOK
<1>4. UpToDate(cache, fetched_at, {})'
  BY <1>1, <1>3, NothingSince0 DEF UpToDate, TypeOK, Time
<1>5. CacheOK'
  BY <1>1, <1>2, <1>4, NoTableIs DEF CacheOK, ReadSince
<1>. QED  BY <1>1, <1>3, <1>5 DEF IInv, LoadOK, AnswerOK

\* What a write may make wrong is not promised any more: it is not before the load.
LEMMA WriteKeeps ==
    ASSUME TypeOK, NEW table, NEW time \in Time, NEW left, time <= now,
           UpToDate(table, time, left),
           NEW f \in Tenants \cup {Bundle}, written' = [written EXCEPT ![f] = now],
           \/ f = Bundle
           \/ bundle' = bundle /\ \A u \in Tenants \ {f} : configs'[u] = configs[u]
    PROVE  UpToDate(table, time, left)'
<1>1. /\ written'[f] = now /\ ~(now < time)
      /\ \A g \in (Tenants \cup {Bundle}) \ {f} : written'[g] = written[g]
  BY DEF TypeOK, Time
<1>2. CASE f = Bundle
  BY <1>1, <1>2 DEF UpToDate
<1>3. CASE f # Bundle
  <2>1. /\ f \in Tenants /\ bundle' = bundle /\ written'[Bundle] = written[Bundle]
        /\ \A u \in Tenants \ {f} : configs'[u] = configs[u]
    BY <1>1, <1>3
  <2>2. ASSUME NEW t \in Tenants, written'[t] < time, written[Bundle] < time
        PROVE  NameOK(table, t, t \notin left)'
    <3>1. t # f /\ written[t] < time
      BY <1>1, <2>1, <2>2
    <3>2. NameOK(table, t, t \notin left)
      BY <2>2, <3>1 DEF UpToDate
    <3>. QED  BY <2>1, <3>1, <3>2 DEF NameOK
  <2>3. ~ \A t \in Tenants : written'[t] < time
    BY <1>1, <2>1
  <2>. QED  BY <2>1, <2>2, <2>3 DEF UpToDate
<1>. QED  BY <1>2, <1>3

LEMMA WriteStep ==
    ASSUME IInv, NEW f \in Tenants \cup {Bundle}, Write(f),
           bundle' \in Map \cup {Torn},
           configs' \in [Tenants -> Hostnames \cup {NULL, Torn}],
           \/ f = Bundle
           \/ bundle' = bundle /\ \A u \in Tenants \ {f} : configs'[u] = configs[u]
    PROVE  IInv'
<1>1. /\ written' = [written EXCEPT ![f] = now]
      /\ writes < MaxWrites /\ writes' = writes + 1 /\ answered' = NULL
      /\ UNCHANGED <<now, cache, fetched_at, load>>
  BY DEF Write
<1>2. TypeOK'
  BY <1>1, NumbersAssumption DEF IInv, TypeOK
<1>3. CacheOK'
  <2>1. PICK s \in Time, table \in Table : fetched_at = s /\ cache = table
    BY DEF IInv, TypeOK
  <2>2. s <= now /\ UpToDate(table, s, {})
    BY <2>1 DEF IInv, CacheOK
  <2>3. UpToDate(table, s, {})'
    BY <1>1, <2>2, WriteKeeps DEF IInv
  <2>. QED  BY <1>1, <2>1, <2>3 DEF IInv, CacheOK, ReadSince, UpToDate
<1>4. LoadOK'
  <2>. SUFFICES ASSUME load # NULL PROVE LoadOK'
    BY <1>1 DEF LoadOK
  <2>1. PICK s \in Time, table \in Table, left \in SUBSET Tenants :
            load.start = s /\ load.table = table /\ left = Left
    BY DEF IInv, TypeOK, Load, Left
  <2>2. Left' = left
    BY <1>1, <2>1 DEF Left
  <2>3. load.step # "bundle" => UpToDate(table, s, left)'
    BY <1>1, <2>1, WriteKeeps DEF IInv, LoadOK
  <2>. QED  BY <1>1, <2>1, <2>2, <2>3 DEF IInv, LoadOK, ReadSince, UpToDate
<1>. QED  BY <1>1, <1>2, <1>3, <1>4 DEF IInv, AnswerOK

\* A step that changes the time at most, and answers a request or not.
LEMMA TimeStep ==
    ASSUME IInv, now' \in Time, now <= now', (answered \in Time \cup {NULL})', AnswerOK',
           UNCHANGED <<bundle, configs, written, writes, cache, fetched_at, load>>
    PROVE  IInv'
<1>1. TypeOK'
  BY DEF IInv, TypeOK
<1>2. CacheOK'
  <2>1. fetched_at <= now'
    BY DEF IInv, CacheOK, TypeOK, Time
  <2>. QED
    BY <2>1 DEF IInv, CacheOK, ReadSince, UpToDate, NameOK, HostOK, Legacy, Published
<1>3. LoadOK'
  <2>1. load # NULL => load.start <= now'
    BY DEF IInv, LoadOK, TypeOK, Time, Load
  <2>2. Left' = Left
    BY DEF Left
  <2>3. UpToDate(load.table, load.start, Left)' <=> UpToDate(load.table, load.start, Left)
    BY <2>2 DEF UpToDate, NameOK, HostOK, Legacy, Published
  <2>4. ReadSince(load.table, load.start)' <=> ReadSince(load.table, load.start)
    BY DEF ReadSince
  <2>. QED  BY <2>1, <2>3, <2>4, Zenon DEF IInv, LoadOK
<1>. QED  BY <1>1, <1>2, <1>3 DEF IInv

LEMMA InitInv == Init => IInv
<1>. SUFFICES ASSUME Init PROVE IInv
  OBVIOUS
<1>1. 0 \in Time /\ 0 \in 0..MaxWrites
  BY NumbersAssumption DEF Time
<1>2. TypeOK
  BY <1>1, NoTableIs DEF Init, TypeOK, Map
<1>3. CacheOK
  BY <1>2, NoTableIs, NothingSince0 DEF Init, CacheOK
<1>4. LoadOK /\ AnswerOK
  BY DEF Init, LoadOK, AnswerOK
<1>. QED  BY <1>2, <1>3, <1>4 DEF IInv

LEMMA NextInv == IInv /\ [Next]_vars => IInv'
<1>. SUFFICES ASSUME IInv, [Next]_vars PROVE IInv'
  OBVIOUS
<1>1. CASE Lookup \/ UNCHANGED vars
  <2>1. UNCHANGED <<now, bundle, configs, written, writes, cache, fetched_at, load>>
    BY <1>1 DEF Lookup, vars, files
  <2>2. now' \in Time /\ now <= now'
    BY <2>1 DEF IInv, TypeOK, Time
  <2>3. (answered \in Time \cup {NULL})' /\ AnswerOK'
    BY <1>1, <2>1 DEF Lookup, Fresh, vars, IInv, TypeOK, AnswerOK
  <2>. QED  BY <2>1, <2>2, <2>3, TimeStep
<1>2. CASE StartLoad \/ ReadBundle \/ ListConfigs \/ ReadConfig \/ Install \/ Restart
  BY <1>2, StartLoadStep, ReadBundleStep, ListConfigsStep, ReadConfigStep, InstallStep,
     RestartStep
<1>3. ASSUME NEW value \in Map \cup {Torn}, WriteBundle(value) PROVE IInv'
  BY <1>3, WriteStep DEF WriteBundle, IInv, TypeOK
<1>4. ASSUME NEW t \in Tenants, NEW value \in Hostnames \cup {NULL, Torn},
             WriteConfig(t, value)
      PROVE  IInv'
  <2>1. /\ Write(t) /\ bundle' = bundle
        /\ configs' \in [Tenants -> Hostnames \cup {NULL, Torn}]
        /\ \A u \in Tenants \ {t} : configs'[u] = configs[u]
    BY <1>4 DEF WriteConfig, IInv, TypeOK
  <2>. QED  BY <2>1, WriteStep DEF IInv, TypeOK
<1>5. CASE Tick
  <2>1. now' \in Time /\ now <= now'
    BY <1>5, NumbersAssumption DEF Tick, IInv, TypeOK, Time
  <2>. QED  BY <1>5, <2>1, TimeStep DEF Tick, files, AnswerOK
<1>. QED  BY <1>1, <1>2, <1>3, <1>4, <1>5 DEF Next

\* The tables and the load in progress agree with the files in every reachable state, as
\* far as IInv says.
LEMMA Invariant == Spec => []IInv
BY InitInv, NextInv, PTL DEF Spec

-----------------------------------------------------------------------------
\* The files, the tables and the load in progress have their types at every time.
THEOREM TypeCorrect == Spec => []TypeOK
<1>1. IInv => TypeOK
  BY DEF IInv
<1>. QED  BY <1>1, Invariant, PTL

\* For every TTL, an answer was read from its file less than a TTL ago or after the request
\* came, however long the loads took: because new tables are dated before anything is
\* read, and the request that loaded them is the only one they answer when they are due.
THEOREM AnswersAreRecent == Spec => []AnswersRecentlyRead
<1>1. IInv => AnswersRecentlyRead
  <2>. SUFFICES ASSUME IInv, answered # NULL,
                       NEW host \in Hostnames \cup {NULL}, NEW name \in Tenants \cup {NULL},
                       GetTenantConfig(host, name) # NULL
       PROVE  \/ GetTenantConfig(host, name).read >= answered
              \/ now < GetTenantConfig(host, name).read + TTL
    BY DEF AnswersRecentlyRead
  <2>1. PICK config : config = GetTenantConfig(host, name)
    OBVIOUS
  <2>2. config \in Config /\ config.read >= fetched_at
    BY <2>1, NullAssumption
       DEF GetTenantConfig, IInv, CacheOK, ReadSince, TypeOK, Table
  <2>3. answered = fetched_at \/ now < fetched_at + TTL
    BY DEF IInv, AnswerOK
  <2>4. /\ now \in Nat /\ fetched_at \in Nat /\ TTL \in Nat /\ config.read \in Nat
    BY <2>2, NumbersAssumption DEF IInv, TypeOK, Time, Config
  <2>. QED  BY <2>1, <2>2, <2>3, <2>4
<1>. QED  BY <1>1, Invariant, PTL

-----------------------------------------------------------------------------
(* The tables catch up with the files.                                     *)

\* The tables a request is answered from were begun after the last write of what had not
\* been written for a TTL when the request came.
LEMMA AnswerIsLater ==
    ASSUME IInv, answered # NULL, NEW f \in Tenants \cup {Bundle}, Settled(f)
    PROVE  written[f] < fetched_at
<1>1. /\ answered >= written[f] + TTL
      /\ answered = fetched_at \/ (answered = now /\ now < fetched_at + TTL)
  BY DEF Settled, IInv, AnswerOK
<1>2. /\ now \in Nat /\ fetched_at \in Nat /\ written[f] \in Nat
      /\ TTL \in Nat \ {0}
  BY NumbersAssumption DEF IInv, TypeOK, Time
<1>. QED  BY <1>1, <1>2

\* A request that comes a TTL after the last write of the bundle, whatever loads found
\* half-written before, and whether it loads the tables itself or not, has a tenant taken
\* for what its own config and the bundle say, if that config is as old; and a host for
\* what all the files say, if they all are: of two tenants with one hostname it is the
\* last one, for every set of tenants and hostnames.
THEOREM TablesCatchUp == Spec => []TableCatchesUp
<1> DEFINE Prefer(config, legacy, published) ==
               IF legacy # {}
               THEN \E c \in legacy : AsConfig(config, c[1], c[2], "legacy_config")
               ELSE IF published # {}
               THEN \E c \in published : AsConfig(config, c[1], c[2], "published_bundle")
               ELSE config = NULL
           InConfigs == {c \in Tenants \X Hostnames : configs[c[1]] = c[2]}
           InBundle  == {c \in Tenants \X Hostnames : bundle # Torn /\ bundle[c[1]] = c[2]}
           OfTenant(cs, t) == {c \in cs : c[1] = t}
           LastOfHost(cs, h) ==
               {c \in cs : c[2] = h /\ \A d \in cs : d[2] = h => d[1] <= c[1]}
<1>1. ASSUME NEW t \in Tenants, NEW h \in Hostnames
      PROVE  /\ <<t, h>> \in InConfigs <=> Legacy(t, h)
             /\ <<t, h>> \in InBundle <=> Published(t, h)
  BY DEF Legacy, Published
<1>2. ASSUME NEW c \in InConfigs \cup InBundle
      PROVE  \E t \in Tenants, h \in Hostnames : c = <<t, h>> /\ c[1] = t /\ c[2] = h
  OBVIOUS
<1>3. ASSUME TypeOK, NEW t \in Tenants, NameOK(cache, t, TRUE)
      PROVE  Prefer(GetTenantConfig(NULL, t),
                    OfTenant(InConfigs, t), OfTenant(InBundle, t))
  <2>1. PICK config : config = cache.name[t] /\ config = GetTenantConfig(NULL, t)
    BY NullAssumption DEF GetTenantConfig
  <2>2. CASE configs[t] \in Hostnames
    <3>1. AsConfig(config, t, configs[t], "legacy_config")
      BY <1>3, <2>1, <2>2 DEF NameOK
    <3>2. <<t, configs[t]>> \in OfTenant(InConfigs, t)
      BY <2>2
    <3>. QED  BY <2>1, <3>1, <3>2
  <2>3. CASE configs[t] \notin Hostnames
    <3>1. OfTenant(InConfigs, t) = {}
      BY <2>3
    <3>2. CASE bundle # Torn /\ bundle[t] # NULL
      <4>1. bundle[t] \in Hostnames
        BY <1>3, <3>2 DEF TypeOK, Map
      <4>2. AsConfig(config, t, bundle[t], "published_bundle")
        BY <1>3, <2>1, <2>3, <3>2 DEF NameOK
      <4>3. <<t, bundle[t]>> \in OfTenant(InBundle, t)
        BY <3>2, <4>1
      <4>. QED  BY <2>1, <3>1, <4>2, <4>3
    <3>3. CASE ~(bundle # Torn /\ bundle[t] # NULL)
      <4>1. OfTenant(InBundle, t) = {}
        BY <3>3, NullAssumption
      <4>2. config = NULL
        BY <1>3, <2>1, <2>3, <3>3 DEF NameOK
      <4>. QED  BY <2>1, <3>1, <4>1, <4>2
    <3>. QED  BY <3>2, <3>3
  <2>. QED  BY <2>2, <2>3
<1>4. ASSUME NEW h \in Hostnames, NEW cs \in SUBSET (Tenants \X Hostnames),
             NEW t \in Tenants, <<t, h>> \in cs,
             \A u \in Tenants : <<u, h>> \in cs => u <= t
      PROVE  <<t, h>> \in LastOfHost(cs, h)
  <2>1. ASSUME NEW d \in cs, d[2] = h PROVE d[1] <= t
    <3>1. PICK u \in Tenants : d = <<u, h>> /\ d[1] = u
      BY <2>1
    <3>. QED  BY <1>4, <3>1
  <2>. QED  BY <1>4, <2>1
<1>5. ASSUME NEW h \in Hostnames, HostOK(cache, h, {})
      PROVE  Prefer(GetTenantConfig(h, NULL),
                    LastOfHost(InConfigs, h), LastOfHost(InBundle, h))
  <2>1. PICK config : config = cache.host[h] /\ config = GetTenantConfig(h, NULL)
    BY NullAssumption DEF GetTenantConfig
  <2>2. CASE \E t \in Tenants : Legacy(t, h)
    <3>1. PICK t \in Tenants : /\ Legacy(t, h) /\ AsConfig(config, t, h, "legacy_config")
                               /\ \A u \in Tenants : Legacy(u, h) => u <= t
      BY <1>5, <2>1, <2>2 DEF HostOK
    <3>2. <<t, h>> \in LastOfHost(InConfigs, h)
      <4>. HIDE DEF LastOfHost
      <4>. QED  BY <1>1, <1>4, <3>1
    <3>. QED  BY <2>1, <3>1, <3>2
  <2>3. CASE ~ \E t \in Tenants : Legacy(t, h)
    <3>1. LastOfHost(InConfigs, h) = {}
      BY <2>3 DEF Legacy
    <3>2. CASE \E t \in Tenants : Published(t, h)
      <4>1. PICK t \in Tenants :
                /\ Published(t, h) /\ AsConfig(config, t, h, "published_bundle")
                /\ \A u \in Tenants : Published(u, h) => u <= t
        BY <1>5, <2>1, <2>3, <3>2 DEF HostOK
      <4>2. <<t, h>> \in LastOfHost(InBundle, h)
        <5>. HIDE DEF LastOfHost
        <5>. QED  BY <1>1, <1>4, <4>1
      <4>. QED  BY <2>1, <3>1, <4>1, <4>2
    <3>3. CASE ~ \E t \in Tenants : Published(t, h)
      <4>1. LastOfHost(InBundle, h) = {}
        BY <3>3 DEF Published
      <4>2. config = NULL
        BY <1>5, <2>1, <2>3, <3>3 DEF HostOK
      <4>. QED  BY <2>1, <3>1, <4>1, <4>2
    <3>. QED  BY <3>2, <3>3
  <2>. QED  BY <2>2, <2>3
<1>6. ASSUME IInv, answered # NULL, Settled(Bundle)
      PROVE  /\ \A t \in Tenants : Settled(t) => NameOK(cache, t, TRUE)
             /\ (\A t \in Tenants : Settled(t)) => \A h \in Hostnames : HostOK(cache, h, {})
  <2>1. TypeOK /\ UpToDate(cache, fetched_at, {})
    BY <1>6 DEF IInv, CacheOK
  <2>2. written[Bundle] < fetched_at
    BY <1>6, AnswerIsLater
  <2>3. ASSUME NEW t \in Tenants, Settled(t) PROVE written[t] < fetched_at
    BY <1>6, <2>3, AnswerIsLater
  <2>4. \A t \in Tenants : NameOK(cache, t, t \notin {}) <=> NameOK(cache, t, TRUE)
    BY DEF NameOK
  <2>. QED  BY <2>1, <2>2, <2>3, <2>4 DEF UpToDate
<1>7. IInv => TableCatchesUp
  <2>1. IInv => TypeOK
    BY DEF IInv
  <2>. QED  BY <1>3, <1>5, <1>6, <2>1 DEF TableCatchesUp
<1>. QED  BY <1>7, Invariant, PTL
=============================================================================
