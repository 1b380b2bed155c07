---------------------------- MODULE FixtureProofs ----------------------------
(***************************************************************************)
(* Theorems about the stateful fixtures and the serializer, for every set  *)
(* of handles, keys, documents, requests, workers, types and values, and   *)
(* without their bounds: what a get of the leveldb fixture finds, what a   *)
(* handle of the simdjson fixture reads, what run of the taskflow fixture  *)
(* leaves, what a request to the httplib fixture is answered, which node a *)
(* dotted path of the tomlplusplus fixture leads to, and what the texts    *)
(* and bytes of serialize_poc.cpp hold.                                    *)
(***************************************************************************)
EXTENDS KVStore, SimdDoc, Diamond, EchoServer, TomlFix, Serde, Induction, SequenceTheorems

-----------------------------------------------------------------------------
(* leveldbtest.h: Replay is a recursive definition; there is a function    *)
(* that satisfies its equation, so that Replay does.                       *)
ReplayFrom(map, ops, n, f) == IF n = 0 THEN map ELSE Applied(f[n - 1], ops[n])

IsReplay(map, ops, f) == f = [n \in 0 .. Len(ops) |-> ReplayFrom(map, ops, n, f)]

LEMMA ReplayExists ==
  ASSUME NEW map, NEW ops, Len(ops) \in Nat
  PROVE  \E f : IsReplay(map, ops, f)
<1> DEFINE Partial(k, f) == f = [n \in 0 .. k |-> ReplayFrom(map, ops, n, f)]
           S == {k \in Nat : \E f : Partial(k, f)}
<1>1. 0 \in S
  <2> DEFINE f == [n \in 0 .. 0 |-> map]
  <2>1. Partial(0, f)
    BY DEF ReplayFrom
  <2> QED
    BY <2>1
<1>2. ASSUME NEW k \in Nat, k \in S PROVE k + 1 \in S
  <2>1. PICK f : Partial(k, f)
    BY <1>2
  <2> DEFINE g == [n \in 0 .. k + 1 |-> IF n = k + 1 THEN Applied(f[k], ops[k + 1]) ELSE f[n]]
  <2>2. ASSUME NEW n \in 0 .. k + 1 PROVE g[n] = ReplayFrom(map, ops, n, g)
    <3>1. CASE n = k + 1
      <4>1. n # 0 /\ n - 1 = k /\ k \in 0 .. k + 1 /\ k # k + 1
        BY <3>1
      <4>2. g[n] = Applied(f[k], ops[n]) /\ g[n - 1] = f[k]
        BY <3>1, <4>1
      <4> QED
        BY <4>1, <4>2 DEF ReplayFrom
    <3>2. CASE n # k + 1
      <4>1. n \in 0 .. k /\ g[n] = f[n]
        BY <3>2
      <4>2. f[n] = ReplayFrom(map, ops, n, f)
        BY <2>1, <4>1
      <4>3. n # 0 => n - 1 \in 0 .. k + 1 /\ n - 1 # k + 1
        BY <4>1
      <4>4. n # 0 => g[n - 1] = f[n - 1]
        BY <4>3
      <4> QED
        BY <4>1, <4>2, <4>4 DEF ReplayFrom
    <3> QED
      BY <3>1, <3>2
  <2>3. Partial(k + 1, g)
    BY <2>2
  <2> HIDE DEF g, Partial
  <2> QED
    BY <2>3
<1> HIDE DEF S
<1>3. Len(ops) \in S
  BY <1>1, <1>2, SetInduction
<1> QED
  BY <1>3 DEF S, IsReplay

LEMMA ReplayEquation ==
  ASSUME NEW map, NEW ops, Len(ops) \in Nat
  PROVE  /\ Replay(map, ops)[0] = map
         /\ \A n \in 1 .. Len(ops) : Replay(map, ops)[n] = Applied(Replay(map, ops)[n - 1], ops[n])
<1>1. \E f : IsReplay(map, ops, f)
  BY ReplayExists
<1>2. IsReplay(map, ops, Replay(map, ops))
  BY <1>1, Zenon DEF Replay, ReplayFrom, IsReplay
<1>3. \A n \in 0 .. Len(ops) : Replay(map, ops)[n] = ReplayFrom(map, ops, n, Replay(map, ops))
  BY <1>2, Zenon DEF IsReplay
<1> QED
  BY <1>3 DEF ReplayFrom

(* Replaying operations leaves under each key what the last of them wrote  *)
(* there, and what was there before if none did.                           *)
Rewritten(map, ops, n, key, value) ==
  \/ value = map[key] /\ \A i \in 1 .. n : ops[i].key # key
  \/ \E i \in 1 .. n : /\ ops[i] = Op(key, value)
                       /\ \A j \in 1 .. n : i < j => ops[j].key # key

Held == Values \cup {None}
Maps == [Keys -> Held]
Operations == [key : Keys, value : Held]

LEMMA ReplayKeepsLast ==
  ASSUME NEW map \in Maps, NEW ops \in Seq(Operations)
  PROVE  /\ Replay(map, ops)[Len(ops)] \in Maps
         /\ \A key \in Keys : Rewritten(map, ops, Len(ops), key, Replay(map, ops)[Len(ops)][key])
<1> DEFINE f == Replay(map, ops)
           Good(n) == f[n] \in Maps /\ \A key \in Keys : Rewritten(map, ops, n, key, f[n][key])
           S == {n \in Nat : n <= Len(ops) => Good(n)}
<1>0. Len(ops) \in Nat /\ \A n \in 1 .. Len(ops) : ops[n] \in Operations
  OBVIOUS
<1>1. f[0] = map /\ \A n \in 1 .. Len(ops) : f[n] = Applied(f[n - 1], ops[n])
  BY <1>0, ReplayEquation
<1> HIDE DEF f
<1>2. 0 \in S
  BY <1>1 DEF Rewritten
<1>3. ASSUME NEW n \in Nat, n \in S PROVE n + 1 \in S
  <2>1. SUFFICES ASSUME n + 1 <= Len(ops) PROVE Good(n + 1)
    OBVIOUS
  <2>2. /\ f[n] \in Maps /\ \A key \in Keys : Rewritten(map, ops, n, key, f[n][key])
        /\ ops[n + 1] \in Operations /\ f[n + 1] = Applied(f[n], ops[n + 1])
    <3>1. n + 1 \in 1 .. Len(ops) /\ (n + 1) - 1 = n /\ n <= Len(ops)
      BY <1>0, <2>1
    <3> QED
      BY <1>0, <1>1, <1>3, <3>1
  <2>3. /\ f[n + 1] \in Maps
        /\ \A key \in Keys : f[n + 1][key] = IF key = ops[n + 1].key THEN ops[n + 1].value ELSE f[n][key]
    BY <2>2 DEF Applied, Maps, Operations
  <2>4. ASSUME NEW key \in Keys PROVE Rewritten(map, ops, n + 1, key, f[n + 1][key])
    <3>1. CASE key = ops[n + 1].key
      <4>1. ops[n + 1] = Op(key, f[n + 1][key])
        BY <2>2, <2>3, <3>1 DEF Op, Operations
      <4> QED
        BY <4>1 DEF Rewritten
    <3>2. CASE key # ops[n + 1].key
      <4>1. f[n + 1][key] = f[n][key] /\ Rewritten(map, ops, n, key, f[n][key])
        BY <2>2, <2>3, <3>2
      <4>2. \A i \in 1 .. n + 1 : i \in 1 .. n \/ i = n + 1
        OBVIOUS
      <4> QED
        BY <3>2, <4>1, <4>2 DEF Rewritten
    <3> QED
      BY <3>1, <3>2
  <2> QED
    BY <2>3, <2>4
<1> HIDE DEF S
<1>4. \A n \in Nat : n \in S
  BY <1>2, <1>3, SetInduction
<1> QED
  BY <1>0, <1>4 DEF S, f

-----------------------------------------------------------------------------
(* The invariant of the handles. *)
KVTyped ==
  /\ db \in SUBSET Stores /\ locked = db
  /\ disk \in Maps /\ batch \in Seq(Operations) /\ acked \in Seq(Operations)

DiskIsLast == \A key \in Keys : LastWritten(acked, key, disk[key])

GetAnswered ==
  last.call = "get" => /\ last.why \in Keys /\ last.value = disk[last.why]
                       /\ last.ok <=> last.value # None

LockIsAnothers == last.call = "open" /\ last.why = "locked" => db \ {last.store} # {}

KVInv == KVTyped /\ DiskIsLast /\ GetAnswered /\ LockIsAnothers

(* Each acknowledged write leaves on disk what the last write of a key is. *)
LEMMA CommitKeepsLast ==
  ASSUME KVTyped, DiskIsLast, NEW ops \in Seq(Operations), Commit(ops)
  PROVE  disk' \in Maps /\ acked' \in Seq(Operations) /\ DiskIsLast'
<1>1. disk' = Replay(disk, ops)[Len(ops)] /\ acked' = acked \o ops
  BY DEF Commit
<1>2. disk \in Maps /\ acked \in Seq(Operations)
  BY DEF KVTyped
<1>3. disk' \in Maps /\ \A key \in Keys : Rewritten(disk, ops, Len(ops), key, disk'[key])
  BY <1>1, <1>2, ReplayKeepsLast
<1> DEFINE a == Len(acked)
           n == Len(ops)
<1>4. /\ a \in Nat /\ n \in Nat /\ DOMAIN acked = 1 .. a /\ DOMAIN ops = 1 .. n
      /\ acked' \in Seq(Operations) /\ DOMAIN acked' = 1 .. a + n
      /\ \A i \in 1 .. a : acked'[i] = acked[i]
      /\ \A i \in 1 .. n : acked'[a + i] = ops[i]
  BY <1>1, <1>2
<1> HIDE DEF a, n
<1>5. \A i \in 1 .. a + n : i \in 1 .. a \/ (i - a \in 1 .. n /\ i = a + (i - a))
  BY <1>4
<1>6. ASSUME NEW key \in Keys PROVE LastWritten(acked', key, disk'[key])
  <2>1. CASE \E i \in 1 .. n : /\ ops[i] = Op(key, disk'[key])
                              /\ \A j \in 1 .. n : i < j => ops[j].key # key
    <3>1. PICK i \in 1 .. n : /\ ops[i] = Op(key, disk'[key])
                             /\ \A j \in 1 .. n : i < j => ops[j].key # key
      BY <2>1
    <3>2. a + i \in 1 .. a + n /\ acked'[a + i] = Op(key, disk'[key])
      BY <1>4, <3>1
    <3>3. ASSUME NEW j \in 1 .. a + n, a + i < j PROVE acked'[j].key # key
      <4>1. j - a \in 1 .. n /\ i < j - a /\ j = a + (j - a)
        BY <1>4, <3>3
      <4> QED
        BY <1>4, <3>1, <4>1
    <3> QED
      BY <1>4, <3>2, <3>3 DEF LastWritten
  <2>2. CASE disk'[key] = disk[key] /\ \A i \in 1 .. n : ops[i].key # key
    <3>1. \A j \in 1 .. a + n : j \in 1 .. a \/ acked'[j].key # key
      <4>1. ASSUME NEW j \in 1 .. a + n, j \notin 1 .. a PROVE acked'[j].key # key
        <5>1. j - a \in 1 .. n /\ j = a + (j - a)
          BY <1>5, <4>1
        <5>2. acked'[a + (j - a)] = ops[j - a]
          BY <1>4, <5>1
        <5> QED
          BY <2>2, <5>1, <5>2
      <4> QED
        BY <4>1
    <3>2. LastWritten(acked, key, disk[key])
      BY DEF DiskIsLast
    <3>3. CASE disk[key] = None /\ \A i \in 1 .. a : acked[i].key # key
      BY <1>4, <2>2, <3>1, <3>3 DEF LastWritten
    <3>4. CASE \E i \in 1 .. a : /\ acked[i] = Op(key, disk[key])
                                /\ \A j \in 1 .. a : i < j => acked[j].key # key
      <4>1. PICK i \in 1 .. a : /\ acked[i] = Op(key, disk[key])
                               /\ \A j \in 1 .. a : i < j => acked[j].key # key
        BY <3>4
      <4>2. i \in 1 .. a + n /\ acked'[i] = Op(key, disk'[key])
        BY <1>4, <2>2, <4>1
      <4>3. \A j \in 1 .. a + n : i < j => acked'[j].key # key
        BY <1>4, <3>1, <4>1
      <4> QED
        BY <1>4, <4>2, <4>3 DEF LastWritten
    <3> QED
      BY <1>4, <3>2, <3>3, <3>4 DEF LastWritten
  <2> QED
    BY <1>3, <2>1, <2>2 DEF Rewritten, n
<1> QED
  BY <1>3, <1>4, <1>6 DEF DiskIsLast

LEMMA KVInitInv == ASSUME KVInit PROVE KVInv
<1>1. Empty \in Maps /\ \A key \in Keys : Empty[key] = None
  BY DEF Empty, Maps, Held
<1> QED
  BY <1>1 DEF KVInit, KVInv, KVTyped, DiskIsLast, GetAnswered, LockIsAnothers, LastWritten, None

LEMMA KVNextInv == ASSUME KVInv, [KVNext]_kvVars PROVE KVInv'
<1>1. KVTyped /\ DiskIsLast
  BY DEF KVInv
<1>2. CASE UNCHANGED kvVars
  BY <1>2 DEF kvVars, KVInv, KVTyped, DiskIsLast, GetAnswered, LockIsAnothers
<1>3. ASSUME NEW store \in Stores, NEW create \in BOOLEAN, NEW error \in BOOLEAN,
             Open(store, create, error)
      PROVE  KVInv'
  <2>1. /\ locked' = db' /\ db' \in SUBSET Stores /\ UNCHANGED <<disk, batch, acked>>
        /\ last'.call = "open"
    BY <1>1, <1>3 DEF Open, Release, KVTyped, Said
  <2>2. LockIsAnothers'
    <3>1. SUFFICES ASSUME last'.why = "locked" PROVE db' \ {last'.store} # {}
      BY DEF LockIsAnothers
    <3>2. last'.store = store /\ WhyNot(Release(store), create, error) = "locked"
      BY <1>3, <3>1 DEF Open, Said
    <3>3. Release(store) # {} /\ "locked" # None
      BY <3>2 DEF WhyNot, None
    <3>4. db' = db \ {store} /\ Release(store) = db \ {store}
      BY <1>1, <1>3, <3>2, <3>3 DEF Open, Release, KVTyped
    <3> QED
      BY <3>2, <3>3, <3>4
  <2> QED
    BY <1>1, <2>1, <2>2 DEF KVInv, KVTyped, DiskIsLast, GetAnswered
<1>4. ASSUME NEW store \in Stores, Close(store) PROVE KVInv'
  BY <1>1, <1>4 DEF Close, Said, KVInv, KVTyped, DiskIsLast, GetAnswered, LockIsAnothers
<1>5. ASSUME NEW ops \in Seq(Operations), Commit(ops), UNCHANGED <<db, locked, batch>>,
             last'.call \notin {"get", "open"}
      PROVE  KVInv'
  <2>1. disk' \in Maps /\ acked' \in Seq(Operations) /\ DiskIsLast'
    BY <1>1, <1>5, CommitKeepsLast
  <2> QED
    BY <1>1, <1>5, <2>1 DEF KVInv, KVTyped, GetAnswered, LockIsAnothers
<1>6. ASSUME NEW store \in Stores, Write(store) PROVE KVInv'
  BY <1>1, <1>5, <1>6 DEF Write, Said, KVTyped
<1>7. ASSUME NEW store \in Stores, NEW key \in Keys, NEW value \in Held,
             \/ Put(store, key, value)
             \/ DeleteKey(store, key) /\ value = None
      PROVE  KVInv'
  <2>1. <<Op(key, value)>> \in Seq(Operations)
    BY DEF Op, Operations
  <2>2. Commit(<<Op(key, value)>>) /\ UNCHANGED <<db, locked, batch>>
    BY <1>7 DEF Put, DeleteKey
  <2>3. last'.call \in {"put", "delete"}
    BY <1>7 DEF Put, DeleteKey, Said
  <2> QED
    BY <1>5, <2>1, <2>2, <2>3
<1>8. ASSUME NEW store \in Stores, NEW key \in Keys, Get(store, key) PROVE KVInv'
  BY <1>1, <1>8 DEF Get, Said, KVInv, KVTyped, DiskIsLast, GetAnswered, LockIsAnothers
<1>9. ASSUME NEW key \in Keys, NEW value \in Held,
             BatchPut(key, value) \/ (BatchDelete(key) /\ value = None)
      PROVE  KVInv'
  <2>1. batch' = Append(batch, Op(key, value)) /\ Op(key, value) \in Operations
    BY <1>9 DEF BatchPut, BatchDelete, Op, Operations
  <2>2. batch' \in Seq(Operations)
    BY <1>1, <2>1 DEF KVTyped
  <2> QED
    BY <1>1, <1>9, <2>2
       DEF BatchPut, BatchDelete, Said, KVInv, KVTyped, DiskIsLast, GetAnswered, LockIsAnothers
<1>10. CASE ClearBatch
  BY <1>1, <1>10 DEF ClearBatch, Said, KVInv, KVTyped, DiskIsLast, GetAnswered, LockIsAnothers
<1>11. CASE Destroy
  <2>1. Empty \in Maps /\ \A key \in Keys : LastWritten(<<>>, key, Empty[key])
    BY DEF Empty, Maps, Held, LastWritten
  <2>2. last'.call = "destroy" /\ UNCHANGED <<db, locked, batch>>
    BY <1>11 DEF Destroy, Said
  <2>3. \/ disk' = Empty /\ acked' = <<>>
        \/ UNCHANGED <<disk, acked>>
    BY <1>11 DEF Destroy
  <2>4. KVTyped'
    <3>1. locked' = db' /\ db' \in SUBSET Stores /\ batch' \in Seq(Operations)
      BY <1>1, <2>2 DEF KVTyped
    <3>2. <<>> \in Seq(Operations)
      OBVIOUS
    <3>3. disk' \in Maps /\ acked' \in Seq(Operations)
      BY <1>1, <2>1, <2>3, <3>2 DEF KVTyped
    <3> QED
      BY <3>1, <3>3 DEF KVTyped
  <2>5. DiskIsLast'
    <3>1. CASE disk' = Empty /\ acked' = <<>>
      BY <2>1, <3>1 DEF DiskIsLast
    <3>2. CASE UNCHANGED <<disk, acked>>
      BY <1>1, <3>2 DEF DiskIsLast
    <3> QED
      BY <2>3, <3>1, <3>2
  <2> QED
    BY <2>2, <2>4, <2>5 DEF KVInv, GetAnswered, LockIsAnothers
<1> QED
  BY <1>2, <1>3, <1>4, <1>6, <1>7, <1>8, <1>9, <1>10, <1>11 DEF KVNext, Held

(* A get of the leveldb fixture finds the last acknowledged write of its   *)
(* key, through whichever handle and batch, and a handle is told of a lock *)
(* only while another handle has the database: for any number of handles   *)
(* and writes.                                                             *)
THEOREM StoreIsFaithfulHolds == KVSpec => []StoreIsFaithful
<1>1. KVInit => KVInv
  BY KVInitInv
<1>2. KVInv /\ [KVNext]_kvVars => KVInv'
  BY KVNextInv
<1>3. KVInv => StoreIsFaithful
  BY DEF KVInv, KVTyped, DiskIsLast, GetAnswered, LockIsAnothers, StoreIsFaithful
<1> QED
  BY <1>1, <1>2, <1>3, PTL DEF KVSpec

-----------------------------------------------------------------------------
(* simdjsontest.h: Way is recursive too.                                   *)
WayFrom(root, place, n, f) == IF n = 0 THEN root ELSE f[n - 1].fields[place[n]].node

IsWay(root, place, f) == f = [n \in 0 .. Len(place) |-> WayFrom(root, place, n, f)]

LEMMA WayExists ==
  ASSUME NEW root, NEW place, Len(place) \in Nat
  PROVE  \E f : IsWay(root, place, f)
<1> DEFINE Partial(k, f) == f = [n \in 0 .. k |-> WayFrom(root, place, n, f)]
           S == {k \in Nat : \E f : Partial(k, f)}
<1>1. 0 \in S
  <2> DEFINE f == [n \in 0 .. 0 |-> root]
  <2>1. Partial(0, f)
    BY DEF WayFrom
  <2> QED
    BY <2>1
<1>2. ASSUME NEW k \in Nat, k \in S PROVE k + 1 \in S
  <2>1. PICK f : Partial(k, f)
    BY <1>2
  <2> DEFINE g == [n \in 0 .. k + 1 |-> IF n = k + 1 THEN f[k].fields[place[k + 1]].node ELSE f[n]]
  <2>2. ASSUME NEW n \in 0 .. k + 1 PROVE g[n] = WayFrom(root, place, n, g)
    <3>1. CASE n = k + 1
      <4>1. n # 0 /\ n - 1 = k /\ k \in 0 .. k + 1 /\ k # k + 1
        BY <3>1
      <4>2. g[n] = f[k].fields[place[n]].node /\ g[n - 1] = f[k]
        BY <3>1, <4>1
      <4> QED
        BY <4>1, <4>2 DEF WayFrom
    <3>2. CASE n # k + 1
      <4>1. n \in 0 .. k /\ g[n] = f[n]
        BY <3>2
      <4>2. f[n] = WayFrom(root, place, n, f)
        BY <2>1, <4>1
      <4>3. n # 0 => n - 1 \in 0 .. k + 1 /\ n - 1 # k + 1
        BY <4>1
      <4>4. n # 0 => g[n - 1] = f[n - 1]
        BY <4>3
      <4> QED
        BY <4>1, <4>2, <4>4 DEF WayFrom
    <3> QED
      BY <3>1, <3>2
  <2>3. Partial(k + 1, g)
    BY <2>2
  <2> HIDE DEF g, Partial
  <2> QED
    BY <2>3
<1> HIDE DEF S
<1>3. Len(place) \in S
  BY <1>1, <1>2, SetInduction
<1> QED
  BY <1>3 DEF S, IsWay

LEMMA WayEquation ==
  ASSUME NEW root, NEW place, Len(place) \in Nat
  PROVE  /\ Way(root, place)[0] = root
         /\ \A n \in 1 .. Len(place) : Way(root, place)[n] = Way(root, place)[n - 1].fields[place[n]].node
<1>1. \E f : IsWay(root, place, f)
  BY WayExists
<1>2. IsWay(root, place, Way(root, place))
  BY <1>1, Zenon DEF Way, WayFrom, IsWay
<1>3. \A n \in 0 .. Len(place) : Way(root, place)[n] = WayFrom(root, place, n, Way(root, place))
  BY <1>2, Zenon DEF IsWay
<1> QED
  BY <1>3 DEF WayFrom

(* The place of a child is its parent's with one more step.                *)
LEMMA NodeOfChild ==
  ASSUME NEW root, NEW T, NEW place \in Seq(T), NEW i
  PROVE  NodeAt(root, Append(place, i)) = NodeAt(root, place).fields[i].node
<1> DEFINE n == Len(place)
           to == Append(place, i)
<1>1. /\ n \in Nat /\ Len(to) = n + 1 /\ to[n + 1] = i
      /\ \A k \in 1 .. n : to[k] = place[k]
  OBVIOUS
<1> HIDE DEF n, to
<1>2. /\ Way(root, to)[0] = root
      /\ \A k \in 1 .. n + 1 : Way(root, to)[k] = Way(root, to)[k - 1].fields[to[k]].node
      /\ Way(root, place)[0] = root
      /\ \A k \in 1 .. n : Way(root, place)[k] = Way(root, place)[k - 1].fields[place[k]].node
  <2>1. /\ Way(root, to)[0] = root
        /\ \A k \in 1 .. Len(to) : Way(root, to)[k] = Way(root, to)[k - 1].fields[to[k]].node
    <3>1. Len(to) \in Nat
      BY <1>1
    <3> QED
      BY <3>1, WayEquation
  <2>2. /\ Way(root, place)[0] = root
        /\ \A k \in 1 .. Len(place) : Way(root, place)[k] = Way(root, place)[k - 1].fields[place[k]].node
    <3>1. Len(place) \in Nat
      BY <1>1 DEF n
    <3> QED
      BY <3>1, WayEquation
  <2> QED
    BY <1>1, <2>1, <2>2 DEF n
<1> DEFINE S == {k \in Nat : k <= n => Way(root, to)[k] = Way(root, place)[k]}
<1>3. 0 \in S
  BY <1>2
<1>4. ASSUME NEW k \in Nat, k \in S PROVE k + 1 \in S
  <2>1. SUFFICES ASSUME k + 1 <= n PROVE Way(root, to)[k + 1] = Way(root, place)[k + 1]
    OBVIOUS
  <2>2. k + 1 \in 1 .. n /\ k + 1 \in 1 .. n + 1 /\ (k + 1) - 1 = k /\ k <= n
    BY <1>1, <2>1
  <2>3. Way(root, to)[k] = Way(root, place)[k]
    BY <1>4, <2>2
  <2>4. Way(root, to)[k + 1] = Way(root, to)[k].fields[to[k + 1]].node
    BY <1>2, <2>2
  <2>5. Way(root, place)[k + 1] = Way(root, place)[k].fields[place[k + 1]].node
    BY <1>2, <2>2
  <2> QED
    BY <1>1, <2>2, <2>3, <2>4, <2>5
<1> HIDE DEF S
<1>5. n \in S
  BY <1>1, <1>3, <1>4, SetInduction
<1>6. Way(root, to)[n] = Way(root, place)[n]
  BY <1>1, <1>5 DEF S
<1>7. n + 1 \in 1 .. n + 1 /\ (n + 1) - 1 = n
  BY <1>1
<1> QED
  BY <1>1, <1>2, <1>6, <1>7 DEF NodeAt, to, n

LEMMA NodeOfRoot == ASSUME NEW root PROVE NodeAt(root, <<>>) = root
<1>1. Len(<<>>) \in Nat /\ Len(<<>>) = 0
  OBVIOUS
<1>2. Way(root, <<>>)[0] = root
  BY <1>1, WayEquation
<1> QED
  BY <1>1, <1>2 DEF NodeAt

-----------------------------------------------------------------------------
(* The invariant of the handles: each points at what it was given, on the  *)
(* tape of a document that parsed.                                         *)
Rooted(h) ==
  /\ h.parser \in Docs /\ \E T : h.at \in Seq(T)
  /\ doc[h.parser] \in {"ok", "dropped"}
  /\ doc[h.parser] = "ok" => Read(h) = h.node
  /\ h.kind # "element" => h.node.type = h.kind

SimdInv ==
  /\ doc \in [Docs -> {"unmade", "ok", "error", "dropped"}]
  /\ DOMAIN tape = Docs /\ tape = [d \in Docs |-> tape[d]]
  /\ \A h \in handles : Rooted(h)

(* What a child handle reads is the child of what its parent reads.        *)
LEMMA ChildIsRooted ==
  ASSUME NEW h, Rooted(h), doc[h.parser] = "ok", NEW i
  PROVE  Rooted(Child(h, i))
<1> DEFINE c == Child(h, i)
<1>1. /\ c.kind = "element" /\ c.parser = h.parser /\ c.at = Append(h.at, i)
      /\ c.node = Read(h).fields[i].node
  BY DEF Child, Points
<1> HIDE DEF c
<1>2. PICK T : h.at \in Seq(T)
  BY DEF Rooted
<1>3. Read(c) = Read(h).fields[i].node
  BY <1>1, <1>2, NodeOfChild DEF Read
<1>4. Append(h.at, i) \in Seq(T \cup {i})
  BY <1>2
<1>5. \E U : c.at \in Seq(U)
  BY <1>1, <1>4
<1> QED
  BY <1>1, <1>3, <1>5 DEF Rooted, c

(* A step that leaves the documents alone and gives rooted handles is safe. *)
LEMMA GivesAreRooted ==
  ASSUME SimdInv, NEW gives, Give(gives), \A h \in gives : Rooted(h)
  PROVE  SimdInv'
<1>1. doc' = doc /\ tape' = tape /\ handles' = handles \cup gives
  BY DEF Give
<1>2. \A h : Rooted(h)' <=> Rooted(h)
  BY <1>1 DEF Rooted, Read
<1> QED
  BY <1>1, <1>2 DEF SimdInv

LEMMA ThrowsAreSafe == ASSUME SimdInv, NEW error, Throw(error) PROVE SimdInv'
BY DEF Throw, SimdInv, Rooted, Read

LEMMA QueryIsRooted ==
  ASSUME SimdInv, NEW h \in handles, NEW key, NEW n, NEW kind \in {"array", "object"}, NEW as,
         AtKey(h, key) \/ AtIndex(h, n) \/ As(h, kind) \/ ScalarAs(h, as) \/ ArrayValues(h)
         \/ ObjectKeys(h)
  PROVE  SimdInv'
<1>1. Rooted(h) /\ doc[h.parser] = "ok"
  BY DEF SimdInv, AtKey, AtIndex, As, ScalarAs, ArrayValues, ObjectKeys, Usable
<1>2. \A i : Rooted(Child(h, i))
  BY <1>1, ChildIsRooted
<1>3. CASE AtKey(h, key) \/ AtIndex(h, n)
  <2>1. \/ \E error : Throw(error)
        \/ \E i : Give({Child(h, i)})
    BY <1>3 DEF AtKey, AtIndex, OfType
  <2> QED
    BY <1>2, <2>1, GivesAreRooted, ThrowsAreSafe
<1>4. CASE As(h, kind)
  <2> DEFINE p == Points(kind, h.parser, h.at, Read(h))
  <2>1. \/ Throw("INCORRECT_TYPE")
        \/ Read(h).type = kind /\ Give({p})
    BY <1>4 DEF As, OfType
  <2>2. p.kind = kind /\ p.parser = h.parser /\ p.at = h.at /\ p.node = Read(h)
    BY DEF Points
  <2> HIDE DEF p
  <2>3. Read(h).type = kind => Rooted(p)
    BY <1>1, <2>2 DEF Rooted, Read
  <2> QED
    BY <2>1, <2>3, GivesAreRooted, ThrowsAreSafe
<1>5. CASE ScalarAs(h, as) \/ ObjectKeys(h)
  <2>1. Give({}) \/ \E error : Throw(error)
    BY <1>5 DEF ScalarAs, ObjectKeys
  <2> QED
    BY <2>1, GivesAreRooted, ThrowsAreSafe
<1>6. CASE ArrayValues(h)
  BY <1>2, <1>6, GivesAreRooted DEF ArrayValues
<1> QED
  BY <1>3, <1>4, <1>5, <1>6

LEMMA SimdNextInv == ASSUME SimdInv, [SimdNext]_simdVars PROVE SimdInv'
<1>1. CASE UNCHANGED simdVars
  BY <1>1 DEF simdVars, SimdInv, Rooted, Read
<1>2. ASSUME NEW d \in Docs, Root(d) PROVE SimdInv'
  <2> DEFINE p == Points("element", d, <<>>, tape[d])
  <2>1. \/ \E error : Throw(error)
        \/ doc[d] = "ok" /\ Give({p})
    BY <1>2 DEF Root
  <2>2. p.kind = "element" /\ p.parser = d /\ p.at = <<>> /\ p.node = tape[d]
    BY DEF Points
  <2> HIDE DEF p
  <2>3. <<>> \in Seq({})
    OBVIOUS
  <2>4. doc[d] = "ok" => Rooted(p)
    BY <2>2, <2>3, NodeOfRoot DEF Rooted, Read
  <2> QED
    BY <2>1, <2>4, GivesAreRooted, ThrowsAreSafe
<1>3. ASSUME NEW d \in Docs, DropDoc(d) PROVE SimdInv'
  <2>1. /\ doc' = [doc EXCEPT ![d] = "dropped"] /\ tape' = [tape EXCEPT ![d] = NoTape]
        /\ handles' = handles
    BY <1>3 DEF DropDoc
  <2>2. ASSUME NEW h \in handles PROVE Rooted(h)'
    <3>1. Rooted(h)
      BY DEF SimdInv
    <3>2. CASE h.parser = d
      BY <2>1, <3>1, <3>2 DEF SimdInv, Rooted
    <3>3. CASE h.parser # d
      <4>1. doc'[h.parser] = doc[h.parser] /\ tape'[h.parser] = tape[h.parser]
        BY <2>1, <3>1, <3>3 DEF SimdInv, Rooted
      <4> QED
        BY <3>1, <4>1 DEF Rooted, Read
    <3> QED
      BY <3>2, <3>3
  <2> QED
    BY <2>1, <2>2 DEF SimdInv
<1>4. ASSUME NEW d \in Docs, NEW tree \in Sources, MakeDoc(d, tree) PROVE SimdInv'
  <2>1. /\ doc[d] = "unmade" /\ doc' = [doc EXCEPT ![d] = IF tree = Malformed THEN "error" ELSE "ok"]
        /\ tape' = tape \/ tape' = [tape EXCEPT ![d] = tree]
        /\ handles' = handles
    BY <1>4 DEF MakeDoc, OnItsTape
  <2>2. ASSUME NEW h \in handles PROVE Rooted(h)'
    <3>1. Rooted(h) /\ h.parser # d
      BY <2>1 DEF SimdInv, Rooted
    <3>2. doc'[h.parser] = doc[h.parser] /\ tape'[h.parser] = tape[h.parser]
      BY <2>1, <3>1 DEF SimdInv, Rooted
    <3> QED
      BY <3>1, <3>2 DEF Rooted, Read
  <2> QED
    BY <2>1, <2>2 DEF SimdInv
<1>5. ASSUME NEW h \in handles, DropHandle(h) PROVE SimdInv'
  BY <1>5 DEF DropHandle, SimdInv, Rooted, Read
<1>6. ASSUME NEW h \in handles, NEW key, NEW n, NEW kind \in {"array", "object"}, NEW as,
             AtKey(h, key) \/ AtIndex(h, n) \/ As(h, kind) \/ ScalarAs(h, as) \/ ArrayValues(h)
             \/ ObjectKeys(h)
      PROVE  SimdInv'
  BY <1>6, QueryIsRooted
<1> QED
  BY <1>1, <1>2, <1>3, <1>4, <1>5, <1>6 DEF SimdNext

(* Every handle of the simdjson fixture reads what it was given while its  *)
(* Doc is kept, for any number of Docs, texts and handles.                 *)
THEOREM HandlesReadTheirDocHolds == SimdSpec => []HandlesReadTheirDoc
<1>1. SimdInit => SimdInv
  BY DEF SimdInit, SimdInv
<1>2. SimdInv /\ [SimdNext]_simdVars => SimdInv'
  BY SimdNextInv
<1>3. SimdInv => HandlesReadTheirDoc
  BY DEF SimdInv, Rooted, HandlesReadTheirDoc
<1> QED
  BY <1>1, <1>2, <1>3, PTL DEF SimdSpec

-----------------------------------------------------------------------------
(* tftest.h: while run waits, the workers have distinct tasks whose        *)
(* predecessors have finished, the counter is one for every task that has  *)
(* counted, and the log is one of those of the tasks that have finished.   *)
Steps == {"count", "log"}

Counted(t) == t \in done \/ \E w \in Workers : work[w] = <<t, "log">>

Ones(t) == IF Counted(t) THEN 1 ELSE 0

LogOf ==
  \/ done = {} /\ order = <<>>
  \/ done = {"A"} /\ order = <<"A">>
  \/ done = {"A", "B"} /\ order = <<"A", "B">>
  \/ done = {"A", "C"} /\ order = <<"A", "C">>
  \/ done = {"A", "B", "C"} /\ order \in {<<"A", "B", "C">>, <<"A", "C", "B">>}
  \/ done = Tasks /\ order \in {<<"A", "B", "C", "D">>, <<"A", "C", "B", "D">>}

Running ==
  /\ todo \subseteq Tasks /\ done \subseteq Tasks /\ todo \cap done = {}
  /\ \A w \in Workers : work[w] # Free =>
        /\ work[w][1] \notin todo \cup done
        /\ Predecessors(work[w][1]) \subseteq done
        /\ \A v \in Workers : work[v][1] = work[w][1] => v = w
  /\ counter = Ones("A") + Ones("B") + Ones("C") + Ones("D")
  /\ LogOf

DiamondInv ==
  /\ main \in {Idle, "reset", "submit", "wait"}
  /\ work \in [Workers -> {Free} \cup (Tasks \X Steps)]
  /\ main # "wait" => todo = {} /\ \A w \in Workers : work[w] = Free
  /\ main \in {"reset", "submit"} => order = <<>>
  /\ main = "submit" => counter = 0
  /\ main = "wait" => Running
  /\ Complete

(* What a worker holds: nothing, or a task and the step it is at.          *)
LEMMA HeldTask ==
  ASSUME DiamondInv, NEW w \in Workers
  PROVE  \/ work[w] = Free /\ work[w][1] = "none" /\ work[w][2] = Idle
         \/ /\ work[w] = <<work[w][1], work[w][2]>> /\ work[w] # Free
            /\ work[w][1] \in Tasks /\ work[w][2] \in Steps
<1>1. work[w] \in {Free} \cup (Tasks \X Steps)
  BY DEF DiamondInv
<1>2. CASE work[w] = Free
  BY <1>2 DEF Free
<1>3. CASE work[w] \in Tasks \X Steps
  BY <1>3 DEF Free, Idle, Tasks, Steps
<1> QED
  BY <1>1, <1>2, <1>3

(* The order of the graph.                                                 *)
LEMMA Graph ==
  /\ Predecessors("A") = {} /\ Predecessors("B") = {"A"} /\ Predecessors("C") = {"A"}
  /\ Predecessors("D") = {"B", "C"}
  BY DEF Predecessors, Successors, Tasks

LEMMA TakeInv == ASSUME DiamondInv, NEW w \in Workers, Take(w) PROVE DiamondInv'
<1>1. PICK t \in todo : /\ Predecessors(t) \subseteq done /\ todo' = todo \ {t}
                        /\ work' = [work EXCEPT ![w] = <<t, "count">>]
  BY DEF Take
<1>2. /\ UNCHANGED <<main, done, counter, order, ran, runs>> /\ work[w] = Free
  BY DEF Take
<1>3. main = "wait" /\ Running
  BY <1>1 DEF DiamondInv
<1>4. t \in Tasks /\ t \notin done /\ t # "none"
  BY <1>1, <1>3 DEF Running, Tasks
<1>5. /\ work' \in [Workers -> {Free} \cup (Tasks \X Steps)]
      /\ work'[w] = <<t, "count">> /\ work'[w][1] = t /\ work'[w][2] = "count"
      /\ \A v \in Workers : v # w => work'[v] = work[v]
  BY <1>1, <1>4 DEF DiamondInv, Steps
<1>6. ASSUME NEW v \in Workers, v # w PROVE work[v][1] # t
  <2>1. CASE work[v] = Free
    BY <2>1, <1>4 DEF Free
  <2>2. CASE work[v] # Free
    BY <2>2, <1>1, <1>3 DEF Running
  <2> QED
    BY <2>1, <2>2
<1>7. \A v \in Workers : work'[v] # Free =>
        /\ work'[v][1] \notin todo' \cup done'
        /\ Predecessors(work'[v][1]) \subseteq done'
        /\ \A u \in Workers : work'[u][1] = work'[v][1] => u = v
  <2> SUFFICES ASSUME NEW v \in Workers, work'[v] # Free
               PROVE  /\ work'[v][1] \notin todo' \cup done'
                      /\ Predecessors(work'[v][1]) \subseteq done'
                      /\ \A u \in Workers : work'[u][1] = work'[v][1] => u = v
    OBVIOUS
  <2>1. CASE v = w
    BY <2>1, <1>1, <1>2, <1>4, <1>5, <1>6
  <2>2. CASE v # w
    BY <2>2, <1>1, <1>2, <1>3, <1>5, <1>6 DEF Running
  <2> QED
    BY <2>1, <2>2
<1>8. ASSUME NEW s PROVE Counted(s)' = Counted(s)
  <2>1. ASSUME NEW v \in Workers PROVE (work'[v] = <<s, "log">>) <=> (work[v] = <<s, "log">>)
    <3>1. CASE v = w
      <4>1. work'[v] # <<s, "log">>
        BY <3>1, <1>5
      <4>2. work[v] # <<s, "log">>
        BY <3>1, <1>2 DEF Free, Idle
      <4> QED
        BY <4>1, <4>2
    <3>2. CASE v # w
      BY <3>2, <1>5
    <3> QED
      BY <3>1, <3>2
  <2> QED
    BY <2>1, <1>2 DEF Counted
<1>9. \A s : Ones(s)' = Ones(s)
  BY <1>8 DEF Ones
<1>10. LogOf'
  BY <1>2, <1>3 DEF Running, LogOf
<1>11. Running'
  BY <1>1, <1>2, <1>3, <1>7, <1>9, <1>10 DEF Running
<1> QED
  BY <1>2, <1>3, <1>5, <1>11 DEF DiamondInv, Complete, Idle

LEMMA CountInv == ASSUME DiamondInv, NEW w \in Workers, Count(w) PROVE DiamondInv'
<1> DEFINE t == work[w][1]
<1>1. /\ UNCHANGED <<main, todo, done, order, ran, runs>> /\ counter' = counter + 1
      /\ work[w][2] = "count" /\ work' = [work EXCEPT ![w][2] = "log"]
  BY DEF Count
<1>2. t \in Tasks /\ work[w] = <<t, "count">> /\ work[w] # Free
  BY <1>1, HeldTask DEF Idle
<1>3. main = "wait" /\ Running
  BY <1>2 DEF DiamondInv
<1>4. work' = [work EXCEPT ![w] = <<t, "log">>]
  <2>1. work' = [work EXCEPT ![w] = [work[w] EXCEPT ![2] = "log"]]
    BY <1>1, Zenon
  <2>2. [<<t, "count">> EXCEPT ![2] = "log"] = <<t, "log">>
    OBVIOUS
  <2> HIDE DEF t
  <2> QED
    BY <1>2, <2>1, <2>2
<1>5. /\ work' \in [Workers -> {Free} \cup (Tasks \X Steps)]
      /\ work'[w] = <<t, "log">> /\ work'[w][1] = t
      /\ \A v \in Workers : v # w => work'[v] = work[v]
  BY <1>2, <1>4 DEF DiamondInv, Steps
<1>6. \A v \in Workers : work'[v][1] = work[v][1]
  BY <1>5
<1>7. \A v \in Workers : work'[v] # Free => work[v] # Free
  BY <1>2, <1>5
<1>8. ASSUME NEW s PROVE Counted(s)' <=> Counted(s) \/ s = t
  <2>1. ASSUME NEW v \in Workers PROVE (work'[v] = <<s, "log">>) <=> work[v] = <<s, "log">> \/ (v = w /\ s = t)
    <3>1. CASE v = w
      BY <3>1, <1>2, <1>5
    <3>2. CASE v # w
      BY <3>2, <1>5
    <3> QED
      BY <3>1, <3>2
  <2> QED
    BY <2>1, <1>1 DEF Counted
<1>9. ~Counted(t)
  <2>1. ASSUME NEW v \in Workers PROVE work[v] # <<t, "log">>
    <3>1. CASE v = w
      BY <3>1, <1>2
    <3>2. CASE v # w
      <4>1. work[v][1] # t
        BY <3>2, <1>2, <1>3 DEF Running
      <4> QED
        BY <4>1
    <3> QED
      BY <3>1, <3>2
  <2>2. t \notin done
    BY <1>2, <1>3 DEF Running
  <2> QED
    BY <2>1, <2>2 DEF Counted
<1>10. \A s : s # t => Ones(s)' = Ones(s)
  BY <1>8 DEF Ones
<1>11. \A s : s = t => Ones(s)' = 1 /\ Ones(s) = 0
  BY <1>8, <1>9 DEF Ones
<1> HIDE DEF t
<1>12. counter' = (Ones("A") + Ones("B") + Ones("C") + Ones("D"))'
  <2>1. counter = Ones("A") + Ones("B") + Ones("C") + Ones("D")
    BY <1>3 DEF Running
  <2>2. \A s : Ones(s) \in {0, 1}
    BY DEF Ones
  <2>3. t = "A" \/ t = "B" \/ t = "C" \/ t = "D"
    BY <1>2 DEF Tasks
  <2>4. CASE t = "A"
    BY <1>1, <1>10, <1>11, <2>1, <2>2, <2>4
  <2>5. CASE t = "B"
    BY <1>1, <1>10, <1>11, <2>1, <2>2, <2>5
  <2>6. CASE t = "C"
    BY <1>1, <1>10, <1>11, <2>1, <2>2, <2>6
  <2>7. CASE t = "D"
    BY <1>1, <1>10, <1>11, <2>1, <2>2, <2>7
  <2> QED
    BY <2>3, <2>4, <2>5, <2>6, <2>7
<1>13. LogOf'
  BY <1>1, <1>3 DEF Running, LogOf
<1>14. Running'
  BY <1>1, <1>3, <1>6, <1>7, <1>12, <1>13 DEF Running
<1> QED
  BY <1>1, <1>3, <1>5, <1>14 DEF DiamondInv, Complete, Idle

(* A tuple, one entry longer.                                              *)
LEMMA AppendTo1 ==
  ASSUME NEW T, NEW a \in T, NEW b \in T
  PROVE  Append(<<a>>, b) = <<a, b>>
<1> DEFINE s == Append(<<a>>, b)
           t == <<a, b>>
<1>1. s \in Seq(T) /\ Len(s) = 2 /\ s[1] = a /\ s[2] = b
  OBVIOUS
<1>2. t \in Seq(T) /\ Len(t) = 2 /\ t[1] = a /\ t[2] = b
  OBVIOUS
<1> HIDE DEF s, t
<1>3. \A i \in 1 .. Len(s) : s[i] = t[i]
  BY <1>1, <1>2
<1>4. s = t
  BY <1>1, <1>2, <1>3, SeqEqual
<1> QED
  BY <1>4 DEF s, t

LEMMA AppendTo2 ==
  ASSUME NEW T, NEW a \in T, NEW b \in T, NEW c \in T
  PROVE  Append(<<a, b>>, c) = <<a, b, c>>
<1> DEFINE s == Append(<<a, b>>, c)
           t == <<a, b, c>>
<1>1. s \in Seq(T) /\ Len(s) = 3 /\ s[1] = a /\ s[2] = b /\ s[3] = c
  OBVIOUS
<1>2. t \in Seq(T) /\ Len(t) = 3 /\ t[1] = a /\ t[2] = b /\ t[3] = c
  OBVIOUS
<1> HIDE DEF s, t
<1>3. \A i \in 1 .. Len(s) : s[i] = t[i]
  BY <1>1, <1>2
<1>4. s = t
  BY <1>1, <1>2, <1>3, SeqEqual
<1> QED
  BY <1>4 DEF s, t

LEMMA AppendTo3 ==
  ASSUME NEW T, NEW a \in T, NEW b \in T, NEW c \in T, NEW d \in T
  PROVE  Append(<<a, b, c>>, d) = <<a, b, c, d>>
<1> DEFINE s == Append(<<a, b, c>>, d)
           t == <<a, b, c, d>>
<1>1. s \in Seq(T) /\ Len(s) = 4 /\ s[1] = a /\ s[2] = b /\ s[3] = c /\ s[4] = d
  OBVIOUS
<1>2. t \in Seq(T) /\ Len(t) = 4 /\ t[1] = a /\ t[2] = b /\ t[3] = c /\ t[4] = d
  OBVIOUS
<1> HIDE DEF s, t
<1>3. \A i \in 1 .. Len(s) : s[i] = t[i]
  BY <1>1, <1>2
<1>4. s = t
  BY <1>1, <1>2, <1>3, SeqEqual
<1> QED
  BY <1>4 DEF s, t

LEMMA Appends ==
  /\ Append(<<"A">>, "B") = <<"A", "B">> /\ Append(<<"A">>, "C") = <<"A", "C">>
  /\ Append(<<"A", "C">>, "B") = <<"A", "C", "B">> /\ Append(<<"A", "B">>, "C") = <<"A", "B", "C">>
  /\ Append(<<"A", "B", "C">>, "D") = <<"A", "B", "C", "D">>
  /\ Append(<<"A", "C", "B">>, "D") = <<"A", "C", "B", "D">>
<1>1. "A" \in Tasks /\ "B" \in Tasks /\ "C" \in Tasks /\ "D" \in Tasks
  BY DEF Tasks
<1> QED
  BY <1>1, AppendTo1, AppendTo2, AppendTo3

(* Which task the log can take next.                                       *)
LEMMA LogGrows ==
  ASSUME Running, NEW t \in Tasks, t \notin done, Predecessors(t) \subseteq done,
         done' = done \cup {t}, order' = Append(order, t)
  PROVE  LogOf'
<1>1. LogOf
  BY DEF Running
<1>2. CASE t = "A"
  <2>1. done = {} /\ order = <<>>
    BY <1>1, <1>2 DEF LogOf, Tasks
  <2> QED
    BY <2>1, <1>2 DEF LogOf
<1>3. CASE t = "B"
  <2>1. "A" \in done /\ "B" \notin done
    BY <1>3, Graph
  <2>2. \/ done = {"A"} /\ order = <<"A">>
        \/ done = {"A", "C"} /\ order = <<"A", "C">>
    BY <1>1, <2>1 DEF LogOf, Tasks
  <2>3. \/ done' = {"A", "B"} /\ order' = <<"A", "B">>
        \/ done' = {"A", "B", "C"} /\ order' = <<"A", "C", "B">>
    BY <1>3, <2>2, Appends, Zenon
  <2> QED
    BY <2>3 DEF LogOf
<1>4. CASE t = "C"
  <2>1. "A" \in done /\ "C" \notin done
    BY <1>4, Graph
  <2>2. \/ done = {"A"} /\ order = <<"A">>
        \/ done = {"A", "B"} /\ order = <<"A", "B">>
    BY <1>1, <2>1 DEF LogOf, Tasks
  <2>3. \/ done' = {"A", "C"} /\ order' = <<"A", "C">>
        \/ done' = {"A", "B", "C"} /\ order' = <<"A", "B", "C">>
    BY <1>4, <2>2, Appends, Zenon
  <2> QED
    BY <2>3 DEF LogOf
<1>5. CASE t = "D"
  <2>1. "B" \in done /\ "C" \in done /\ "D" \notin done
    BY <1>5, Graph
  <2>2. done = {"A", "B", "C"} /\ order \in {<<"A", "B", "C">>, <<"A", "C", "B">>}
    BY <1>1, <2>1 DEF LogOf, Tasks
  <2>3. done' = Tasks
    BY <1>5, <2>2 DEF Tasks
  <2>4. order' \in {<<"A", "B", "C", "D">>, <<"A", "C", "B", "D">>}
    BY <1>5, <2>2, Appends, Zenon
  <2> QED
    BY <2>3, <2>4 DEF LogOf
<1> QED
  BY <1>2, <1>3, <1>4, <1>5 DEF Tasks

LEMMA LogInv == ASSUME DiamondInv, NEW w \in Workers, Log(w) PROVE DiamondInv'
<1> DEFINE t == work[w][1]
<1>1. /\ UNCHANGED <<main, todo, counter, ran, runs>> /\ order' = Append(order, t)
      /\ done' = done \cup {t}
      /\ work[w][2] = "log" /\ work' = [work EXCEPT ![w] = Free]
  BY DEF Log
<1>2. t \in Tasks /\ work[w] = <<t, "log">> /\ work[w] # Free
  BY <1>1, HeldTask DEF Idle
<1>3. main = "wait" /\ Running
  BY <1>2 DEF DiamondInv
<1>4. /\ work' \in [Workers -> {Free} \cup (Tasks \X Steps)]
      /\ work'[w] = Free
      /\ \A v \in Workers : v # w => work'[v] = work[v]
  BY <1>1 DEF DiamondInv
<1>5. /\ t \notin done /\ t \notin todo /\ Predecessors(t) \subseteq done
      /\ \A v \in Workers : work[v][1] = t => v = w
  BY <1>2, <1>3 DEF Running
<1>6. LogOf'
  BY <1>1, <1>2, <1>3, <1>5, LogGrows
<1>7. ASSUME NEW s PROVE Counted(s)' <=> Counted(s)
  <2>1. CASE s = t
    BY <2>1, <1>1, <1>2 DEF Counted
  <2>2. CASE s # t
    <3>1. ASSUME NEW v \in Workers PROVE (work'[v] = <<s, "log">>) <=> work[v] = <<s, "log">>
      <4>1. CASE v = w
        BY <4>1, <1>2, <1>4, <2>2 DEF Free, Idle
      <4>2. CASE v # w
        BY <4>2, <1>4
      <4> QED
        BY <4>1, <4>2
    <3> QED
      BY <3>1, <2>2, <1>1 DEF Counted
  <2> QED
    BY <2>1, <2>2
<1>8. \A s : Ones(s)' = Ones(s)
  BY <1>7 DEF Ones
<1>9. ASSUME NEW v \in Workers, work'[v] # Free
      PROVE  /\ work'[v][1] \notin todo' \cup done'
             /\ Predecessors(work'[v][1]) \subseteq done'
             /\ \A u \in Workers : work'[u][1] = work'[v][1] => u = v
  <2>1. v # w /\ work'[v] = work[v] /\ work[v] # Free
    BY <1>4, <1>9
  <2>2. /\ work[v][1] \notin todo \cup done /\ Predecessors(work[v][1]) \subseteq done
        /\ work[v][1] # "none" /\ work[v][1] # t
        /\ \A u \in Workers : work[u][1] = work[v][1] => u = v
    BY <2>1, <1>3, <1>5, HeldTask DEF Running, Tasks
  <2>3. ASSUME NEW u \in Workers, work'[u][1] = work'[v][1] PROVE u = v
    <3>1. u # w
      BY <1>4, <2>1, <2>2, <2>3 DEF Free
    <3> QED
      BY <3>1, <1>4, <2>1, <2>2, <2>3
  <2> QED
    BY <2>1, <2>2, <2>3, <1>1
<1>10. Running'
  <2>1. todo' \subseteq Tasks /\ done' \subseteq Tasks /\ todo' \cap done' = {}
    BY <1>1, <1>2, <1>3, <1>5 DEF Running
  <2>2. counter' = (Ones("A") + Ones("B") + Ones("C") + Ones("D"))'
    BY <1>1, <1>3, <1>8 DEF Running
  <2> QED
    BY <2>1, <2>2, <1>6, <1>9 DEF Running
<1> QED
  BY <1>1, <1>3, <1>4, <1>10 DEF DiamondInv, Complete, Idle

(* run itself: the log and the counter start afresh, and once all tasks    *)
(* have finished no worker holds one.                                      *)
LEMMA MainInv == ASSUME DiamondInv, Clear \/ Main PROVE DiamondInv'
<1>1. CASE Clear
  BY <1>1 DEF Clear, DiamondInv, Complete, Idle
<1>2. CASE Reset
  BY <1>2 DEF Reset, DiamondInv, Complete, Idle
<1>3. CASE Submit
  <2>1. /\ main = "submit" /\ main' = "wait" /\ todo' = Tasks /\ done' = {}
        /\ UNCHANGED <<work, counter, order, ran, runs>>
    BY <1>3 DEF Submit
  <2>2. counter = 0 /\ order = <<>> /\ \A w \in Workers : work[w] = Free
    BY <2>1 DEF DiamondInv
  <2>3. \A s : Ones(s)' = 0
    BY <2>1, <2>2 DEF Ones, Counted, Free, Idle
  <2>4. Running'
    BY <2>1, <2>2, <2>3 DEF Running, LogOf
  <2> QED
    BY <2>1, <2>4 DEF DiamondInv, Complete, Idle
<1>4. CASE Wait
  <2>1. /\ main = "wait" /\ done = Tasks /\ ran' = counter /\ main' = Idle
        /\ UNCHANGED <<work, todo, done, counter, order, runs>>
    BY <1>4 DEF Wait
  <2>2. Running
    BY <2>1 DEF DiamondInv
  <2>3. \A s \in Tasks : Ones(s) = 1
    BY <2>1 DEF Ones, Counted
  <2>4. counter = 4
    BY <2>2, <2>3 DEF Running, Tasks
  <2>5. order \in {<<"A", "B", "C", "D">>, <<"A", "C", "B", "D">>}
    BY <2>1, <2>2 DEF Running, LogOf, Tasks
  <2>6. todo = {}
    BY <2>1, <2>2 DEF Running
  <2>7. \A w \in Workers : work[w] = Free
    BY <2>1, <2>2, HeldTask DEF Running
  <2> QED
    BY <2>1, <2>4, <2>5, <2>6, <2>7 DEF DiamondInv, Complete, Idle
<1> QED
  BY <1>1, <1>2, <1>3, <1>4 DEF Main

(* When run has returned, four bodies ran and the log is one of the two    *)
(* that the graph allows, for any number of workers and of runs: the first *)
(* conjunct of EveryRunIsComplete.                                         *)
THEOREM CompleteHolds == DiamondSpec => []Complete
<1>1. DiamondInit => DiamondInv
  BY DEF DiamondInit, DiamondInv, Complete, Idle
<1>2. DiamondInv /\ [DiamondNext]_diamondVars => DiamondInv'
  <2> SUFFICES ASSUME DiamondInv, [DiamondNext]_diamondVars PROVE DiamondInv'
    OBVIOUS
  <2>1. CASE Clear \/ Main
    BY <2>1, MainInv
  <2>2. CASE Work
    BY <2>2, TakeInv, CountInv, LogInv DEF Work
  <2>3. CASE UNCHANGED diamondVars
    BY <2>3 DEF diamondVars, DiamondInv, Complete, Running, LogOf, Ones, Counted
  <2> QED
    BY <2>1, <2>2, <2>3 DEF DiamondNext
<1>3. DiamondInv => Complete
  BY DEF DiamondInv
<1> QED
  BY <1>1, <1>2, <1>3, PTL DEF DiamondSpec

-----------------------------------------------------------------------------
(* httptest.h: between calls the socket listens exactly when the server is *)
(* started, so that a request that finds it is taken by a thread that      *)
(* accepts, and what has come back is the answer of its route.             *)
Replied(r) == asked # <<>> /\ r = Routed(asked[1])

EchoInv ==
  /\ call \in {"none", "spawn", "wait", "join", "answer"}
  /\ thread \in {"none", "born", "accepting", "ended"}
  /\ running <=> thread = "accepting"
  /\ call = "spawn" => thread = "none" /\ socket
  /\ call = "wait" => thread \in {"born", "accepting"} /\ socket
  /\ call = "join" => ~socket
  /\ call \in {"none", "answer"} => \/ thread = "none" /\ ~socket
                                    \/ thread = "accepting" /\ socket
  /\ call = "answer" => socket /\ asked # <<>> /\ (reply = NoReply \/ Replied(reply))
  /\ call # "answer" /\ asked # <<>> => reply = Refused \/ Replied(reply)
  /\ taken => call = "answer" /\ reply = NoReply

(* What each route echoes of its request.                                  *)
LEMMA RouteAnswers ==
  ASSUME NEW req
  PROVE  LET r == Routed(req)
         IN  /\ req.path = "/missing" => r.status = 404
             /\ req.method = "POST" /\ r.status # 404 => r.body = req.body
             /\ \A h \in r.headers : h[1] = "X-Echo-Method" => h[2] = req.method
<1> DEFINE r == Routed(req)
           route == <<req.method, req.path>>
<1>1. /\ route[1] = req.method /\ route[2] = req.path
  OBVIOUS
<1>2. CASE route = <<"GET", "/echo">>
  <2>1. r = GetEcho(req)
    BY <1>2 DEF Routed
  <2>2. r.headers = {<<"X-Echo-Method", req.method>>, <<"X-Echo-Path", req.path>>,
                     <<"X-Echo-Probe", req.probe>>}
    BY <2>1 DEF GetEcho, Text
  <2> QED
    BY <1>2, <2>2
<1>3. CASE route = <<"POST", "/echo">>
  <2>1. r = PostEcho(req)
    BY <1>3 DEF Routed
  <2>2. /\ r.body = req.body
        /\ r.headers = {<<"X-Echo-Method", req.method>>, <<"X-Body-Len", Len(req.body)>>}
    <3> HIDE DEF r
    <3>1. r.body = req.body
      BY <2>1 DEF PostEcho
    <3>2. r.headers = {<<"X-Echo-Method", req.method>>, <<"X-Body-Len", Len(req.body)>>}
      BY <2>1 DEF PostEcho
    <3> QED
      BY <3>1, <3>2
  <2> QED
    BY <1>3, <2>2
<1>4. CASE route \in {<<"GET", "/param">>, <<"PUT", "/echo">>, <<"DELETE", "/echo">>, <<"GET", "/teapot">>}
  <2>1. r \in {GetParam(req), PutEcho(req), DeleteEcho(req), GetTeapot(req)}
    BY <1>4 DEF Routed
  <2>2. r.headers = {}
    <3> HIDE DEF r
    <3>1. CASE r = GetParam(req)
      BY <3>1 DEF GetParam, Text
    <3>2. CASE r = PutEcho(req)
      BY <3>2 DEF PutEcho, Text
    <3>3. CASE r = DeleteEcho(req)
      BY <3>3 DEF DeleteEcho, NoReply
    <3>4. CASE r = GetTeapot(req)
      BY <3>4 DEF GetTeapot, Text
    <3> QED
      BY <2>1, <3>1, <3>2, <3>3, <3>4
  <2> QED
    BY <1>4, <2>2
<1>5. CASE route \notin {<<"GET", "/echo">>, <<"GET", "/param">>, <<"POST", "/echo">>, <<"PUT", "/echo">>,
                         <<"DELETE", "/echo">>, <<"GET", "/teapot">>}
  <2>1. r = [NoReply EXCEPT !.status = 404]
    BY <1>5 DEF Routed
  <2>2. r.status = 404 /\ r.headers = {}
    BY <2>1 DEF NoReply
  <2> QED
    BY <2>2
<1> QED
  BY <1>2, <1>3, <1>4, <1>5

LEMMA EchoNextInv == ASSUME EchoInv, [EchoNext]_echoVars PROVE EchoInv'
<1>1. CASE Bind
  BY <1>1 DEF Bind, EchoInv, Replied
<1>2. CASE StopServer
  BY <1>2 DEF StopServer, EchoInv, Replied
<1>3. ASSUME NEW req \in Requests, Send(req) PROVE EchoInv'
  <2>1. /\ call = "none" /\ asked' = <<req>> /\ taken' = FALSE /\ asked' # <<>>
        /\ UNCHANGED <<socket, running, thread, starts>>
    BY <1>3 DEF Send
  <2>2. CASE socket
    <3>1. call' = "answer" /\ reply' = NoReply
      BY <1>3, <2>2 DEF Send
    <3> QED
      BY <2>1, <2>2, <3>1 DEF EchoInv
  <2>3. CASE ~socket
    <3>1. call' = call /\ reply' = Refused
      BY <1>3, <2>3 DEF Send
    <3> QED
      BY <2>1, <2>3, <3>1 DEF EchoInv
  <2> QED
    BY <2>2, <2>3
<1>4. CASE Spawn \/ Ready \/ Join
  BY <1>4 DEF Spawn, Ready, Join, EchoInv, Replied
<1>5. CASE Receive
  BY <1>5 DEF Receive, EchoInv, Replied
<1>6. CASE Listen
  BY <1>6 DEF Listen, EchoInv, Replied
<1>7. CASE Accept \/ ListenEnds
  BY <1>7 DEF Accept, ListenEnds, EchoInv, Replied
<1>8. CASE Handle
  <2>1. /\ taken /\ reply' = Routed(asked[1]) /\ taken' = FALSE
        /\ UNCHANGED <<call, socket, running, thread, asked, starts>>
    BY <1>8 DEF Handle
  <2>2. Replied(reply)'
    BY <2>1 DEF EchoInv, Replied
  <2> QED
    BY <2>1, <2>2 DEF EchoInv
<1>9. CASE UNCHANGED echoVars
  BY <1>9 DEF echoVars, EchoInv, Replied
<1> QED
  BY <1>1, <1>2, <1>3, <1>4, <1>5, <1>6, <1>7, <1>8, <1>9 DEF EchoNext, Returning, Serving

LEMMA EchoInvHolds == EchoSpec => []EchoInv
<1>1. EchoInit => EchoInv
  BY DEF EchoInit, EchoInv
<1>2. EchoInv /\ [EchoNext]_echoVars => EchoInv'
  BY EchoNextInv
<1> QED
  BY <1>1, <1>2, PTL DEF EchoSpec

(* The safety half of EveryCallIsServed, for all requests and any number   *)
(* of starts: a client waits only for a server that is started, a started  *)
(* server refuses no request, and what comes back is the answer of the     *)
(* route to the request that was sent.                                     *)
THEOREM AnswersAreToTheRequest ==
  EchoSpec => [](RepliesAreToTheRequest /\ (call = "answer" => Started)) /\ OnlyStoppedRefuses
<1>1. EchoInv => RepliesAreToTheRequest /\ (call = "answer" => Started)
  <2> SUFFICES ASSUME EchoInv PROVE RepliesAreToTheRequest /\ (call = "answer" => Started)
    OBVIOUS
  <2>1. call = "answer" => Started
    BY DEF EchoInv, Started
  <2>2. ASSUME call = "none", asked # <<>>, reply # Refused
        PROVE  LET req == asked[1]
               IN  /\ req.path = "/missing" => reply.status = 404
                   /\ req.method = "POST" /\ reply.status # 404 => reply.body = req.body
                   /\ \A h \in reply.headers : h[1] = "X-Echo-Method" => h[2] = req.method
    <3>1. reply = Routed(asked[1])
      BY <2>2 DEF EchoInv, Replied
    <3> QED
      BY <3>1, RouteAnswers
  <2> QED
    BY <2>1, <2>2 DEF RepliesAreToTheRequest
<1>2. EchoInv => [\A req \in Requests : Send(req) => (reply' = Refused <=> ~Started)]_echoVars
  <2> SUFFICES ASSUME EchoInv, NEW req \in Requests, Send(req) PROVE reply' = Refused <=> ~Started
    OBVIOUS
  <2>1. NoReply # Refused
    <3>1. NoReply.status = 0 /\ Refused.status = -1
      BY DEF NoReply, Refused
    <3> QED
      BY <3>1
  <2> QED
    BY <2>1 DEF Send, EchoInv, Started
<1> QED
  BY <1>1, <1>2, EchoInvHolds, PTL DEF OnlyStoppedRefuses

-----------------------------------------------------------------------------
(* tomlfix.h: Turns is a recursive definition too.                         *)
TurnsFrom(tree, dotted, n, f) == IF n = 0 THEN At(<<>>, 1, "going") ELSE Turn(tree, dotted, f[n - 1])

IsTurns(tree, dotted, f) == f = [n \in 0 .. Len(dotted) + 1 |-> TurnsFrom(tree, dotted, n, f)]

(* The turns of the loop have an equation that a function satisfies,       *)
(* whatever the tree.                                                      *)
LEMMA TurnsExists ==
  ASSUME NEW tree, NEW dotted, Len(dotted) \in Nat
  PROVE  \E f : IsTurns(tree, dotted, f)
<1> DEFINE Partial(k, f) == f = [n \in 0 .. k |-> TurnsFrom(tree, dotted, n, f)]
           S == {k \in Nat : \E f : Partial(k, f)}
<1>1. 0 \in S
  <2> DEFINE f == [n \in 0 .. 0 |-> At(<<>>, 1, "going")]
  <2>1. Partial(0, f)
    BY DEF TurnsFrom
  <2> QED
    BY <2>1
<1>2. ASSUME NEW k \in Nat, k \in S PROVE k + 1 \in S
  <2>1. PICK f : Partial(k, f)
    BY <1>2
  <2> DEFINE g == [n \in 0 .. k + 1 |-> IF n = k + 1 THEN Turn(tree, dotted, f[k]) ELSE f[n]]
  <2>2. ASSUME NEW n \in 0 .. k + 1 PROVE g[n] = TurnsFrom(tree, dotted, n, g)
    <3>1. CASE n = k + 1
      <4>1. n # 0 /\ n - 1 = k /\ k \in 0 .. k + 1 /\ k # k + 1
        BY <3>1
      <4>2. g[n] = Turn(tree, dotted, f[k]) /\ g[n - 1] = f[k]
        BY <3>1, <4>1
      <4> QED
        BY <4>1, <4>2 DEF TurnsFrom
    <3>2. CASE n # k + 1
      <4>1. n \in 0 .. k /\ g[n] = f[n]
        BY <3>2
      <4>2. f[n] = TurnsFrom(tree, dotted, n, f)
        BY <2>1, <4>1
      <4>3. n # 0 => n - 1 \in 0 .. k + 1 /\ n - 1 # k + 1
        BY <4>1
      <4>4. n # 0 => g[n - 1] = f[n - 1]
        BY <4>3
      <4> QED
        BY <4>1, <4>2, <4>4 DEF TurnsFrom
    <3> QED
      BY <3>1, <3>2
  <2>3. Partial(k + 1, g)
    BY <2>2
  <2> HIDE DEF g, Partial
  <2> QED
    BY <2>3
<1> HIDE DEF S
<1>3. Len(dotted) + 1 \in S
  BY <1>1, <1>2, SetInduction
<1> QED
  BY <1>3 DEF S, IsTurns

(* So that the loop begins at the root and goes on turn by turn.           *)
LEMMA TurnsEquation ==
  ASSUME NEW tree, NEW dotted, Len(dotted) \in Nat
  PROVE  /\ Turns(tree, dotted)[0] = At(<<>>, 1, "going")
         /\ \A n \in 1 .. Len(dotted) + 1 :
              Turns(tree, dotted)[n] = Turn(tree, dotted, Turns(tree, dotted)[n - 1])
<1>1. \E f : IsTurns(tree, dotted, f)
  BY TurnsExists
<1>2. IsTurns(tree, dotted, Turns(tree, dotted))
  BY <1>1, Zenon DEF Turns, TurnsFrom, IsTurns
<1>3. \A n \in 0 .. Len(dotted) + 1 : Turns(tree, dotted)[n] = TurnsFrom(tree, dotted, n, Turns(tree, dotted))
  BY <1>2, Zenon DEF IsTurns
<1> QED
  BY <1>3 DEF TurnsFrom

(* The next dot is the first there is.                                     *)
LEMMA NextDot ==
  ASSUME NEW dotted, Len(dotted) \in Nat, NEW start \in Nat \ {0}
  PROVE  \/ FindDot(dotted, start) = 0 /\ \A i \in start .. Len(dotted) : dotted[i] # Dot
         \/ /\ FindDot(dotted, start) \in start .. Len(dotted) /\ dotted[FindDot(dotted, start)] = Dot
            /\ \A i \in start .. FindDot(dotted, start) - 1 : dotted[i] # Dot
<1> DEFINE dots == {i \in start .. Len(dotted) : dotted[i] = Dot}
<1>1. CASE dots = {}
  BY <1>1 DEF FindDot
<1>2. CASE dots # {}
  <2>1. dots \in SUBSET Nat
    OBVIOUS
  <2>2. \E i \in dots : \A j \in dots : i <= j
    BY <1>2, <2>1, LeastMember
  <2>3. FindDot(dotted, start) = CHOOSE i \in dots : \A j \in dots : i <= j
    BY <1>2 DEF FindDot
  <2> DEFINE dot == FindDot(dotted, start)
  <2>4. dot \in dots /\ \A j \in dots : dot <= j
    BY <2>2, <2>3
  <2> HIDE DEF dot
  <2>5. dot \in start .. Len(dotted) /\ dotted[dot] = Dot
    BY <2>4
  <2>6. ASSUME NEW i \in start .. dot - 1 PROVE dotted[i] # Dot
    <3>1. i \in start .. Len(dotted) /\ ~(dot <= i)
      BY <2>5, <2>6
    <3> QED
      BY <2>4, <3>1
  <2> QED
    BY <2>5, <2>6 DEF dot
<1> QED
  BY <1>1, <1>2

(* The cuts of a dotted path behind keys that are the beginning of it.     *)
Cuts(keys, dotted, cut) ==
  /\ cut \in [0 .. Len(keys) -> 0 .. Len(dotted) + 1] /\ cut[0] = 0
  /\ \A n \in 1 .. Len(keys) : cut[n - 1] < cut[n]
  /\ \A n \in 1 .. Len(keys) :
       /\ keys[n] = SubSeq(dotted, cut[n - 1] + 1, cut[n] - 1)
       /\ \A i \in cut[n - 1] + 1 .. cut[n] - 1 : dotted[i] # Dot

(* Keys are joined to a path when its cuts behind all of them are dots,    *)
(* but for the last, which is its end.                                     *)
LEMMA JoinedCuts ==
  ASSUME NEW keys, NEW dotted
  PROVE  Joined(keys, dotted) <=>
           \E cut : /\ Cuts(keys, dotted, cut) /\ cut[Len(keys)] = Len(dotted) + 1
                    /\ \A n \in 1 .. Len(keys) : n < Len(keys) => dotted[cut[n]] = Dot
BY DEF Joined, Cuts

(* There are no more keys than characters and one, and a cut behind each.  *)
LEMMA CutsGrow ==
  ASSUME NEW keys, NEW dotted, NEW cut, Len(keys) \in Nat, Len(dotted) \in Nat, Cuts(keys, dotted, cut)
  PROVE  \A n \in 0 .. Len(keys) : n <= cut[n]
<1> DEFINE S == {n \in Nat : n <= Len(keys) => n <= cut[n]}
<1>1. 0 \in S
  BY DEF Cuts
<1>2. ASSUME NEW n \in Nat, n \in S PROVE n + 1 \in S
  <2>1. SUFFICES ASSUME n + 1 <= Len(keys) PROVE n + 1 <= cut[n + 1]
    OBVIOUS
  <2>2. n + 1 \in 1 .. Len(keys) /\ (n + 1) - 1 = n /\ n \in 0 .. Len(keys) /\ n + 1 \in 0 .. Len(keys)
    BY <2>1
  <2>3. cut[n] < cut[n + 1] /\ cut[n] \in 0 .. Len(dotted) + 1 /\ cut[n + 1] \in 0 .. Len(dotted) + 1
    BY <2>2 DEF Cuts
  <2>4. n <= cut[n]
    BY <1>2, <2>2
  <2> QED
    BY <2>3, <2>4
<1> HIDE DEF S
<1>3. \A n \in Nat : n \in S
  BY <1>1, <1>2, SetInduction
<1> QED
  BY <1>3 DEF S

(* A beginning of a sequence and its next member are the next beginning.   *)
LEMMA PrefixGrows ==
  ASSUME NEW T, NEW q \in Seq(T), NEW n \in 0 .. Len(q) - 1
  PROVE  Append(SubSeq(q, 1, n), q[n + 1]) = SubSeq(q, 1, n + 1)
<1>1. Len(q) \in Nat /\ q[n + 1] \in T /\ n \in Nat /\ n + 1 <= Len(q)
  <2>1. Len(q) \in Nat
    BY LenProperties
  <2>2. n + 1 \in 1 .. Len(q)
    BY <2>1
  <2> QED
    BY <2>1, <2>2, ElementOfSeq
<1> DEFINE a == SubSeq(q, 1, n)
           b == SubSeq(q, 1, n + 1)
<1>2. a \in Seq(T) /\ Len(a) = n /\ \A i \in 1 .. n : a[i] = q[i]
  BY <1>1, SubSeqProperties
<1>3. b \in Seq(T) /\ Len(b) = n + 1 /\ \A i \in 1 .. n + 1 : b[i] = q[i]
  BY <1>1, SubSeqProperties
<1> HIDE DEF a, b
<1> DEFINE c == Append(a, q[n + 1])
<1>4. c \in Seq(T) /\ Len(c) = n + 1 /\ c[n + 1] = q[n + 1] /\ \A i \in 1 .. n : c[i] = a[i]
  BY <1>1, <1>2, AppendProperties
<1> HIDE DEF c
<1>5. \A i \in 1 .. n + 1 : c[i] = b[i]
  <2> TAKE i \in 1 .. n + 1
  <2>1. i \in 1 .. n \/ i = n + 1
    BY <1>1
  <2> QED
    BY <1>1, <1>2, <1>3, <1>4, <2>1
<1>6. c = b
  BY <1>1, <1>3, <1>4, <1>5, SeqEqual
<1> QED
  BY <1>6 DEF a, b, c

(* Keys that are joined are walked: after each turn the loop is behind the *)
(* cut of the key it looked up, until it has found the node of the last.   *)
LEMMA JoinedIsFound ==
  ASSUME NEW tree \in Documents, tree # Broken, NEW dotted, Len(dotted) \in Nat,
         NEW keys \in DOMAIN tree, Joined(keys, dotted)
  PROVE  LET end == Turns(tree, dotted)[Len(dotted) + 1]
         IN  end.cur = keys /\ end.state = "found"
<1> DEFINE m == Len(keys)
           T == Turns(tree, dotted)
           Going(n) == T[n].cur = SubSeq(keys, 1, n) /\ T[n].state = "going"
           Found(n) == T[n].cur = keys /\ T[n].state = "found"
<1>1. /\ keys \in Seq(Seq(STRING)) /\ m \in Nat
      /\ \A i \in 0 .. m - 1 : SubSeq(keys, 1, i) \in DOMAIN tree /\ tree[SubSeq(keys, 1, i)].type = "table"
  BY DocumentsAreTrees
<1>2. PICK cut : /\ Cuts(keys, dotted, cut) /\ cut[m] = Len(dotted) + 1
                 /\ \A n \in 1 .. m : n < m => dotted[cut[n]] = Dot
  BY JoinedCuts
<1>3. /\ m >= 1 /\ m <= Len(dotted) + 1
      /\ \A n \in 0 .. m : cut[n] \in 0 .. Len(dotted) + 1 /\ n <= cut[n]
  <2>1. \A n \in 0 .. m : n <= cut[n]
    BY <1>1, <1>2, CutsGrow
  <2>2. cut[0] = 0 /\ \A n \in 0 .. m : cut[n] \in 0 .. Len(dotted) + 1
    BY <1>2 DEF Cuts
  <2>3. 0 \in 0 .. m /\ m \in 0 .. m
    BY <1>1
  <2> QED
    BY <1>1, <1>2, <2>1, <2>2, <2>3
<1>4. /\ T[0] = At(<<>>, 1, "going")
      /\ \A n \in 1 .. Len(dotted) + 1 : T[n] = Turn(tree, dotted, T[n - 1])
  BY TurnsEquation
<1> HIDE DEF T, m
<1> DEFINE Here(n) == Going(n) /\ T[n].start = cut[n] + 1
<1>5. Here(0)
  <2>1. T[0].cur = <<>> /\ T[0].start = 1 /\ T[0].state = "going"
    BY <1>4 DEF At
  <2>2. SubSeq(keys, 1, 0) = <<>> /\ cut[0] = 0
    BY <1>1, <1>2, SubSeqProperties, EmptySeq DEF Cuts
  <2> QED
    BY <2>1, <2>2
<1>6. ASSUME NEW n \in Nat, n < m, Here(n)
      PROVE  IF n + 1 = m THEN Found(n + 1) ELSE Here(n + 1)
  <2> DEFINE dot == FindDot(dotted, T[n].start)
             part == SubSeq(dotted, T[n].start, IF dot = 0 THEN Len(dotted) ELSE dot - 1)
  <2>1. /\ n + 1 \in 1 .. m /\ (n + 1) - 1 = n /\ n + 1 \in 1 .. Len(dotted) + 1 /\ n \in 0 .. m
        /\ n + 1 \in 0 .. m /\ n \in 0 .. m - 1
    BY <1>1, <1>3, <1>6
  <2>2. /\ cut[n] < cut[n + 1] /\ keys[n + 1] = SubSeq(dotted, cut[n] + 1, cut[n + 1] - 1)
        /\ \A i \in cut[n] + 1 .. cut[n + 1] - 1 : dotted[i] # Dot
    BY <1>2, <2>1 DEF Cuts, m
  <2>3. cut[n] \in 0 .. Len(dotted) + 1 /\ cut[n + 1] \in 0 .. Len(dotted) + 1
    BY <1>3, <2>1
  <2>4. T[n].start = cut[n] + 1 /\ T[n].start \in Nat \ {0} /\ T[n].start <= Len(dotted) + 1
    BY <1>6, <2>2, <2>3
  <2>5. dot = IF n + 1 = m THEN 0 ELSE cut[n + 1]
    <3>1. \/ dot = 0 /\ \A i \in cut[n] + 1 .. Len(dotted) : dotted[i] # Dot
          \/ /\ dot \in cut[n] + 1 .. Len(dotted) /\ dotted[dot] = Dot
             /\ \A i \in cut[n] + 1 .. dot - 1 : dotted[i] # Dot
      BY <2>4, NextDot
    <3> HIDE DEF dot
    <3>2. CASE n + 1 = m
      <4>1. cut[n + 1] = Len(dotted) + 1
        BY <1>2, <3>2
      <4> QED
        BY <2>2, <2>3, <3>1, <3>2, <4>1
    <3>3. CASE n + 1 # m
      <4>1. n + 1 < m
        BY <1>1, <2>1, <3>3
      <4>2. dotted[cut[n + 1]] = Dot
        BY <1>2, <2>1, <4>1
      <4>3. cut[n + 1] < Len(dotted) + 1
        <5>1. n + 2 \in 1 .. m /\ (n + 2) - 1 = n + 1 /\ n + 2 \in 0 .. m
          BY <1>1, <2>1, <4>1
        <5>2. cut[n + 1] < cut[n + 2] /\ cut[n + 2] \in 0 .. Len(dotted) + 1
          BY <1>2, <1>3, <5>1 DEF Cuts, m
        <5> QED
          BY <2>3, <5>2
      <4> QED
        <5>1. cut[n + 1] \in cut[n] + 1 .. Len(dotted)
          BY <2>2, <2>3, <4>3
        <5>2. dot # 0 /\ dot \in cut[n] + 1 .. Len(dotted) /\ dotted[dot] = Dot
          <6>1. CASE dot = 0 /\ \A i \in cut[n] + 1 .. Len(dotted) : dotted[i] # Dot
            BY <4>2, <5>1, <6>1
          <6>2. CASE dot \in cut[n] + 1 .. Len(dotted) /\ dotted[dot] = Dot
            BY <2>3, <6>2
          <6> QED
            BY <3>1, <6>1, <6>2
        <5>3. ~(dot < cut[n + 1])
          BY <2>2, <2>3, <5>2
        <5>4. ~(dot > cut[n + 1])
          BY <2>3, <3>1, <4>2, <5>1, <5>2
        <5> QED
          BY <2>3, <3>3, <5>2, <5>3, <5>4
    <3> QED
      BY <3>2, <3>3
  <2>6. part = keys[n + 1]
    <3>1. CASE n + 1 = m
      <4>1. dot = 0 /\ cut[n + 1] - 1 = Len(dotted)
        BY <1>2, <2>5, <3>1
      <4> QED
        BY <2>2, <2>4, <4>1
    <3>2. CASE n + 1 # m
      <4>1. dot = cut[n + 1] /\ dot # 0
        BY <2>2, <2>3, <2>5, <3>2
      <4> QED
        BY <2>2, <2>4, <4>1
    <3> QED
      BY <3>1, <3>2
  <2>7. Append(T[n].cur, part) = SubSeq(keys, 1, n + 1)
    BY <1>1, <1>6, <2>1, <2>6, PrefixGrows DEF m
  <2>8. n + 1 = m => SubSeq(keys, 1, n + 1) = keys
    <3>1. SubSeq(keys, 1, Len(keys)) = keys
      <4> DEFINE whole == SubSeq(keys, 1, Len(keys))
      <4>1. whole \in Seq(Seq(STRING)) /\ Len(whole) = Len(keys) /\ \A i \in 1 .. Len(keys) : whole[i] = keys[i]
        BY <1>1, SubSeqProperties DEF m
      <4> HIDE DEF whole
      <4>2. whole = keys
        BY <1>1, <4>1, SeqEqual
      <4> QED
        BY <4>2 DEF whole
    <3> QED
      BY <3>1 DEF m
  <2>9. HasMember(tree, T[n].cur, part)
    <3>1. tree[T[n].cur].type = "table"
      BY <1>1, <1>6, <2>1
    <3>2. SubSeq(keys, 1, n + 1) \in DOMAIN tree
      <4>1. CASE n + 1 = m
        BY <2>8, <4>1
      <4>2. CASE n + 1 # m
        <5>1. n + 1 \in 0 .. m - 1
          BY <1>1, <2>1, <4>2
        <5> QED
          BY <1>1, <5>1
      <4> QED
        BY <4>1, <4>2
    <3> QED
      BY <2>7, <3>1, <3>2 DEF HasMember
  <2>10. T[n + 1] = Turn(tree, dotted, T[n])
    BY <1>4, <2>1
  <2>11. Turn(tree, dotted, T[n]) = Looked(tree, dotted, T[n])
    BY <1>6, <2>4 DEF Turn
  <2>12. Looked(tree, dotted, T[n])
           = At(SubSeq(keys, 1, n + 1), dot + 1, IF dot = 0 THEN "found" ELSE "going")
    BY <2>7, <2>9 DEF Looked
  <2>13. CASE n + 1 = m
    BY <2>5, <2>8, <2>10, <2>11, <2>12, <2>13 DEF At
  <2>14. CASE n + 1 # m
    <3>1. dot = cut[n + 1] /\ dot # 0
      BY <2>2, <2>3, <2>5, <2>14
    <3> HIDE DEF dot
    <3> QED
      BY <2>10, <2>11, <2>12, <2>14, <3>1 DEF At
  <2> QED
    BY <2>13, <2>14
<1> HIDE DEF Here, Found
<1> DEFINE S == {n \in Nat : n <= Len(dotted) + 1 => IF n < m THEN Here(n) ELSE Found(n)}
<1>7. 0 \in S
  BY <1>1, <1>3, <1>5
<1>8. ASSUME NEW n \in Nat, n \in S PROVE n + 1 \in S
  <2>1. SUFFICES ASSUME n + 1 <= Len(dotted) + 1 PROVE IF n + 1 < m THEN Here(n + 1) ELSE Found(n + 1)
    OBVIOUS
  <2>2. CASE n < m
    BY <1>1, <1>6, <1>8, <2>1, <2>2 DEF m
  <2>3. CASE ~(n < m)
    <3>1. Found(n) /\ n + 1 \in 1 .. Len(dotted) + 1 /\ (n + 1) - 1 = n /\ ~(n + 1 < m)
      BY <1>1, <1>8, <2>1, <2>3
    <3>2. T[n + 1] = T[n]
      BY <1>4, <3>1 DEF Turn, Found
    <3> QED
      BY <3>1, <3>2 DEF Found
  <2> QED
    BY <2>2, <2>3
<1> HIDE DEF S
<1>9. Len(dotted) + 1 \in S
  BY <1>7, <1>8, SetInduction
<1> QED
  BY <1>1, <1>3, <1>9 DEF S, Found, T

(* What is found was joined: the loop's way so far are keys that begin the *)
(* path, with a dot behind each while it goes on.                          *)
Begins(tree, dotted, n, path, start) ==
  /\ path \in DOMAIN tree /\ Len(path) = n /\ start \in 1 .. Len(dotted) + 1
  /\ \E cut : /\ Cuts(path, dotted, cut) /\ cut[n] = start - 1
              /\ \A k \in 1 .. n : dotted[cut[k]] = Dot

Walks(tree, dotted, n, turn) ==
  /\ turn.state \in {"going", "found", "null"}
  /\ turn.state = "going" => Begins(tree, dotted, n, turn.cur, turn.start)
  /\ turn.state = "found" => turn.cur \in Named(tree, dotted)

(* A turn keeps this: the key it looked up is the one up to the next dot.  *)
LEMMA TurnWalks ==
  ASSUME NEW tree \in Documents, tree # Broken, NEW dotted, Len(dotted) \in Nat, NEW n \in Nat,
         NEW turn, Walks(tree, dotted, n, turn)
  PROVE  Walks(tree, dotted, n + 1, Turn(tree, dotted, turn))
<1>1. CASE turn.state # "going"
  BY <1>1 DEF Turn, Walks
<1>2. CASE turn.state = "going"
  <2> DEFINE path == turn.cur
             start == turn.start
             dot == FindDot(dotted, start)
             part == SubSeq(dotted, start, IF dot = 0 THEN Len(dotted) ELSE dot - 1)
             next == Append(path, part)
             end == IF dot = 0 THEN Len(dotted) + 1 ELSE dot
  <2>1. /\ path \in DOMAIN tree /\ Len(path) = n /\ start \in 1 .. Len(dotted) + 1
        /\ \E cut : /\ Cuts(path, dotted, cut) /\ cut[n] = start - 1
                    /\ \A k \in 1 .. n : dotted[cut[k]] = Dot
    BY <1>2 DEF Walks, Begins
  <2>2. Turn(tree, dotted, turn) = Looked(tree, dotted, turn)
    BY <1>2, <2>1 DEF Turn
  <2>3. CASE ~HasMember(tree, path, part)
    BY <2>2, <2>3 DEF Looked, At, Walks
  <2>4. CASE HasMember(tree, path, part)
    <3>1. Turn(tree, dotted, turn) = At(next, dot + 1, IF dot = 0 THEN "found" ELSE "going")
      BY <2>2, <2>4 DEF Looked
    <3>2. next \in DOMAIN tree
      BY <2>4 DEF HasMember
    <3>3. path \in Seq(Seq(STRING)) /\ next \in Seq(Seq(STRING))
      BY <2>1, <3>2, DocumentsAreTrees
    <3>4. PICK cut : /\ Cuts(path, dotted, cut) /\ cut[n] = start - 1
                     /\ \A k \in 1 .. n : dotted[cut[k]] = Dot
      BY <2>1
    <3>5. \/ dot = 0 /\ \A i \in start .. Len(dotted) : dotted[i] # Dot
          \/ /\ dot \in start .. Len(dotted) /\ dotted[dot] = Dot
             /\ \A i \in start .. dot - 1 : dotted[i] # Dot
      BY <2>1, NextDot
    <3> DEFINE cut2 == [k \in 0 .. n + 1 |-> IF k = n + 1 THEN end ELSE cut[k]]
    <3>6. /\ Len(next) = n + 1 /\ next[n + 1] = part /\ \A k \in 1 .. n : next[k] = path[k]
      <4> DEFINE T == Seq(STRING) \cup {part}
      <4>1. path \in Seq(T) /\ part \in T
        BY <3>3
      <4>2. Len(path) = n
        BY <2>1
      <4> HIDE DEF T, path, part
      <4>3. /\ Len(Append(path, part)) = Len(path) + 1 /\ Append(path, part)[Len(path) + 1] = part
            /\ \A k \in 1 .. Len(path) : Append(path, part)[k] = path[k]
        BY <4>1, AppendProperties
      <4> QED
        BY <4>2, <4>3
    <3>7. end \in start .. Len(dotted) + 1 /\ \A i \in start .. end - 1 : dotted[i] # Dot
      BY <2>1, <3>5
    <3>8. part = SubSeq(dotted, start, end - 1)
      <4> HIDE DEF path, start, next, dot
      <4>1. CASE dot = 0
        <5>1. end - 1 = Len(dotted)
          BY <4>1
        <5> QED
          BY <4>1, <5>1
      <4>2. CASE dot # 0
        <5>1. end = dot
          BY <4>2
        <5> QED
          BY <4>2, <5>1
      <4> QED
        BY <4>1, <4>2
    <3> HIDE DEF path, start, part, next, end, dot
    <3>9. cut2 \in [0 .. n + 1 -> 0 .. Len(dotted) + 1] /\ cut2[0] = 0
      BY <2>1, <3>4, <3>7 DEF Cuts
    <3>10. \A k \in 0 .. n : cut2[k] = cut[k]
      OBVIOUS
    <3>11. cut2[n + 1] = end /\ cut2[n] = start - 1
      BY <3>4
    <3> HIDE DEF cut2
    <3>12. ASSUME NEW k \in 1 .. n + 1
           PROVE  /\ cut2[k - 1] < cut2[k] /\ next[k] = SubSeq(dotted, cut2[k - 1] + 1, cut2[k] - 1)
                  /\ \A i \in cut2[k - 1] + 1 .. cut2[k] - 1 : dotted[i] # Dot
      <4>1. CASE k = n + 1
        <5>1. cut2[k - 1] = start - 1 /\ cut2[k] = end /\ k - 1 = n
          BY <3>11, <4>1
        <5>2. (start - 1) + 1 = start /\ start - 1 < end
          BY <2>1, <3>7
        <5> QED
          BY <3>6, <3>7, <3>8, <4>1, <5>1, <5>2
      <4>2. CASE k # n + 1
        <5>1. k \in 1 .. n /\ k \in 0 .. n /\ k - 1 \in 0 .. n
          BY <4>2
        <5>2. cut2[k] = cut[k] /\ cut2[k - 1] = cut[k - 1] /\ next[k] = path[k]
          BY <3>6, <3>10, <5>1
        <5>3. /\ cut[k - 1] < cut[k] /\ path[k] = SubSeq(dotted, cut[k - 1] + 1, cut[k] - 1)
              /\ \A i \in cut[k - 1] + 1 .. cut[k] - 1 : dotted[i] # Dot
          BY <2>1, <3>4, <5>1 DEF Cuts
        <5> QED
          BY <5>2, <5>3
      <4> QED
        BY <4>1, <4>2
    <3>13. Cuts(next, dotted, cut2)
      BY <3>6, <3>9, <3>12 DEF Cuts
    <3>14. CASE dot = 0
      <4>1. end = Len(dotted) + 1
        BY <3>14 DEF end
      <4>2. \A k \in 1 .. Len(next) : k < Len(next) => dotted[cut2[k]] = Dot
        BY <3>4, <3>6, <3>10
      <4>3. Joined(next, dotted)
        BY <3>6, <3>11, <3>13, <4>1, <4>2, JoinedCuts
      <4>4. next \in Named(tree, dotted)
        BY <3>2, <4>3 DEF Named
      <4> QED
        BY <3>1, <3>14, <4>4 DEF Walks, At
    <3>15. CASE dot # 0
      <4>1. end = dot /\ dot \in start .. Len(dotted) /\ dotted[dot] = Dot
        BY <3>5, <3>15 DEF end
      <4>2. \A k \in 1 .. n + 1 : dotted[cut2[k]] = Dot
        <5> TAKE k \in 1 .. n + 1
        <5>1. CASE k = n + 1
          BY <3>11, <4>1, <5>1
        <5>2. CASE k # n + 1
          BY <3>4, <3>10, <5>2
        <5> QED
          BY <5>1, <5>2
      <4>3. dot + 1 \in 1 .. Len(dotted) + 1 /\ cut2[n + 1] = (dot + 1) - 1
        BY <2>1, <3>11, <4>1
      <4>4. Begins(tree, dotted, n + 1, next, dot + 1)
        BY <3>2, <3>6, <3>13, <4>2, <4>3 DEF Begins
      <4> QED
        BY <3>1, <3>15, <4>4 DEF Walks, At
    <3> QED
      BY <3>14, <3>15
  <2> QED
    BY <2>3, <2>4
<1> QED
  BY <1>1, <1>2

(* A turn that goes on moves start, so the loop ends, and what it has then *)
(* found was joined.                                                       *)
LEMMA LoopWalks ==
  ASSUME NEW tree \in Documents, tree # Broken, NEW dotted, Len(dotted) \in Nat
  PROVE  LET end == Turns(tree, dotted)[Len(dotted) + 1]
         IN  end.state = "null" \/ (end.state = "found" /\ end.cur \in Named(tree, dotted))
<1> DEFINE T == Turns(tree, dotted)
           S == {n \in Nat : n <= Len(dotted) + 1 => Walks(tree, dotted, n, T[n]) /\
                                                     (T[n].state = "going" => n < T[n].start)}
<1>1. /\ T[0] = At(<<>>, 1, "going")
      /\ \A n \in 1 .. Len(dotted) + 1 : T[n] = Turn(tree, dotted, T[n - 1])
  BY TurnsEquation
<1> HIDE DEF T
<1>2. 0 \in S
  <2>1. <<>> \in DOMAIN tree
    BY DocumentsAreTrees
  <2> DEFINE cut == [k \in 0 .. 0 |-> 0]
  <2>2. Cuts(<<>>, dotted, cut) /\ cut[0] = 1 - 1 /\ \A k \in 1 .. 0 : dotted[cut[k]] = Dot
    BY DEF Cuts
  <2> HIDE DEF cut
  <2>3. Begins(tree, dotted, 0, <<>>, 1)
    BY <2>1, <2>2 DEF Begins
  <2>4. T[0].state = "going" /\ T[0].cur = <<>> /\ T[0].start = 1
    BY <1>1 DEF At
  <2> QED
    BY <2>3, <2>4 DEF Walks
<1>3. ASSUME NEW n \in Nat, n \in S PROVE n + 1 \in S
  <2>1. SUFFICES ASSUME n + 1 <= Len(dotted) + 1
                 PROVE  /\ Walks(tree, dotted, n + 1, T[n + 1])
                        /\ T[n + 1].state = "going" => n + 1 < T[n + 1].start
    OBVIOUS
  <2>2. Walks(tree, dotted, n, T[n]) /\ (T[n].state = "going" => n < T[n].start)
    BY <1>3, <2>1
  <2>3. T[n + 1] = Turn(tree, dotted, T[n])
    BY <1>1, <2>1
  <2>4. Walks(tree, dotted, n + 1, T[n + 1])
    BY <2>2, <2>3, TurnWalks
  <2>5. ASSUME T[n + 1].state = "going" PROVE n + 1 < T[n + 1].start
    <3>1. PICK cut : Cuts(T[n + 1].cur, dotted, cut) /\ cut[n + 1] = T[n + 1].start - 1
      BY <2>4, <2>5 DEF Walks, Begins
    <3>2. Len(T[n + 1].cur) = n + 1 /\ T[n + 1].start \in 1 .. Len(dotted) + 1
      BY <2>4, <2>5 DEF Walks, Begins
    <3>3. n + 1 <= cut[n + 1]
      BY <3>1, <3>2, CutsGrow
    <3> QED
      BY <3>1, <3>2, <3>3
  <2> QED
    BY <2>4, <2>5
<1> HIDE DEF S
<1>4. Len(dotted) + 1 \in S
  BY <1>2, <1>3, SetInduction
<1> DEFINE end == T[Len(dotted) + 1]
<1>5. Walks(tree, dotted, Len(dotted) + 1, end) /\ (end.state = "going" => Len(dotted) + 1 < end.start)
  BY <1>4 DEF S
<1> HIDE DEF end
<1>6. end.state # "going"
  BY <1>5 DEF Walks, Begins
<1>7. end.state = "null" \/ (end.state = "found" /\ end.cur \in Named(tree, dotted))
  BY <1>5, <1>6 DEF Walks
<1> QED
  BY <1>7 DEF end, T

(* resolve gives the node that the path names, which is one at most.       *)
LEMMA ResolveIsExact ==
  ASSUME NEW tree \in Documents, NEW dotted, Len(dotted) \in Nat
  PROVE  /\ \A x, y \in Named(tree, dotted) : x = y
         /\ Node(tree, dotted) = TheNode(tree, dotted)
<1>1. CASE tree = Broken
  <2>1. DOMAIN tree = {}
    BY <1>1 DEF Broken
  <2>2. Named(tree, dotted) = {}
    BY <2>1 DEF Named
  <2> QED
    BY <1>1, <2>2 DEF Node, TheNode
<1>2. CASE tree # Broken
  <2> DEFINE end == Turns(tree, dotted)[Len(dotted) + 1]
  <2>1. \A keys \in Named(tree, dotted) : end.cur = keys /\ end.state = "found"
    BY <1>2, JoinedIsFound DEF Named
  <2>2. end.state = "null" \/ (end.state = "found" /\ end.cur \in Named(tree, dotted))
    BY <1>2, LoopWalks
  <2>3. Node(tree, dotted) = IF end.state = "null" THEN nullptr ELSE tree[end.cur]
    BY <1>2 DEF Node, resolve
  <2> HIDE DEF end
  <2>4. CASE Named(tree, dotted) = {}
    BY <2>2, <2>3, <2>4 DEF TheNode
  <2>5. CASE Named(tree, dotted) # {}
    <3> DEFINE chosen == CHOOSE keys \in Named(tree, dotted) : TRUE
    <3>1. chosen \in Named(tree, dotted)
      BY <2>5
    <3>2. chosen = end.cur /\ end.state = "found"
      BY <2>1, <3>1
    <3>3. TheNode(tree, dotted) = tree[chosen]
      BY <2>5 DEF TheNode
    <3> HIDE DEF chosen
    <3> QED
      BY <2>1, <2>3, <3>2, <3>3
  <2> QED
    BY <2>1, <2>4, <2>5
<1> QED
  BY <1>1, <1>2

(* A path was given by Python, and the document is the one it asks about.  *)
TomlInv ==
  /\ document \in Documents /\ Len(key_path) \in Nat
  /\ PathsReachTheirNodes

(* Every accessor parses again and says what the node it walked to says.   *)
LEMMA TomlNextInv == ASSUME TomlInv, [TomlNext]_tomlVars PROVE TomlInv'
<1> DEFINE Getters == DOMAIN Retrieved
<1>1. Getters = {"get_int", "get_float", "get_bool", "get_string", "get_date", "get_time", "get_datetime"}
  BY DEF Retrieved
<1>2. \A key \in Paths : Len(key) \in Nat
  BY DocumentsAreTrees, LenProperties
<1> DEFINE N(key) == Node(document, key)
<1>3. \A key : Len(key) \in Nat =>
        /\ \A x, y \in Named(document, key) : x = y
        /\ N(key) = TheNode(document, key)
  BY ResolveIsExact DEF TomlInv
<1>4. ASSUME NEW key \in Paths, AskType(key) PROVE TomlInv'
  <2>1. document' = document /\ key_path' = key /\ answer'.call = "type_of" /\ answer'.said = N(key).type
    BY <1>4 DEF AskType, Answer, type_of
  <2>2. "type_of" \notin Getters
    BY <1>1
  <2> HIDE DEF Getters, N
  <2> QED
    BY <1>2, <1>3, <2>1, <2>2 DEF TomlInv, PathsReachTheirNodes, Getters
<1>5. ASSUME NEW key \in Paths, NEW getter \in Getters, AskValue(key, getter) PROVE TomlInv'
  <2>1. /\ document' = document /\ key_path' = key /\ answer'.call = getter
        /\ answer'.said = IF Retrieved[getter] \in N(key).as THEN N(key).type ELSE nullptr.type
    BY <1>5 DEF AskValue, Answer, Value
  <2>2. nullptr.type = "nullptr" /\ getter \notin {"type_of", "array", "table"}
    BY <1>1 DEF nullptr, Leaf, Node_, Element
  <2> HIDE DEF Getters, N
  <2> QED
    BY <1>2, <1>3, <2>1, <2>2 DEF TomlInv, PathsReachTheirNodes, Getters
<1>6. ASSUME NEW key \in Paths, AskArray(key) PROVE TomlInv'
  <2> DEFINE items == IF N(key).type = "array" THEN N(key).items ELSE <<>>
  <2>1. /\ document' = document /\ key_path' = key /\ answer'.call = "array"
        /\ answer'.said.size = IF N(key).type = "array" THEN Len(N(key).items) ELSE -1
        /\ answer'.said.types = [i \in DOMAIN items |-> items[i].type]
        /\ answer'.said.ints = {i \in DOMAIN items : "integer" \in items[i].as}
    BY <1>6 DEF AskArray, Answer, array_size, array_types, int_array, Elements
  <2>2. "array" \notin Getters
    BY <1>1
  <2>3. N(key).type = "array" => Len(N(key).items) \in Nat
    <3>1. N(key) = TheNode(document, key)
      BY <1>2, <1>3
    <3>2. CASE N(key) = nullptr
      BY <3>2 DEF nullptr, Leaf, Node_, Element
    <3>3. CASE N(key) # nullptr
      <4>1. PICK keys \in Named(document, key) : N(key) = document[keys]
        BY <3>1, <3>3 DEF TheNode
      <4>2. keys \in DOMAIN document
        BY DEF Named
      <4>3. document \in Documents \ {Broken}
        BY <4>2 DEF TomlInv, Broken
      <4> QED
        BY <4>1, <4>2, <4>3, DocumentsAreTrees, LenProperties
    <3> QED
      BY <3>2, <3>3
  <2> HIDE DEF Getters, N
  <2> QED
    BY <1>2, <1>3, <2>1, <2>2, <2>3 DEF TomlInv, PathsReachTheirNodes, Getters
<1>7. CASE AskTable
  <2>1. /\ document' = document /\ key_path' = <<>> /\ answer'.call = "table"
        /\ answer'.said.size = table_size(document) /\ answer'.said.keys = top_keys(document)
    BY <1>7 DEF AskTable, Answer
  <2>2. "table" \notin Getters /\ Len(<<>>) = 0
    BY <1>1
  <2>3. table_size(document) = -1 \/ table_size(document) = Cardinality(top_keys(document))
    BY DEF table_size
  <2> HIDE DEF Getters, N
  <2> QED
    BY <1>3, <2>1, <2>2, <2>3 DEF TomlInv, PathsReachTheirNodes, Getters
<1>8. CASE UNCHANGED tomlVars
  BY <1>8 DEF tomlVars, TomlInv, PathsReachTheirNodes
<1> QED
  BY <1>4, <1>5, <1>6, <1>7, <1>8 DEF TomlNext

(* PathsReachTheirNodes, for every tree of tables, however deep and        *)
(* whatever its keys, and every path.                                      *)
THEOREM PathsReachTheirNodesHolds == TomlSpec => []PathsReachTheirNodes
<1>1. TomlInit => TomlInv
  <2> SUFFICES ASSUME TomlInit PROVE TomlInv
    OBVIOUS
  <2>1. document \in Documents /\ key_path = <<>> /\ answer.call = "parse_ok"
    BY DEF TomlInit
  <2>2. "parse_ok" \notin DOMAIN Retrieved /\ Len(<<>>) = 0
    BY DEF Retrieved
  <2>3. \A x, y \in Named(document, key_path) : x = y
    BY <2>1, <2>2, ResolveIsExact
  <2> QED
    BY <2>1, <2>2, <2>3 DEF TomlInv, PathsReachTheirNodes
<1>2. TomlInv /\ [TomlNext]_tomlVars => TomlInv'
  BY TomlNextInv
<1>3. TomlInv => PathsReachTheirNodes
  BY DEF TomlInv
<1> QED
  BY <1>1, <1>2, <1>3, PTL DEF TomlSpec

-----------------------------------------------------------------------------
(* serialize_poc.cpp: a path is a non-empty sequence of places.            *)
Places == Nat \ {0}
IsPath(p) == p \in Seq(Places) /\ p # <<>>

(* What the moves of the walk make of a path.                              *)
LEMMA Moves ==
  ASSUME NEW p, IsPath(p)
  PROVE  LET n == Len(p) IN
         /\ n \in Places /\ DOMAIN p = 1 .. n /\ \A i \in 1 .. n : p[i] \in Places
         /\ IsPath(After(p)) /\ Len(After(p)) = n /\ After(p)[n] = p[n] + 1
         /\ \A i \in 1 .. n - 1 : After(p)[i] = p[i]
         /\ Caller(p) \in Seq(Places) /\ Len(Caller(p)) = n - 1 /\ \A i \in 1 .. n - 1 : Caller(p)[i] = p[i]
         /\ IsPath(Append(p, 1)) /\ Len(Append(p, 1)) = n + 1 /\ Append(p, 1)[n + 1] = 1
         /\ \A i \in 1 .. n : Append(p, 1)[i] = p[i]
<1> DEFINE n == Len(p)
<1>1. p \in Seq(Places) /\ n \in Places /\ DOMAIN p = 1 .. n
  <2>1. p \in Seq(Places) /\ p # <<>>
    BY DEF IsPath
  <2>2. n \in Nat \ {0}
    BY <2>1, EmptySeq
  <2> QED
    BY <2>1, <2>2, LenProperties DEF Places
<1>2. \A i \in 1 .. n : p[i] \in Places
  BY <1>1, ElementOfSeq
<1>3. n \in 1 .. n /\ 1 \in Places /\ p[n] + 1 \in Places
  <2>1. n \in 1 .. n
    BY <1>1 DEF Places
  <2> QED
    BY <1>2, <2>1 DEF Places
<1>4. /\ After(p) \in Seq(Places) /\ Len(After(p)) = n
      /\ \A j \in 1 .. n : After(p)[j] = IF j = n THEN p[n] + 1 ELSE p[j]
  <2>1. After(p) = [p EXCEPT ![n] = p[n] + 1]
    BY DEF After
  <2> HIDE DEF n
  <2>2. /\ [p EXCEPT ![n] = p[n] + 1] \in Seq(Places) /\ Len([p EXCEPT ![n] = p[n] + 1]) = Len(p)
        /\ \A j \in 1 .. Len(p) : [p EXCEPT ![n] = p[n] + 1][j] = IF j = n THEN p[n] + 1 ELSE p[j]
    BY <1>1, <1>3, ExceptSeq DEF n
  <2> QED
    BY <2>1, <2>2 DEF n
<1>5. /\ Caller(p) \in Seq(Places) /\ Len(Caller(p)) = n - 1 /\ \A i \in 1 .. n - 1 : Caller(p)[i] = p[i]
  <2>1. n - 1 \in Int /\ 1 \in Int /\ \A i \in 1 .. n - 1 : p[i] \in Places
    BY <1>1, <1>2 DEF Places
  <2> DEFINE c == SubSeq(p, 1, n - 1)
  <2>2. /\ c \in Seq(Places) /\ Len(c) = IF 1 <= n - 1 THEN (n - 1) - 1 + 1 ELSE 0
        /\ \A i \in 1 .. (n - 1) - 1 + 1 : c[i] = p[1 + i - 1]
    BY <2>1, SubSeqProperties
  <2>3. Caller(p) = c
    BY DEF Caller
  <2> HIDE DEF c, n
  <2> QED
    BY <1>1, <2>2, <2>3 DEF Places
<1>6. /\ Append(p, 1) \in Seq(Places) /\ Append(p, 1) # <<>> /\ Len(Append(p, 1)) = n + 1
      /\ Append(p, 1)[n + 1] = 1 /\ \A i \in 1 .. n : Append(p, 1)[i] = p[i]
  BY <1>1, <1>3, AppendProperties
<1>7. After(p) # <<>>
  BY <1>1, <1>4, EmptySeq DEF Places
<1> HIDE DEF n
<1>8. After(p)[n] = p[n] + 1 /\ \A i \in 1 .. n - 1 : After(p)[i] = p[i]
  BY <1>1, <1>3, <1>4 DEF Places
<1> QED
  BY <1>1, <1>2, <1>4, <1>5, <1>6, <1>7, <1>8 DEF IsPath, n

(* Paths that agree in length and places are one.                          *)
LEMMA SamePath ==
  ASSUME NEW p \in Seq(Places), NEW q \in Seq(Places), Len(p) = Len(q), \A i \in 1 .. Len(p) : p[i] = q[i]
  PROVE  p = q
BY SeqEqual

(* The walk stands at a field of an aggregate or behind the last of one,   *)
(* or has come to its end.                                                 *)
Stands(t, p) == p # <<>> => IsPath(p) /\ Caller(p) \in DOMAIN t /\ ~is_scalar(t[Caller(p)])

(* A field is nested in aggregates, in the places that they have.          *)
LEMMA Nested ==
  ASSUME NEW t \in Types, NEW p \in Fields(t)
  PROVE  /\ IsPath(p) /\ Caller(p) \in DOMAIN t /\ ~is_scalar(t[Caller(p)])
         /\ p[Len(p)] <= t[Caller(p)].fields /\ t[p].fields \in Nat /\ t[p].size \in Nat
         /\ is_scalar(t[p]) => t[p].fields = 0
<1>1. /\ p \in DOMAIN t /\ p # <<>> /\ p \in Seq(Nat \ {0}) /\ t[p].fields \in Nat /\ t[p].size \in Nat
      /\ is_scalar(t[p]) => t[p].fields = 0
  BY TypesAreTrees DEF Fields
<1>2. IsPath(p)
  BY <1>1 DEF IsPath, Places
<1>3. Len(p) \in 1 .. Len(p) /\ Len(p) - 1 \in 0 .. Len(p) /\ p[Len(p)] \in Nat \ {0}
  <2>1. Len(p) \in Places /\ \A i \in 1 .. Len(p) : p[i] \in Places
    BY <1>2, Moves
  <2>2. Len(p) \in 1 .. Len(p)
    BY <2>1 DEF Places
  <2> QED
    BY <2>1, <2>2 DEF Places
<1>4. Caller(p) \in DOMAIN t /\ p[Len(p)] <= t[Caller(p)].fields
  <2>1. \A n \in 1 .. Len(p) : SubSeq(p, 1, n - 1) \in DOMAIN t /\ p[n] <= t[SubSeq(p, 1, n - 1)].fields
    BY <1>1, TypesAreTrees
  <2> QED
    BY <1>3, <2>1 DEF Caller
<1>5. ~is_scalar(t[Caller(p)])
  <2>1. is_scalar(t[Caller(p)]) => t[Caller(p)].fields = 0
    BY <1>4, TypesAreTrees
  <2> QED
    BY <1>3, <1>4, <2>1
<1> QED
  BY <1>1, <1>2, <1>4, <1>5

(* Behind a field or an end of fields the walk stands in the same loop.    *)
LEMMA BehindStands ==
  ASSUME NEW t \in Types, NEW p, p # <<>>, Stands(t, p)
  PROVE  Stands(t, After(p)) /\ After(p) # <<>>
<1>1. IsPath(p) /\ Caller(p) \in DOMAIN t /\ ~is_scalar(t[Caller(p)])
  BY DEF Stands
<1>2. IsPath(After(p)) /\ Len(Caller(After(p))) = Len(p) - 1 /\ Len(p) \in Places
      /\ Caller(After(p)) \in Seq(Places) /\ Caller(p) \in Seq(Places) /\ Len(Caller(p)) = Len(p) - 1
      /\ \A i \in 1 .. Len(p) - 1 : Caller(After(p))[i] = Caller(p)[i]
  <2>1. IsPath(After(p)) /\ Len(After(p)) = Len(p) /\ Len(p) \in Places
        /\ \A i \in 1 .. Len(p) - 1 : After(p)[i] = p[i]
    BY <1>1, Moves
  <2>2. Caller(After(p)) \in Seq(Places) /\ Len(Caller(After(p))) = Len(After(p)) - 1
        /\ \A i \in 1 .. Len(After(p)) - 1 : Caller(After(p))[i] = After(p)[i]
    BY <2>1, Moves
  <2>3. Caller(p) \in Seq(Places) /\ Len(Caller(p)) = Len(p) - 1 /\ \A i \in 1 .. Len(p) - 1 : Caller(p)[i] = p[i]
    BY <1>1, Moves
  <2> QED
    BY <2>1, <2>2, <2>3
<1>3. Caller(After(p)) = Caller(p)
  BY <1>2, SamePath
<1> QED
  BY <1>1, <1>2, <1>3 DEF Stands, IsPath

(* A turn of the innermost loop, or its end, leaves the walk in a loop.    *)
LEMMA WalkStands ==
  ASSUME NEW t \in Types, NEW p, p # <<>>, Stands(t, p)
  PROVE  Stands(t, Walked(t, p))
<1>1. IsPath(p) /\ Caller(p) \in DOMAIN t /\ ~is_scalar(t[Caller(p)])
  BY DEF Stands
<1>2. CASE p \notin DOMAIN t
  <2>1. CASE Len(p) = 1
    BY <1>2, <2>1 DEF Walked, Returned, Stands
  <2>2. CASE Len(p) # 1
    <3>1. Len(p) \in Places /\ Len(Caller(p)) = Len(p) - 1
      BY <1>1, Moves
    <3>2. Caller(p) # <<>>
      BY <2>2, <3>1, EmptySeq DEF Places
    <3>3. Caller(p) \in Fields(t)
      BY <1>1, <3>2 DEF Fields
    <3>4. Stands(t, Caller(p))
      BY <3>3, Nested DEF Stands
    <3> QED
      BY <1>2, <2>2, <3>2, <3>4, BehindStands DEF Walked, Returned
  <2> QED
    BY <2>1, <2>2
<1>3. CASE p \in DOMAIN t /\ is_scalar(t[p])
  BY <1>3, BehindStands DEF Walked
<1>4. CASE p \in DOMAIN t /\ ~is_scalar(t[p])
  <2>1. Walked(t, p) = Append(p, 1)
    BY <1>4 DEF Walked
  <2>2. IsPath(Append(p, 1)) /\ Len(Append(p, 1)) = Len(p) + 1 /\ Len(p) \in Places
        /\ \A i \in 1 .. Len(p) : Append(p, 1)[i] = p[i]
    BY <1>1, Moves
  <2>3. Caller(Append(p, 1)) \in Seq(Places) /\ Len(Caller(Append(p, 1))) = Len(Append(p, 1)) - 1
        /\ \A i \in 1 .. Len(Append(p, 1)) - 1 : Caller(Append(p, 1))[i] = Append(p, 1)[i]
    BY <2>2, Moves
  <2>4. p \in Seq(Places) /\ Len(Caller(Append(p, 1))) = Len(p) /\ \A i \in 1 .. Len(p) : Caller(Append(p, 1))[i] = p[i]
    BY <1>1, <2>2, <2>3 DEF IsPath, Places
  <2>5. Caller(Append(p, 1)) = p
    BY <2>3, <2>4, SamePath
  <2> QED
    BY <1>4, <2>1, <2>2, <2>5 DEF Stands
<1> QED
  BY <1>2, <1>3, <1>4

(* The fields that the walk has passed when it stands at p: those before p *)
(* in the order of their places, and the aggregates p is nested in.        *)
Before(q, p) ==
  \/ \E k \in 1 .. Len(p) : k <= Len(q) /\ q[k] < p[k] /\ \A j \in 1 .. k - 1 : q[j] = p[j]
  \/ Len(q) < Len(p) /\ \A j \in 1 .. Len(q) : q[j] = p[j]

Passed(q, p) == p = <<>> \/ Before(q, p)

(* Behind a scalar field, that field is passed and no other is added.      *)
LEMMA PassedAfter ==
  ASSUME NEW t \in Types, NEW p \in Fields(t), is_scalar(t[p]), NEW q \in Fields(t)
  PROVE  Before(q, After(p)) <=> Before(q, p) \/ q = p
<1> DEFINE n == Len(p)
<1>1. IsPath(p) /\ IsPath(q)
  BY Nested
<1>2. /\ n \in Nat \ {0} /\ \A i \in 1 .. n : p[i] \in Nat
      /\ Len(After(p)) = n /\ After(p)[n] = p[n] + 1 /\ \A i \in 1 .. n - 1 : After(p)[i] = p[i]
  BY <1>1, Moves DEF Places
<1>3. Len(q) \in Nat \ {0} /\ \A i \in 1 .. Len(q) : q[i] \in Nat
  BY <1>1, Moves DEF Places
<1>4. ASSUME Len(q) >= n, \A j \in 1 .. n : q[j] = p[j] PROVE q = p
  <2>1. CASE Len(q) = n
    BY <1>1, <1>4, <2>1, SamePath DEF IsPath
  <2>2. CASE Len(q) # n
    <3>1. n + 1 \in 1 .. Len(q) /\ (n + 1) - 1 = n
      BY <1>2, <1>3, <1>4, <2>2
    <3>2. q[n + 1] <= t[SubSeq(q, 1, n)].fields
      BY <3>1, TypesAreTrees DEF Fields
    <3>3. SubSeq(q, 1, n) = p
      <4>1. \A i \in 1 .. n : q[i] \in Places
        BY <1>1, <1>3, <1>4, Moves
      <4> DEFINE s == SubSeq(q, 1, n)
      <4>2. s \in Seq(Places) /\ Len(s) = n /\ \A i \in 1 .. n : s[i] = q[i]
        BY <1>2, <4>1, SubSeqProperties
      <4> HIDE DEF s
      <4>3. s = p
        BY <1>1, <1>4, <4>2, SamePath DEF IsPath
      <4> QED
        BY <4>3 DEF s
    <3>4. t[p].fields = 0
      BY Nested
    <3>5. q[n + 1] \in Nat \ {0}
      BY <1>1, <3>1, Moves DEF Places
    <3>6. q[n + 1] <= 0
      BY <3>2, <3>3, <3>4
    <3> QED
      BY <3>5, <3>6
  <2> QED
    BY <2>1, <2>2
<1> HIDE DEF n
<1>5. ASSUME Before(q, p) PROVE Before(q, After(p))
  <2>1. CASE Len(q) < Len(p) /\ \A j \in 1 .. Len(q) : q[j] = p[j]
    BY <1>2, <1>3, <2>1 DEF Before, n
  <2>2. CASE \E k \in 1 .. Len(p) : k <= Len(q) /\ q[k] < p[k] /\ \A j \in 1 .. k - 1 : q[j] = p[j]
    <3>1. PICK k \in 1 .. n : k <= Len(q) /\ q[k] < p[k] /\ \A j \in 1 .. k - 1 : q[j] = p[j]
      BY <2>2 DEF n
    <3>2. q[k] < After(p)[k] /\ \A j \in 1 .. k - 1 : q[j] = After(p)[j]
      BY <1>2, <1>3, <3>1
    <3> QED
      BY <1>2, <3>1, <3>2 DEF Before
  <2> QED
    BY <1>5, <2>1, <2>2 DEF Before
<1>6. ASSUME q = p PROVE Before(q, After(p))
  <2>1. n \in 1 .. n /\ q[n] < After(p)[n] /\ \A j \in 1 .. n - 1 : q[j] = After(p)[j]
    BY <1>2, <1>6
  <2> QED
    BY <1>2, <1>6, <2>1 DEF Before, n
<1>7. ASSUME Before(q, After(p)) PROVE Before(q, p) \/ q = p
  <2>1. CASE Len(q) < n /\ \A j \in 1 .. Len(q) : q[j] = After(p)[j]
    BY <1>2, <1>3, <2>1 DEF Before, n
  <2>2. CASE \E k \in 1 .. n : k <= Len(q) /\ q[k] < After(p)[k] /\ \A j \in 1 .. k - 1 : q[j] = After(p)[j]
    <3>1. PICK k \in 1 .. n : k <= Len(q) /\ q[k] < After(p)[k] /\ \A j \in 1 .. k - 1 : q[j] = After(p)[j]
      BY <2>2
    <3>2. \A j \in 1 .. k - 1 : q[j] = p[j]
      BY <1>2, <3>1
    <3>3. CASE q[k] < p[k]
      BY <3>1, <3>2, <3>3 DEF Before, n
    <3>4. CASE ~(q[k] < p[k])
      <4>1. k = n /\ q[k] = p[k] /\ Len(q) >= n
        BY <1>2, <1>3, <3>1, <3>4
      <4>2. \A j \in 1 .. n : q[j] = p[j]
        BY <1>2, <3>2, <4>1
      <4> QED
        BY <1>4, <4>1, <4>2
    <3> QED
      BY <3>3, <3>4
  <2> QED
    BY <1>2, <1>7, <2>1, <2>2 DEF Before
<1> QED
  BY <1>5, <1>6, <1>7

(* Inside a nested aggregate, that aggregate is passed and no other field. *)
LEMMA PassedInto ==
  ASSUME NEW t \in Types, NEW p \in Fields(t), NEW q \in Fields(t)
  PROVE  Before(q, Append(p, 1)) <=> Before(q, p) \/ q = p
<1> DEFINE n == Len(p)
           a == Append(p, 1)
<1>1. IsPath(p) /\ IsPath(q)
  BY Nested
<1>2. /\ n \in Nat \ {0} /\ \A i \in 1 .. n : p[i] \in Nat
      /\ Len(a) = n + 1 /\ a[n + 1] = 1 /\ \A i \in 1 .. n : a[i] = p[i]
  BY <1>1, Moves DEF Places
<1>3. Len(q) \in Nat \ {0} /\ \A i \in 1 .. Len(q) : q[i] \in Nat \ {0}
  BY <1>1, Moves DEF Places
<1>4. ASSUME Len(q) = n, \A j \in 1 .. n : q[j] = p[j] PROVE q = p
  BY <1>1, <1>4, SamePath DEF IsPath
<1> HIDE DEF n, a
<1>5. ASSUME Before(q, p) PROVE Before(q, a)
  <2>1. CASE Len(q) < Len(p) /\ \A j \in 1 .. Len(q) : q[j] = p[j]
    BY <1>2, <1>3, <2>1 DEF Before, n
  <2>2. CASE \E k \in 1 .. Len(p) : k <= Len(q) /\ q[k] < p[k] /\ \A j \in 1 .. k - 1 : q[j] = p[j]
    <3>1. PICK k \in 1 .. n : k <= Len(q) /\ q[k] < p[k] /\ \A j \in 1 .. k - 1 : q[j] = p[j]
      BY <2>2 DEF n
    <3>2. k \in 1 .. Len(a) /\ q[k] < a[k] /\ \A j \in 1 .. k - 1 : q[j] = a[j]
      BY <1>2, <1>3, <3>1
    <3> QED
      BY <3>1, <3>2 DEF Before
  <2> QED
    BY <1>5, <2>1, <2>2 DEF Before
<1>6. ASSUME q = p PROVE Before(q, a)
  BY <1>2, <1>6 DEF Before, n
<1>7. ASSUME Before(q, a) PROVE Before(q, p) \/ q = p
  <2>1. CASE Len(q) < Len(a) /\ \A j \in 1 .. Len(q) : q[j] = a[j]
    <3>1. Len(q) <= n /\ \A j \in 1 .. Len(q) : q[j] = p[j]
      BY <1>2, <1>3, <2>1
    <3> QED
      BY <1>2, <1>3, <1>4, <3>1 DEF Before, n
  <2>2. CASE \E k \in 1 .. Len(a) : k <= Len(q) /\ q[k] < a[k] /\ \A j \in 1 .. k - 1 : q[j] = a[j]
    <3>1. PICK k \in 1 .. Len(a) : k <= Len(q) /\ q[k] < a[k] /\ \A j \in 1 .. k - 1 : q[j] = a[j]
      BY <2>2
    <3>2. k \in 1 .. n
      <4>1. q[k] \in Nat \ {0} /\ k \in 1 .. n + 1
        BY <1>2, <1>3, <3>1
      <4>2. k # n + 1
        BY <1>2, <3>1, <4>1
      <4> QED
        BY <1>2, <4>1, <4>2
    <3>3. q[k] < p[k] /\ \A j \in 1 .. k - 1 : q[j] = p[j]
      BY <1>2, <3>1, <3>2
    <3> QED
      BY <3>1, <3>2, <3>3 DEF Before, n
  <2> QED
    BY <1>7, <2>1, <2>2 DEF Before
<1> QED
  BY <1>5, <1>6, <1>7 DEF a

(* Behind the last field of a nested aggregate there is none of it left.   *)
LEMMA PassedReturned ==
  ASSUME NEW t \in Types, NEW p, p # <<>>, Stands(t, p), p \notin DOMAIN t, NEW q \in Fields(t)
  PROVE  Passed(q, Returned(p)) <=> Before(q, p)
<1> DEFINE n == Len(p)
           c == Caller(p)
<1>1. IsPath(p) /\ c \in DOMAIN t /\ IsPath(q) /\ q \in DOMAIN t
  BY Nested DEF Stands, Fields
<1>2. /\ n \in Nat \ {0} /\ \A i \in 1 .. n : p[i] \in Nat \ {0}
      /\ c \in Seq(Places) /\ Len(c) = n - 1 /\ \A i \in 1 .. n - 1 : c[i] = p[i]
  BY <1>1, Moves DEF Places
<1>3. Len(q) \in Nat \ {0} /\ \A i \in 1 .. Len(q) : q[i] \in Nat \ {0}
  BY <1>1, Moves DEF Places
<1>4. ASSUME Len(q) >= n, \A j \in 1 .. n - 1 : q[j] = p[j] PROVE q[n] < p[n]
  <2>1. SubSeq(q, 1, n - 1) = c
    <3>1. \A i \in 1 .. n - 1 : q[i] \in Places
      BY <1>2, <1>3, <1>4 DEF Places
    <3> DEFINE s == SubSeq(q, 1, n - 1)
    <3>2. s \in Seq(Places) /\ Len(s) = IF 1 <= n - 1 THEN n - 1 - 1 + 1 ELSE 0
      BY <1>2, <3>1, SubSeqProperties
    <3>3. \A i \in 1 .. n - 1 : s[i] = q[i]
      <4>1. \A i \in 1 .. n - 1 - 1 + 1 : s[i] = q[1 + i - 1]
        BY <1>2, <3>1, SubSeqProperties
      <4> HIDE DEF s, n
      <4> QED
        BY <1>2, <4>1
    <3> HIDE DEF s, n, c
    <3>4. Len(s) = Len(c) /\ \A i \in 1 .. Len(s) : s[i] = c[i]
      BY <1>2, <1>4, <3>2, <3>3
    <3>5. s = c
      BY <1>2, <3>2, <3>4, SamePath
    <3> QED
      BY <3>5 DEF s
  <2>2. n \in 1 .. Len(q)
    BY <1>2, <1>3, <1>4
  <2>3. q[n] <= t[c].fields
    <3>1. \A k \in 1 .. Len(q) : q[k] <= t[SubSeq(q, 1, k - 1)].fields
      BY <1>1, TypesAreTrees
    <3> HIDE DEF c, n
    <3> QED
      BY <2>1, <2>2, <3>1
  <2>4. p[n] \notin 1 .. t[c].fields
    <3>1. SUFFICES ASSUME p[n] \in 1 .. t[c].fields PROVE FALSE
      OBVIOUS
    <3>2. Append(c, p[n]) \in DOMAIN t
      BY <1>1, <3>1, TypesAreTrees
    <3>3. p[n] \in Places
      BY <1>2 DEF Places
    <3> DEFINE a == Append(c, p[n])
    <3>4. a \in Seq(Places) /\ Len(a) = Len(c) + 1 /\ a[Len(c) + 1] = p[n] /\ \A i \in 1 .. Len(c) : a[i] = c[i]
      BY <1>2, <3>3, AppendProperties
    <3> HIDE DEF a, c, n
    <3>5. Len(a) = n /\ \A i \in 1 .. n : a[i] = p[i]
      BY <1>2, <3>4
    <3>6. a = p
      BY <1>1, <3>4, <3>5, SamePath DEF IsPath, n
    <3> QED
      BY <3>2, <3>6 DEF a
  <2>5. t[c].fields \in Nat /\ p[n] \in Nat \ {0} /\ q[n] \in Nat \ {0}
    BY <1>1, <1>2, <1>3, <2>2, TypesAreTrees
  <2> HIDE DEF n, c
  <2> QED
    BY <2>3, <2>4, <2>5
<1>5. CASE n = 1
  <2>1. Returned(p) = <<>>
    BY <1>5 DEF Returned
  <2>2. q[1] < p[1] /\ 1 <= Len(q) /\ 1 \in 1 .. Len(p)
    BY <1>2, <1>3, <1>4, <1>5
  <2>3. Before(q, p)
    BY <2>2 DEF Before
  <2> QED
    BY <2>1, <2>3 DEF Passed
<1>6. CASE n # 1
  <2> DEFINE a == After(c)
             m == n - 1
  <2>1. Returned(p) = a
    BY <1>6 DEF Returned
  <2>2. IsPath(c)
    BY <1>2, <1>6, EmptySeq DEF IsPath
  <2>3. /\ m \in Nat \ {0} /\ m + 1 = n /\ IsPath(a) /\ Len(a) = m /\ a[m] = p[m] + 1
        /\ \A i \in 1 .. m - 1 : a[i] = p[i]
    <3>1. IsPath(a) /\ Len(a) = Len(c) /\ a[Len(c)] = c[Len(c)] + 1 /\ \A i \in 1 .. Len(c) - 1 : a[i] = c[i]
      BY <2>2, Moves
    <3>2. m \in Nat \ {0} /\ m + 1 = n /\ Len(c) = m /\ m \in 1 .. n - 1
      BY <1>2, <1>6
    <3> HIDE DEF a, c
    <3> QED
      BY <1>2, <3>1, <3>2
  <2> HIDE DEF a, m, n, c
  <2>4. ASSUME Before(q, p) PROVE Before(q, a)
    <3>1. CASE Len(q) < n /\ \A j \in 1 .. Len(q) : q[j] = p[j]
      <4>1. CASE Len(q) = m
        <5>1. m \in 1 .. Len(a) /\ m <= Len(q) /\ q[m] < a[m] /\ \A j \in 1 .. m - 1 : q[j] = a[j]
          BY <1>2, <1>3, <2>3, <3>1, <4>1
        <5> QED
          BY <5>1 DEF Before
      <4>2. CASE Len(q) # m
        <5>1. Len(q) < Len(a) /\ \A j \in 1 .. Len(q) : q[j] = a[j]
          BY <1>2, <1>3, <2>3, <3>1, <4>2
        <5> QED
          BY <5>1 DEF Before
      <4> QED
        BY <4>1, <4>2
    <3>2. CASE \E k \in 1 .. n : k <= Len(q) /\ q[k] < p[k] /\ \A j \in 1 .. k - 1 : q[j] = p[j]
      <4>1. PICK k \in 1 .. n : k <= Len(q) /\ q[k] < p[k] /\ \A j \in 1 .. k - 1 : q[j] = p[j]
        BY <3>2
      <4>2. CASE k = n
        <5>1. m \in 1 .. Len(a) /\ m <= Len(q) /\ q[m] < a[m] /\ \A j \in 1 .. m - 1 : q[j] = a[j]
          BY <1>2, <1>3, <2>3, <4>1, <4>2
        <5> QED
          BY <5>1 DEF Before
      <4>3. CASE k # n
        <5>1. k \in 1 .. Len(a) /\ q[k] < a[k] /\ \A j \in 1 .. k - 1 : q[j] = a[j]
          BY <1>2, <1>3, <2>3, <4>1, <4>3
        <5> QED
          BY <4>1, <5>1 DEF Before
      <4> QED
        BY <4>2, <4>3
    <3> QED
      BY <2>4, <3>1, <3>2 DEF Before, n
  <2>5. ASSUME Before(q, a) PROVE Before(q, p)
    <3>1. CASE Len(q) < Len(a) /\ \A j \in 1 .. Len(q) : q[j] = a[j]
      <4>1. Len(q) < n /\ \A j \in 1 .. Len(q) : q[j] = p[j]
        BY <1>2, <1>3, <2>3, <3>1
      <4> QED
        BY <4>1 DEF Before, n
    <3>2. CASE \E k \in 1 .. Len(a) : k <= Len(q) /\ q[k] < a[k] /\ \A j \in 1 .. k - 1 : q[j] = a[j]
      <4>1. PICK k \in 1 .. m : k <= Len(q) /\ q[k] < a[k] /\ \A j \in 1 .. k - 1 : q[j] = a[j]
        BY <2>3, <3>2
      <4>2. \A j \in 1 .. k - 1 : q[j] = p[j]
        BY <2>3, <4>1
      <4>3. CASE q[k] < p[k]
        <5>1. k \in 1 .. n
          BY <2>3, <4>1
        <5> QED
          BY <4>1, <4>2, <4>3, <5>1 DEF Before, n
      <4>4. CASE ~(q[k] < p[k])
        <5>1. k = m /\ q[m] = p[m] /\ m <= Len(q)
          BY <1>2, <1>3, <2>3, <4>1, <4>4
        <5>2. \A j \in 1 .. n - 1 : q[j] = p[j]
          BY <2>3, <4>2, <5>1
        <5>3. CASE Len(q) = m
          BY <1>2, <2>3, <5>2, <5>3 DEF Before, n
        <5>4. CASE Len(q) # m
          <6>1. n <= Len(q)
            BY <1>3, <2>3, <5>1, <5>4
          <6>2. q[n] < p[n]
            BY <1>4, <5>2, <6>1
          <6>3. n \in 1 .. n
            BY <1>2
          <6> QED
            BY <5>2, <6>1, <6>2, <6>3 DEF Before, n
        <5> QED
          BY <5>3, <5>4
      <4> QED
        BY <4>3, <4>4
    <3> QED
      BY <2>5, <3>1, <3>2 DEF Before
  <2>6. a # <<>>
    BY <2>3 DEF IsPath
  <2> QED
    BY <2>1, <2>4, <2>5, <2>6 DEF Passed
<1> QED
  BY <1>5, <1>6

(* A step of the walk passes the field it stands at, and no other.         *)
LEMMA WalkPasses ==
  ASSUME NEW t \in Types, NEW p, p # <<>>, Stands(t, p), NEW q \in Fields(t)
  PROVE  Passed(q, Walked(t, p)) <=> Passed(q, p) \/ q = p
<1>1. CASE p \notin DOMAIN t
  <2>1. q # p
    BY <1>1 DEF Fields
  <2> QED
    BY <1>1, <2>1, PassedReturned DEF Walked, Passed
<1>2. CASE p \in DOMAIN t
  <2>1. p \in Fields(t)
    BY <1>2 DEF Fields
  <2>2. After(p) # <<>> /\ Append(p, 1) # <<>>
    BY <2>1, Nested, Moves DEF IsPath
  <2> QED
    BY <1>2, <2>1, <2>2, PassedAfter, PassedInto DEF Walked, Passed
<1> QED
  BY <1>1, <1>2

(* The walk begins with no field passed.                                   *)
LEMMA WalkBegins ==
  ASSUME NEW t \in Types
  PROVE  Stands(t, <<1>>) /\ \A q \in Fields(t) : ~Passed(q, <<1>>)
<1>1. <<1>> \in Seq(Places) /\ <<1>> # <<>> /\ Len(<<1>>) = 1 /\ <<1>>[1] = 1
  BY DEF Places
<1>2. IsPath(<<1>>)
  BY <1>1 DEF IsPath
<1>3. Caller(<<1>>) = <<>>
  <2>1. Caller(<<1>>) \in Seq(Places) /\ Len(Caller(<<1>>)) = 0
    BY <1>1, <1>2, Moves
  <2> QED
    BY <2>1, EmptySeq
<1>4. <<>> \in DOMAIN t /\ ~is_scalar(t[<<>>])
  BY TypesAreTrees
<1>5. ASSUME NEW q \in Fields(t) PROVE ~Before(q, <<1>>)
  <2>1. Len(q) \in Nat \ {0} /\ q[1] \in Nat \ {0}
    <3>1. IsPath(q)
      BY Nested
    <3>2. Len(q) \in Nat \ {0} /\ \A i \in 1 .. Len(q) : q[i] \in Nat \ {0}
      BY <3>1, Moves DEF Places
    <3> QED
      BY <3>2
  <2> QED
    BY <1>1, <2>1 DEF Before
<1> QED
  BY <1>1, <1>2, <1>3, <1>4, <1>5 DEF Stands, Passed

(* Reading is a recursive function too.                                    *)
ReadingFrom(text, n, f) == IF n = 0 THEN Start ELSE Accepted(f[n - 1], text[n])

IsReading(text, f) == f = [n \in 0 .. Len(text) |-> ReadingFrom(text, n, f)]

(* There is a function that satisfies the equation of Reading, by          *)
(* induction over how much of the text is read.                            *)
LEMMA ReadingExists ==
  ASSUME NEW text, Len(text) \in Nat
  PROVE  \E f : IsReading(text, f)
<1> DEFINE Partial(k, f) == f = [n \in 0 .. k |-> ReadingFrom(text, n, f)]
           S == {k \in Nat : \E f : Partial(k, f)}
<1>1. 0 \in S
  <2> DEFINE f == [n \in 0 .. 0 |-> Start]
  <2>1. Partial(0, f)
    BY DEF ReadingFrom
  <2> QED
    BY <2>1
<1>2. ASSUME NEW k \in Nat, k \in S PROVE k + 1 \in S
  <2>1. PICK f : Partial(k, f)
    BY <1>2
  <2> DEFINE g == [n \in 0 .. k + 1 |-> IF n = k + 1 THEN Accepted(f[k], text[n]) ELSE f[n]]
  <2>2. ASSUME NEW n \in 0 .. k + 1 PROVE g[n] = ReadingFrom(text, n, g)
    <3>1. CASE n = k + 1
      <4>1. n # 0 /\ n - 1 = k /\ k \in 0 .. k + 1 /\ k # k + 1
        BY <3>1
      <4>2. g[n] = Accepted(f[k], text[n]) /\ g[n - 1] = f[k]
        BY <3>1, <4>1
      <4> QED
        BY <4>1, <4>2 DEF ReadingFrom
    <3>2. CASE n # k + 1
      <4>1. n \in 0 .. k /\ g[n] = f[n]
        BY <3>2
      <4>2. f[n] = ReadingFrom(text, n, f)
        BY <2>1, <4>1
      <4>3. n # 0 => n - 1 \in 0 .. k + 1 /\ n - 1 # k + 1
        BY <4>1
      <4>4. n # 0 => g[n - 1] = f[n - 1]
        BY <4>3
      <4> QED
        BY <4>1, <4>2, <4>4 DEF ReadingFrom
    <3> QED
      BY <3>1, <3>2
  <2>3. Partial(k + 1, g)
    BY <2>2
  <2> HIDE DEF g, Partial
  <2> QED
    BY <2>3
<1> HIDE DEF S
<1>3. Len(text) \in S
  BY <1>1, <1>2, SetInduction
<1> QED
  BY <1>3 DEF S, IsReading

(* So that the reader begins at Start and goes on token by token.          *)
LEMMA ReadingEquation ==
  ASSUME NEW text, Len(text) \in Nat
  PROVE  /\ Reading(text)[0] = Start
         /\ \A n \in 1 .. Len(text) : Reading(text)[n] = Accepted(Reading(text)[n - 1], text[n])
<1>1. \E f : IsReading(text, f)
  BY ReadingExists
<1>2. IsReading(text, Reading(text))
  BY <1>1, Zenon DEF Reading, ReadingFrom, IsReading
<1>3. \A n \in 0 .. Len(text) : Reading(text)[n] = ReadingFrom(text, n, Reading(text))
  BY <1>2, Zenon DEF IsReading
<1> QED
  BY <1>3 DEF ReadingFrom

(* What a reader knows of a text it has read.                              *)
Known(text) == Reading(text)[Len(text)]

(* What a reader knows of a text with one token more.                      *)
LEMMA ReadOn ==
  ASSUME NEW T, NEW text \in Seq(T), NEW token \in T
  PROVE  Append(text, token) \in Seq(T) /\ Known(Append(text, token)) = Accepted(Known(text), token)
<1> DEFINE more == Append(text, token)
           R == Reading(text)
           Q == Reading(more)
           n == Len(text)
<1>1. n \in Nat /\ more \in Seq(T) /\ Len(more) = n + 1 /\ more[n + 1] = token /\ \A i \in 1 .. n : more[i] = text[i]
  BY AppendProperties, LenProperties
<1>2. R[0] = Start /\ \A i \in 1 .. n : R[i] = Accepted(R[i - 1], text[i])
  BY <1>1, ReadingEquation
<1>3. Q[0] = Start /\ \A i \in 1 .. Len(more) : Q[i] = Accepted(Q[i - 1], more[i])
  <2>1. Len(more) \in Nat
    BY <1>1
  <2> HIDE DEF more
  <2> QED
    BY <2>1, ReadingEquation
<1> HIDE DEF R, Q, n, more
<1> DEFINE S == {k \in Nat : k <= n => Q[k] = R[k]}
<1>4. 0 \in S
  BY <1>2, <1>3
<1>5. ASSUME NEW k \in Nat, k \in S PROVE k + 1 \in S
  <2>1. SUFFICES ASSUME k + 1 <= n PROVE Q[k + 1] = R[k + 1]
    OBVIOUS
  <2>2. k + 1 \in 1 .. n /\ k + 1 \in 1 .. Len(more) /\ (k + 1) - 1 = k /\ k <= n
    BY <1>1, <2>1
  <2>3. Q[k] = R[k] /\ more[k + 1] = text[k + 1]
    BY <1>1, <1>5, <2>2
  <2>4. Q[k + 1] = Accepted(Q[k], more[k + 1]) /\ R[k + 1] = Accepted(R[k], text[k + 1])
    BY <1>2, <1>3, <2>2
  <2> QED
    BY <2>3, <2>4
<1> HIDE DEF S
<1>6. n \in S
  BY <1>1, <1>4, <1>5, SetInduction
<1>7. Q[n] = R[n]
  BY <1>1, <1>6 DEF S
<1>8. Q[n + 1] = Accepted(Q[n], token)
  <2>1. n + 1 \in 1 .. Len(more) /\ (n + 1) - 1 = n
    BY <1>1
  <2> QED
    BY <1>1, <1>3, <2>1
<1> QED
  BY <1>1, <1>7, <1>8 DEF Known, R, Q, n, more

(* What the reader makes of each token that it wants.                      *)
LEMMA Accepts ==
  ASSUME NEW r, NEW token
  PROVE  /\ r.want = "object" /\ token = "{" => Accepted(r, token) = Reader(<<1>>, "first", "none", r.members)
         /\ r.want \in {"first", "more"} /\ token = "}" => Accepted(r, token) = Closed(r)
         /\ r.want = "more" /\ token = "," => Accepted(r, token) = Reader(After(r.path), "name", "none", r.members)
         /\ r.want \in {"first", "name"} /\ token \notin Punctuation =>
              Accepted(r, token) = Reader(r.path, "colon", token, r.members)
         /\ r.want = "colon" /\ token = ":" => Accepted(r, token) = Reader(r.path, "value", r.name, r.members)
         /\ r.want = "value" /\ token = "{" =>
              Accepted(r, token) = Reader(Append(r.path, 1), "first", "none", With(r.members, r.path, <<r.name, "object">>))
         /\ r.want = "value" /\ token \notin Punctuation =>
              Accepted(r, token) = Reader(r.path, "more", "none", With(r.members, r.path, <<r.name, token>>))
BY DEF Accepted, Punctuation

-----------------------------------------------------------------------------
(* What of an object a reader of its text has read when the walk stands at *)
(* a path.                                                                 *)
Told(t, o, p) == <<t[p].name, IF is_scalar(t[p]) THEN TextOf[o[p]] ELSE "object">>
ToldSoFar(t, o, p) == [q \in {q \in Fields(t) : Passed(q, p)} |-> Told(t, o, q)]

(* What a text is made of.                                                 *)
Tokens(t) == Punctuation \cup {t[p].name : p \in DOMAIN t} \cup {TextOf[s] : s \in Scalars}

(* The reader of the text so far is in the object that to_json is in: the  *)
(* flag of each call tells whether it has read a member of that object, and *)
(* it has read each field that the walk has passed.                        *)
JsonInv ==
  /\ out \in Seq(Tokens(type)) /\ first \in Seq(BOOLEAN)
  /\ Known(out).members = ToldSoFar(type, obj, at)
  /\ at = <<>> => Known(out).want = "end"
  /\ at # <<>> =>
       /\ Len(first) = Len(at) /\ \A i \in 1 .. Len(at) - 1 : first[i] = FALSE
       /\ first[Len(at)] = TRUE => Known(out).want = "first" /\ Known(out).path = at
       /\ first[Len(at)] = FALSE =>
            Known(out).want = "more" /\ IsPath(Known(out).path) /\ After(Known(out).path) = at

(* A step of the walk adds to what is told the field it stood at, if any.  *)
LEMMA ToldNext ==
  ASSUME NEW t \in Types, NEW o, NEW p, p # <<>>, Stands(t, p)
  PROVE  /\ p \in Fields(t) => ToldSoFar(t, o, Walked(t, p)) = With(ToldSoFar(t, o, p), p, Told(t, o, p))
         /\ p \notin Fields(t) => ToldSoFar(t, o, Walked(t, p)) = ToldSoFar(t, o, p)
<1> DEFINE D == {q \in Fields(t) : Passed(q, p)}
           E == {q \in Fields(t) : Passed(q, Walked(t, p))}
<1>1. \A q \in Fields(t) : Passed(q, Walked(t, p)) <=> Passed(q, p) \/ q = p
  BY WalkPasses
<1>2. p \notin Fields(t) => E = D
  BY <1>1
<1>3. p \in Fields(t) => E = D \cup {p}
  BY <1>1
<1>4. ToldSoFar(t, o, p) = [q \in D |-> Told(t, o, q)] /\ ToldSoFar(t, o, Walked(t, p)) = [q \in E |-> Told(t, o, q)]
  BY DEF ToldSoFar
<1> HIDE DEF D, E
<1>5. With([q \in D |-> Told(t, o, q)], p, Told(t, o, p)) = [q \in D \cup {p} |-> Told(t, o, q)]
  BY DEF With
<1> QED
  BY <1>2, <1>3, <1>4, <1>5

(* first of each call: the innermost one is set, dropped or joined by that *)
(* of a call inside.                                                       *)
LEMMA Flags ==
  ASSUME NEW T, NEW s \in Seq(T), Len(s) \in Nat \ {0}, NEW e \in T, NEW f \in T
  PROVE  LET n == Len(s)
             set == [s EXCEPT ![n] = e]
         IN  /\ set \in Seq(T) /\ Len(set) = n /\ set[n] = e /\ \A i \in 1 .. n - 1 : set[i] = s[i]
             /\ Caller(s) \in Seq(T) /\ Len(Caller(s)) = n - 1 /\ \A i \in 1 .. n - 1 : Caller(s)[i] = s[i]
             /\ Append(set, f) \in Seq(T) /\ Len(Append(set, f)) = n + 1 /\ Append(set, f)[n + 1] = f
             /\ \A i \in 1 .. n - 1 : Append(set, f)[i] = s[i]
             /\ Append(set, f)[n] = e
<1> DEFINE n == Len(s)
           set == [s EXCEPT ![n] = e]
           more == Append(set, f)
<1>1. n \in Nat \ {0} /\ n \in 1 .. n
  OBVIOUS
<1>2. set \in Seq(T) /\ Len(set) = n /\ \A j \in 1 .. n : set[j] = IF j = n THEN e ELSE s[j]
  <2> HIDE DEF n
  <2> QED
    BY <1>1, ExceptSeq DEF n
<1> HIDE DEF set
<1>3. more \in Seq(T) /\ Len(more) = Len(set) + 1 /\ more[Len(set) + 1] = f /\ \A i \in 1 .. Len(set) : more[i] = set[i]
  BY <1>2, AppendProperties
<1> HIDE DEF more
<1>4. Caller(s) \in Seq(T) /\ Len(Caller(s)) = n - 1 /\ \A i \in 1 .. n - 1 : Caller(s)[i] = s[i]
  <2>1. n - 1 \in Int /\ 1 \in Int /\ \A i \in 1 .. n - 1 : s[i] \in T
    BY <1>1, ElementOfSeq
  <2> DEFINE c == SubSeq(s, 1, n - 1)
  <2>2. /\ c \in Seq(T) /\ Len(c) = IF 1 <= n - 1 THEN (n - 1) - 1 + 1 ELSE 0
        /\ \A i \in 1 .. (n - 1) - 1 + 1 : c[i] = s[1 + i - 1]
    BY <2>1, SubSeqProperties
  <2>3. Caller(s) = c
    BY DEF Caller
  <2> HIDE DEF c, n
  <2> QED
    BY <1>1, <2>2, <2>3
<1> HIDE DEF n
<1>5. set[n] = e /\ \A i \in 1 .. n - 1 : set[i] = s[i]
  BY <1>1, <1>2
<1>6. Len(more) = n + 1 /\ more[n + 1] = f /\ more[n] = e /\ \A i \in 1 .. n - 1 : more[i] = s[i]
  BY <1>1, <1>2, <1>3, <1>5
<1> QED
  BY <1>2, <1>3, <1>4, <1>5, <1>6 DEF n, set, more

(* What is left of the flags when a call of to_json returns.               *)
LEMMA OuterFlags ==
  ASSUME NEW T, NEW s \in Seq(T), Len(s) \in Nat \ {0}
  PROVE  Caller(s) \in Seq(T) /\ Len(Caller(s)) = Len(s) - 1 /\ \A i \in 1 .. Len(s) - 1 : Caller(s)[i] = s[i]
<1>1. Len(s) \in 1 .. Len(s)
  OBVIOUS
<1>2. s[Len(s)] \in T
  BY <1>1, ElementOfSeq
<1> QED
  BY <1>2, Flags

(* The fields of a reader are what it was made of.                         *)
LEMMA ReaderIs ==
  ASSUME NEW path, NEW want, NEW name, NEW members, NEW r, r = Reader(path, want, name, members)
  PROVE  r.path = path /\ r.want = want /\ r.name = name /\ r.members = members
BY DEF Reader

(* A field's comma, name and colon leave a reader wanting its value.       *)
LEMMA PrefixedKnown ==
  ASSUME type \in Types, JsonInv, at \in Fields(type), Stands(type, at)
  PROVE  LET text == Prefixed(out, first[Len(first)], type[at].name) IN
         /\ text \in Seq(Tokens(type))
         /\ Known(text) = Reader(at, "value", type[at].name, ToldSoFar(type, obj, at))
<1> DEFINE T == Tokens(type)
           name == type[at].name
           comma == IF first[Len(first)] THEN out ELSE Append(out, ",")
           named == Append(comma, name)
<1>1. at # <<>> /\ at \in DOMAIN type
  BY DEF Fields
<1>2. name \in T /\ "," \in T /\ ":" \in T /\ name \notin Punctuation
  BY <1>1, TokensDiffer DEF Tokens, Punctuation
<1>3. out \in Seq(T) /\ Known(out).members = ToldSoFar(type, obj, at) /\ Len(first) = Len(at)
  BY <1>1 DEF JsonInv
<1>4. first[Len(at)] = TRUE \/ first[Len(at)] = FALSE
  <2>1. first \in Seq(BOOLEAN) /\ Len(first) = Len(at) /\ Len(at) \in 1 .. Len(first)
    <3>1. Len(at) \in Places
      BY <1>1, Moves DEF Stands
    <3> QED
      BY <1>3, <3>1 DEF JsonInv, Places
  <2> DEFINE BB == BOOLEAN
  <2>2. first \in Seq(BB)
    BY <2>1
  <2> HIDE DEF BB
  <2>3. first[Len(at)] \in BB
    BY <2>1, <2>2, ElementOfSeq
  <2> QED
    BY <2>3, Zenon DEF BB
<1>5. /\ comma \in Seq(T) /\ Known(comma).want \in {"first", "name"} /\ Known(comma).path = at
      /\ Known(comma).members = ToldSoFar(type, obj, at)
  <2>1. CASE first[Len(at)] = TRUE
    <3>1. comma = out
      BY <1>3, <2>1
    <3>2. Known(out).want = "first" /\ Known(out).path = at
      BY <1>1, <2>1 DEF JsonInv
    <3> HIDE DEF comma
    <3> QED
      BY <1>3, <3>1, <3>2
  <2>2. CASE first[Len(at)] = FALSE
    <3>1. comma = Append(out, ",")
      BY <1>3, <2>2
    <3>2. Known(out).want = "more" /\ After(Known(out).path) = at
      BY <1>1, <2>2 DEF JsonInv
    <3> HIDE DEF comma, T, named, name
    <3>3. comma \in Seq(T) /\ Known(comma) = Accepted(Known(out), ",")
      BY <1>2, <1>3, <3>1, ReadOn
    <3>4. Known(comma) = Reader(at, "name", "none", Known(out).members)
      BY <3>2, <3>3, Accepts
    <3>5. Known(comma).want = "name" /\ Known(comma).path = at /\ Known(comma).members = Known(out).members
      BY <3>4, ReaderIs
    <3> QED
      BY <1>3, <3>3, <3>5
  <2> QED
    BY <1>4, <2>1, <2>2
<1>6. named \in Seq(T) /\ Known(named) = Reader(at, "colon", name, ToldSoFar(type, obj, at))
  <2> HIDE DEF comma, T, name
  <2>1. named \in Seq(T) /\ Known(named) = Accepted(Known(comma), name)
    BY <1>2, <1>5, ReadOn
  <2> HIDE DEF named
  <2> QED
    BY <1>2, <1>5, <2>1, Accepts
<1>7. Append(named, ":") \in Seq(T) /\ Known(Append(named, ":")) = Reader(at, "value", name, ToldSoFar(type, obj, at))
  <2> HIDE DEF T, named, name
  <2>1. Append(named, ":") \in Seq(T) /\ Known(Append(named, ":")) = Accepted(Known(named), ":")
    BY <1>2, <1>6, ReadOn
  <2>2. Known(named).want = "colon" /\ Known(named).path = at /\ Known(named).name = name
        /\ Known(named).members = ToldSoFar(type, obj, at)
    BY <1>6 DEF Reader
  <2> QED
    BY <2>1, <2>2, Accepts
<1> QED
  BY <1>7 DEF Prefixed

(* The last place of a path and the path of its call tell it.              *)
LEMMA CallerOfAfter ==
  ASSUME NEW p, IsPath(p)
  PROVE  Caller(After(p)) = Caller(p) /\ Len(After(p)) = Len(p)
<1>1. IsPath(After(p)) /\ Len(After(p)) = Len(p) /\ \A i \in 1 .. Len(p) - 1 : After(p)[i] = p[i]
  BY Moves
<1>2. Caller(After(p)) \in Seq(Places) /\ Len(Caller(After(p))) = Len(p) - 1
      /\ \A i \in 1 .. Len(p) - 1 : Caller(After(p))[i] = p[i]
  BY <1>1, Moves
<1>3. Caller(p) \in Seq(Places) /\ Len(Caller(p)) = Len(p) - 1 /\ \A i \in 1 .. Len(p) - 1 : Caller(p)[i] = p[i]
  BY Moves
<1>4. Len(p) \in Places
  BY Moves
<1> QED
  BY <1>1, <1>2, <1>3, <1>4, SamePath DEF Places

(* A turn of to_json tells a reader of the field, and a reader in a nested *)
(* object is told no comma before its first.                               *)
LEMMA JsonTurnInv ==
  ASSUME type \in Types, obj \in Objects(type), JsonInv, Stands(type, at), JsonTurn
  PROVE  JsonInv'
<1> DEFINE T == Tokens(type)
           n == Len(at)
           text == Prefixed(out, first[Len(first)], type[at].name)
           passed == [first EXCEPT ![Len(first)] = FALSE]
           more == Append(passed, TRUE)
           into == Append(at, 1)
<1>1. /\ at \in Fields(type) /\ at # <<>> /\ at \in DOMAIN type /\ type' = type /\ obj' = obj
      /\ at' = Walked(type, at)
  BY DEF JsonTurn, Fields
<1>2. text \in Seq(T) /\ Known(text) = Reader(at, "value", type[at].name, ToldSoFar(type, obj, at))
  BY <1>1, PrefixedKnown
<1>3. /\ n \in Nat \ {0} /\ Len(first) = n /\ \A i \in 1 .. n - 1 : first[i] = FALSE
      /\ IsPath(at) /\ IsPath(After(at)) /\ Len(After(at)) = n
      /\ IsPath(into) /\ Len(into) = n + 1
  BY <1>1, Nested, Moves DEF JsonInv, Places
<1>4. /\ passed \in Seq(BOOLEAN) /\ Len(passed) = n /\ passed[n] = FALSE
      /\ \A i \in 1 .. n - 1 : passed[i] = first[i]
      /\ more \in Seq(BOOLEAN) /\ Len(more) = n + 1
      /\ more[n + 1] = TRUE /\ more[n] = FALSE
      /\ \A i \in 1 .. n - 1 : more[i] = first[i]
  <2> DEFINE BB == BOOLEAN
             yes == TRUE
             no == FALSE
  <2>1. first \in Seq(BB) /\ yes \in BB /\ no \in BB
    BY DEF JsonInv
  <2>2. Len(first) \in Nat \ {0} /\ n = Len(first)
    BY <1>3
  <2>5. passed = [first EXCEPT ![Len(first)] = no] /\ more = Append(passed, yes)
    BY DEF no, yes
  <2> HIDE DEF BB, yes, no, passed, more
  <2>3. /\ passed \in Seq(BB) /\ Len(passed) = Len(first) /\ passed[Len(first)] = no
        /\ \A i \in 1 .. Len(first) - 1 : passed[i] = first[i]
        /\ more \in Seq(BB) /\ Len(more) = Len(first) + 1
        /\ more[Len(first) + 1] = yes /\ more[Len(first)] = no
        /\ \A i \in 1 .. Len(first) - 1 : more[i] = first[i]
    BY <2>1, <2>2, <2>5, Flags
  <2> HIDE DEF n
  <2>4. /\ passed \in Seq(BB) /\ Len(passed) = n /\ passed[n] = FALSE
        /\ \A i \in 1 .. n - 1 : passed[i] = first[i]
        /\ more \in Seq(BB) /\ Len(more) = n + 1
        /\ more[n + 1] = TRUE /\ more[n] = FALSE
        /\ \A i \in 1 .. n - 1 : more[i] = first[i]
    BY <2>2, <2>3, Zenon DEF yes, no
  <2> QED
    BY <2>4, Zenon DEF BB
<1>5. \A e : With(ToldSoFar(type, obj, at), at, Told(type, obj, at)) = ToldSoFar(type, obj, Walked(type, at))
  BY <1>1, ToldNext
<1> HIDE DEF text, passed, n, T, more, into
<1>6. CASE is_scalar(type[at])
  <2> DEFINE token == TextOf[obj[at]]
  <2>1. out' = Append(text, token) /\ first' = passed /\ at' = After(at)
    BY <1>1, <1>6 DEF JsonTurn, text, passed, Walked
  <2>2. token \in T /\ token \notin Punctuation
    <3>1. obj[at] \in Scalars
      BY <1>1, <1>6 DEF Objects, Leaves
    <3> QED
      BY <3>1, TokensDiffer DEF T, Tokens
  <2>3. /\ out' \in Seq(T)
        /\ Known(out') = Reader(at, "more", "none", With(ToldSoFar(type, obj, at), at, <<type[at].name, token>>))
    <3> HIDE DEF token
    <3>1. Append(text, token) \in Seq(T) /\ Known(Append(text, token)) = Accepted(Known(text), token)
      BY <1>2, <2>2, ReadOn
    <3>2. /\ Known(text).want = "value" /\ Known(text).path = at /\ Known(text).name = type[at].name
          /\ Known(text).members = ToldSoFar(type, obj, at)
      BY <1>2, ReaderIs
    <3> DEFINE K == Known(text)
    <3> HIDE DEF K
    <3>3. Accepted(K, token) = Reader(K.path, "more", "none", With(K.members, K.path, <<K.name, token>>))
      BY <2>2, <3>2, Accepts DEF K
    <3>4. Known(out') = Accepted(K, token)
      BY <2>1, <3>1 DEF K
    <3>5. Known(out') = Reader(at, "more", "none", With(ToldSoFar(type, obj, at), at, <<type[at].name, token>>))
      BY <3>2, <3>3, <3>4, Zenon DEF K
    <3> QED
      BY <2>1, <3>1, <3>5
  <2>4. Told(type, obj, at) = <<type[at].name, token>>
    BY <1>6 DEF Told
  <2> HIDE DEF token
  <2>5. /\ Known(out').want = "more" /\ Known(out').path = at
        /\ Known(out').members = ToldSoFar(type, obj, at')
    BY <1>1, <1>5, <2>3, <2>4, ReaderIs
  <2>6. \A i \in 1 .. n - 1 : passed[i] = FALSE
    BY <1>3, <1>4
  <2>7. Len(at') = n /\ at' # <<>> /\ Tokens(type') = T
    BY <1>1, <1>3, <2>1 DEF IsPath, T
  <2> QED
    BY <1>1, <1>3, <1>4, <2>1, <2>3, <2>5, <2>6, <2>7 DEF JsonInv
<1>7. CASE ~is_scalar(type[at])
  <2>1. out' = Append(text, "{") /\ first' = more /\ at' = into
    BY <1>1, <1>7 DEF JsonTurn, text, passed, more, into, Walked
  <2>2. "{" \in T
    BY DEF T, Tokens, Punctuation
  <2>3. /\ out' \in Seq(T)
        /\ Known(out') = Reader(into, "first", "none",
                                With(ToldSoFar(type, obj, at), at, <<type[at].name, "object">>))
    <3>1. Append(text, "{") \in Seq(T) /\ Known(Append(text, "{")) = Accepted(Known(text), "{")
      BY <1>2, <2>2, ReadOn
    <3>2. /\ Known(text).want = "value" /\ Known(text).path = at /\ Known(text).name = type[at].name
          /\ Known(text).members = ToldSoFar(type, obj, at)
      BY <1>2, ReaderIs
    <3> DEFINE K == Known(text)
    <3> HIDE DEF K
    <3>3. Accepted(K, "{") = Reader(Append(K.path, 1), "first", "none", With(K.members, K.path, <<K.name, "object">>))
      BY <3>2, Accepts DEF K
    <3>4. Known(out') = Accepted(K, "{")
      BY <2>1, <3>1 DEF K
    <3>5. Known(out') = Reader(Append(at, 1), "first", "none",
                               With(ToldSoFar(type, obj, at), at, <<type[at].name, "object">>))
      BY <3>2, <3>3, <3>4, Zenon DEF K
    <3> QED
      BY <2>1, <3>1, <3>5 DEF into
  <2>4. Told(type, obj, at) = <<type[at].name, "object">>
    BY <1>7 DEF Told
  <2>5. /\ Known(out').want = "first" /\ Known(out').path = into
        /\ Known(out').members = ToldSoFar(type, obj, at')
    BY <1>1, <1>5, <2>3, <2>4, ReaderIs
  <2>6. \A i \in 1 .. n : first'[i] = FALSE
    <3> TAKE i \in 1 .. n
    <3>1. i = n \/ i \in 1 .. n - 1
      BY <1>3
    <3> QED
      BY <1>3, <1>4, <2>1, <3>1, Zenon
  <2>7. Len(at') = n + 1 /\ at' # <<>> /\ Tokens(type') = T
    BY <1>1, <1>3, <2>1, Zenon DEF IsPath, T
  <2>9. (n + 1) - 1 = n
    BY <1>3
  <2>8. first'[n + 1] = TRUE /\ Len(first') = n + 1 /\ first' \in Seq(BOOLEAN)
    BY <1>4, <2>1
  <2> QED
    BY <1>1, <2>1, <2>3, <2>5, <2>6, <2>7, <2>8, <2>9 DEF JsonInv
<1> QED
  BY <1>6, <1>7

(* A brace closes the object the reader is in, so that it is back in the   *)
(* object of the caller, and wants more of it.                             *)
LEMMA JsonEndInv ==
  ASSUME type \in Types, JsonInv, at # <<>>, Stands(type, at), JsonEnd
  PROVE  JsonInv'
<1> DEFINE T == Tokens(type)
           n == Len(at)
           outer == Caller(first)
           r == Known(out)
<1>1. /\ at \notin Fields(type) /\ at \notin DOMAIN type /\ type' = type /\ obj' = obj
      /\ at' = Returned(at) /\ out' = Append(out, "}") /\ first' = outer
  BY DEF JsonEnd, Fields, Walked
<1>2. ToldSoFar(type, obj, at') = ToldSoFar(type, obj, at)
  <2>1. at' = Walked(type, at)
    BY DEF JsonEnd
  <2> HIDE DEF T, n, outer, r
  <2>2. ToldSoFar(type, obj, Walked(type, at)) = ToldSoFar(type, obj, at)
    BY <1>1, ToldNext
  <2> QED
    BY <2>1, <2>2
<1>3. /\ n \in Nat \ {0} /\ Len(first) = n /\ \A i \in 1 .. n - 1 : first[i] = FALSE
      /\ IsPath(at) /\ Caller(at) \in Seq(Places) /\ Len(Caller(at)) = n - 1
  BY Moves DEF JsonInv, Places, Stands
<1>4. outer \in Seq(BOOLEAN) /\ Len(outer) = n - 1 /\ \A i \in 1 .. n - 1 : outer[i] = first[i]
  <2> DEFINE BB == BOOLEAN
  <2>1. first \in Seq(BB) /\ TRUE \in BB /\ FALSE \in BB
    BY DEF JsonInv
  <2>2. Len(first) \in Nat \ {0} /\ n = Len(first)
    BY <1>3
  <2> HIDE DEF BB
  <2>3. outer \in Seq(BB) /\ Len(outer) = Len(first) - 1 /\ \A i \in 1 .. Len(first) - 1 : outer[i] = first[i]
    BY <2>1, <2>2, OuterFlags
  <2> HIDE DEF outer, n
  <2>4. outer \in Seq(BB) /\ Len(outer) = n - 1 /\ \A i \in 1 .. n - 1 : outer[i] = first[i]
    BY <2>2, <2>3, Zenon
  <2> QED
    BY <2>4, Zenon DEF BB
<1>5. first[n] = TRUE \/ first[n] = FALSE
  <2> DEFINE BB == BOOLEAN
  <2>1. first \in Seq(BB) /\ n \in 1 .. Len(first)
    BY <1>3 DEF JsonInv
  <2> HIDE DEF BB, n
  <2>2. first[n] \in BB
    BY <2>1, ElementOfSeq
  <2> QED
    BY <2>2, Zenon DEF BB
<1>6. r.want \in {"first", "more"} /\ IsPath(r.path) /\ Caller(r.path) = Caller(at) /\ Len(r.path) = n
  <2>1. CASE first[n] = TRUE
    BY <1>3, <2>1 DEF JsonInv
  <2>2. CASE first[n] = FALSE
    <3>1. r.want = "more" /\ IsPath(r.path) /\ After(r.path) = at
      BY <2>2 DEF JsonInv
    <3>2. Caller(After(r.path)) = Caller(r.path) /\ Len(After(r.path)) = Len(r.path)
      BY <3>1, CallerOfAfter
    <3> HIDE DEF r
    <3> QED
      BY <3>1, <3>2
  <2> QED
    BY <1>5, <2>1, <2>2
<1>7. r.members = ToldSoFar(type, obj, at) /\ out \in Seq(T)
  BY DEF JsonInv
<1> HIDE DEF r, n, outer
<1>8. out' \in Seq(T) /\ Known(out') = Closed(r)
  <2>1. "}" \in T
    BY DEF Tokens, Punctuation
  <2> HIDE DEF T
  <2>2. Append(out, "}") \in Seq(T) /\ Known(Append(out, "}")) = Accepted(r, "}")
    BY <1>7, <2>1, ReadOn DEF r
  <2> QED
    BY <1>1, <1>6, <2>2, Accepts
<1>9. CASE n = 1
  <2>1. at' = <<>>
    BY <1>1, <1>9 DEF Returned, n
  <2>2. Closed(r) = Reader(<<>>, "end", "none", r.members)
    BY <1>6, <1>9 DEF Closed
  <2>3. Known(out').want = "end" /\ Known(out').members = ToldSoFar(type, obj, at')
    BY <1>2, <1>7, <1>8, <2>2, ReaderIs
  <2>4. Tokens(type') = T
    BY <1>1
  <2> QED
    BY <1>1, <1>4, <1>8, <2>1, <2>3, <2>4 DEF JsonInv
<1>10. CASE n # 1
  <2> DEFINE c == Caller(at)
  <2>1. at' = After(c)
    BY <1>1, <1>10 DEF Returned, n
  <2>2. c # <<>>
    BY <1>3, <1>10, EmptySeq
  <2>3. IsPath(c) /\ Len(c) = n - 1
    BY <1>3, <2>2 DEF IsPath
  <2> HIDE DEF c
  <2>4. Closed(r) = Reader(c, "more", "none", r.members)
    BY <1>6, <1>10 DEF Closed, c
  <2>5. Known(out').want = "more" /\ Known(out').path = c /\ Known(out').members = ToldSoFar(type, obj, at')
    BY <1>2, <1>7, <1>8, <2>4, ReaderIs
  <2>6. Len(at') = n - 1 /\ at' # <<>>
    BY <2>1, <2>3, Moves DEF IsPath
  <2>7. n - 1 \in 1 .. n - 1 /\ \A i \in 1 .. (n - 1) - 1 : i \in 1 .. n - 1
    BY <1>3, <1>10
  <2>8. first'[n - 1] = FALSE /\ \A i \in 1 .. (n - 1) - 1 : first'[i] = FALSE
    BY <1>1, <1>3, <1>4, <2>7, Zenon
  <2>9. Tokens(type') = T
    BY <1>1
  <2>10. first' \in Seq(BOOLEAN) /\ Len(first') = Len(at')
    BY <1>1, <1>4, <2>6
  <2> QED
    BY <1>1, <1>8, <2>1, <2>3, <2>5, <2>6, <2>8, <2>9, <2>10 DEF JsonInv
<1> QED
  BY <1>9, <1>10

(* A sequence of one is nothing with one thing appended.                   *)
LEMMA Single ==
  ASSUME NEW T, NEW e \in T
  PROVE  <<e>> \in Seq(T) /\ Len(<<e>>) = 1 /\ <<e>>[1] = e /\ Append(<<>>, e) = <<e>>
<1>1. <<e>> \in Seq(T) /\ Len(<<e>>) = 1 /\ <<e>>[1] = e
  OBVIOUS
<1>2. <<>> \in Seq(T) /\ Len(<<>>) = 0
  BY EmptySeq
<1> DEFINE a == Append(<<>>, e)
           b == <<e>>
<1>3. a \in Seq(T) /\ Len(a) = 0 + 1 /\ a[0 + 1] = e
  BY <1>2, AppendProperties
<1> HIDE DEF a, b
<1>4. b \in Seq(T) /\ Len(a) = Len(b) /\ \A i \in 1 .. Len(a) : a[i] = b[i]
  BY <1>1, <1>3 DEF b
<1>5. a = b
  BY <1>3, <1>4, SeqEqual
<1> QED
  BY <1>1, <1>5 DEF a, b

(* Where to_json begins, and what the reader has of the text at its end.   *)
LEMMA JsonBegins == ASSUME SerdeInit PROVE JsonInv
<1>1. type \in Types /\ at = <<1>> /\ out = <<"{">> /\ first = <<TRUE>>
  BY DEF SerdeInit
<1> DEFINE T == Tokens(type)
<1>2. <<>> \in Seq(T) /\ "{" \in T /\ Len(<<>>) = 0
  BY DEF Tokens, Punctuation
<1>3. Append(<<>>, "{") \in Seq(T) /\ Known(Append(<<>>, "{")) = Accepted(Known(<<>>), "{")
  <2> HIDE DEF T
  <2> QED
    BY <1>2, ReadOn
<1>4. Append(<<>>, "{") = out
  BY <1>1, Single
<1>5. Known(<<>>) = Start
  BY <1>2, ReadingEquation DEF Known
<1>6. Start.want = "object" /\ Start.members = <<>>
  BY DEF Start, Reader
<1>7. Known(out) = Reader(<<1>>, "first", "none", <<>>)
  <2> DEFINE one == <<1>>
             empty == <<>>
             S == Start
  <2>1. S.want = "object" /\ S.members = empty
    BY <1>6
  <2>2. Known(out) = Accepted(S, "{")
    BY <1>3, <1>4, <1>5
  <2> HIDE DEF empty, S
  <2>3. Accepted(S, "{") = Reader(one, "first", "none", S.members)
    BY <2>1, Accepts
  <2> HIDE DEF one
  <2>4. Known(out) = Reader(one, "first", "none", empty)
    BY <2>1, <2>2, <2>3
  <2> QED
    BY <2>4 DEF one, empty
<1>8. Known(out).want = "first" /\ Known(out).path = at /\ Known(out).members = <<>>
  <2> DEFINE one == <<1>>
             empty == <<>>
             brace == out
  <2>1. Known(brace) = Reader(one, "first", "none", empty) /\ at = one
    BY <1>1, <1>7
  <2> HIDE DEF one, empty, brace
  <2>2. Known(brace).want = "first" /\ Known(brace).path = at /\ Known(brace).members = empty
    BY <2>1, ReaderIs
  <2> QED
    BY <2>2 DEF empty, brace
<1>9. ToldSoFar(type, obj, at) = <<>>
  <2>1. {q \in Fields(type) : Passed(q, at)} = {}
    BY <1>1, WalkBegins
  <2>2. ToldSoFar(type, obj, at) = [q \in {} |-> Told(type, obj, q)]
    BY <2>1 DEF ToldSoFar
  <2> QED
    BY <2>2
<1>10. first \in Seq(BOOLEAN) /\ Len(first) = 1 /\ first[1] = TRUE
  <2> DEFINE BB == BOOLEAN
             yes == TRUE
             s == <<yes>>
  <2>1. yes \in BB
    OBVIOUS
  <2> HIDE DEF BB, yes
  <2>2. s \in Seq(BB) /\ Len(s) = 1 /\ s[1] = yes
    BY <2>1, Single
  <2>3. first = s
    BY <1>1, Zenon DEF yes
  <2> HIDE DEF s
  <2> QED
    BY <2>2, <2>3, Zenon DEF BB, yes
<1>11. Len(at) = 1 /\ at # <<>> /\ \A i \in 1 .. 1 - 1 : FALSE
  <2>1. <<1>> \in Seq(Places) /\ Len(<<1>>) = 1 /\ <<1>> # <<>>
    BY Single DEF Places
  <2>2. \A i \in 1 .. 1 - 1 : FALSE
    OBVIOUS
  <2> QED
    BY <1>1, <2>1, <2>2, Zenon
<1>12. first[Len(at)] = TRUE
  BY <1>10, <1>11, Zenon
<1> QED
  BY <1>3, <1>4, <1>8, <1>9, <1>10, <1>11, <1>12, Zenon DEF JsonInv

(* When the walk is at its end the reader has a member for every field.    *)
LEMMA JsonEnds ==
  ASSUME type \in Types, JsonInv, at = <<>>
  PROVE  JsonIsTheObject
<1>1. {q \in Fields(type) : Passed(q, at)} = Fields(type)
  BY DEF Passed
<1>2. Known(out).want = "end" /\ Known(out).members = [q \in Fields(type) |-> Told(type, obj, q)]
  BY <1>1 DEF JsonInv, ToldSoFar
<1> QED
  BY <1>2 DEF JsonIsTheObject, Known, Told

-----------------------------------------------------------------------------
(* The way of the walk that wrote the bytes: where it stood after each     *)
(* step, and how many bytes there were. A scalar's bytes are behind those  *)
(* that there were when the walk stood at it.                              *)
SizeAt(t, p) == IF p \in Leaves(t) THEN t[p].size ELSE 0

Holds(bytes, from, value, size) ==
  from + size <= Len(bytes) /\ \A i \in 1 .. size : bytes[from + i] = <<value, i, size>>

Trail(t, o, bytes, n, place, count) ==
  /\ n \in Nat /\ place[0] = <<1>> /\ count[0] = 0
  /\ \A k \in 0 .. n : Stands(t, place[k]) /\ count[k] \in Nat
  /\ \A k \in 0 .. n - 1 :
       /\ place[k] # <<>> /\ place[k + 1] = Walked(t, place[k])
       /\ count[k + 1] = count[k] + SizeAt(t, place[k])
       /\ place[k] \in Leaves(t) => Holds(bytes, count[k], o[place[k]], t[place[k]].size)

OnTrail(t, o, bytes, p) ==
  \E n, place, count : Trail(t, o, bytes, n, place, count) /\ place[n] = p /\ count[n] = Len(bytes)

(* While write runs it stands at the end of its trail.                     *)
WriteInv == buf \in Seq(Scalars \X Nat \X Nat) /\ OnTrail(type, obj, buf, at)

(* While read runs it stands where write stood when the bytes before the   *)
(* cursor were all there were, and has the fields it has passed.           *)
ReadInv ==
  /\ buf \in Seq(Scalars \X Nat \X Nat) /\ back \in Objects(type)
  /\ \A p \in Leaves(type) : Passed(p, at) => back[p] = obj[p]
  /\ \E n, place, count :
       /\ Trail(type, obj, buf, n, place, count) /\ place[n] = <<>> /\ count[n] = Len(buf)
       /\ \E k \in 0 .. n : place[k] = at /\ cur = count[k] + 1

(* While equal runs, same tells of the fields it has passed.               *)
CompareInv ==
  /\ back = obj /\ cur = Len(buf) + 1 /\ other \in Objects(type) /\ same \in BOOLEAN
  /\ same => \A p \in Leaves(type) : Passed(p, at) => <<obj[p], other[p]>> \in Equal
  /\ ~same => \E p \in Leaves(type) : <<obj[p], other[p]>> \notin Equal

(* The bytes of a scalar, and the bytes with those of one more.            *)
LEMMA BytesOf ==
  ASSUME NEW value \in Scalars, NEW size \in Nat
  PROVE  /\ Bytes(value, size) \in Seq(Scalars \X Nat \X Nat) /\ Len(Bytes(value, size)) = size
         /\ \A i \in 1 .. size : Bytes(value, size)[i] = <<value, i, size>>
<1>1. \A i \in 1 .. size : <<value, i, size>> \in Scalars \X Nat \X Nat
  OBVIOUS
<1> DEFINE B == Scalars \X Nat \X Nat
           e(i) == <<value, i, size>>
<1> HIDE DEF B
<1>2. /\ [i \in 1 .. size |-> e(i)] \in Seq(B) /\ Len([i \in 1 .. size |-> e(i)]) = size
  <2>1. \A i \in 1 .. size : e(i) \in B
    BY <1>1 DEF B
  <2> HIDE DEF e
  <2> QED
    BY <2>1, IsASeq
<1> QED
  BY <1>2 DEF Bytes, B

(* Bytes with those of one scalar more: the others stay where they were.   *)
LEMMA BytesJoined ==
  ASSUME NEW bytes \in Seq(Scalars \X Nat \X Nat), NEW value \in Scalars, NEW size \in Nat
  PROVE  LET more == bytes \o Bytes(value, size) IN
         /\ more \in Seq(Scalars \X Nat \X Nat) /\ Len(more) = Len(bytes) + size /\ Len(bytes) \in Nat
         /\ \A i \in 1 .. Len(bytes) : more[i] = bytes[i]
         /\ Holds(more, Len(bytes), value, size)
<1> DEFINE B == Scalars \X Nat \X Nat
           new == Bytes(value, size)
           more == bytes \o new
<1>1. new \in Seq(B) /\ Len(new) = size /\ \A i \in 1 .. size : new[i] = <<value, i, size>>
  BY BytesOf
<1>2. bytes \in Seq(B) /\ Len(bytes) \in Nat
  BY LenProperties
<1> HIDE DEF B, new
<1>3. /\ more \in Seq(B) /\ Len(more) = Len(bytes) + Len(new)
      /\ \A i \in 1 .. Len(bytes) + Len(new) : more[i] = IF i <= Len(bytes) THEN bytes[i] ELSE new[i - Len(bytes)]
  BY <1>1, <1>2, ConcatProperties
<1> HIDE DEF more
<1>4. Len(more) = Len(bytes) + size /\ \A i \in 1 .. Len(bytes) : more[i] = bytes[i]
  BY <1>1, <1>2, <1>3
<1>5. \A i \in 1 .. size : more[Len(bytes) + i] = <<value, i, size>>
  <2> TAKE i \in 1 .. size
  <2>1. Len(bytes) + i \in 1 .. Len(bytes) + Len(new) /\ ~(Len(bytes) + i <= Len(bytes)) /\ (Len(bytes) + i) - Len(bytes) = i
    BY <1>1, <1>2
  <2>2. more[Len(bytes) + i] = new[i]
    BY <1>3, <2>1
  <2> QED
    BY <1>1, <2>2
<1>6. Holds(more, Len(bytes), value, size)
  <2>1. Len(bytes) + size <= Len(more)
    BY <1>2, <1>4
  <2> QED
    BY <1>5, <2>1, Zenon DEF Holds
<1> QED
  BY <1>2, <1>3, <1>4, <1>6 DEF more, B, new

(* What memcpy copies from where a scalar's bytes are.                     *)
LEMMA HeldIsCopied ==
  ASSUME NEW bytes \in Seq(Scalars \X Nat \X Nat), NEW from \in Nat, NEW value \in Scalars, NEW size \in Nat \ {0},
         Holds(bytes, from, value, size)
  PROVE  Copied(bytes, from + 1, size) = value
<1> DEFINE B == Scalars \X Nat \X Nat
           seen == SubSeq(bytes, from + 1, from + 1 + size - 1)
<1>1. Len(bytes) \in Nat /\ from + size <= Len(bytes) /\ \A i \in 1 .. size : bytes[from + i] = <<value, i, size>>
  BY LenProperties DEF Holds
<1>2. \A i \in from + 1 .. from + 1 + size - 1 : bytes[i] \in B
  <2> TAKE i \in from + 1 .. from + 1 + size - 1
  <2>1. i \in 1 .. Len(bytes)
    BY <1>1
  <2> HIDE DEF B
  <2>2. bytes \in Seq(B)
    BY DEF B
  <2> QED
    BY <2>1, <2>2, ElementOfSeq
<1>3. seen \in Seq(B) /\ Len(seen) = size /\ \A i \in 1 .. size : seen[i] = bytes[from + i]
  <2>1. from + 1 \in Int /\ from + 1 + size - 1 \in Int
    OBVIOUS
  <2> HIDE DEF B
  <2>2. /\ seen \in Seq(B)
        /\ Len(seen) = IF from + 1 <= from + 1 + size - 1 THEN from + 1 + size - 1 - (from + 1) + 1 ELSE 0
        /\ \A i \in 1 .. from + 1 + size - 1 - (from + 1) + 1 : seen[i] = bytes[from + 1 + i - 1]
    BY <1>2, <2>1, SubSeqProperties
  <2> HIDE DEF seen
  <2>3. Len(seen) = size
    BY <2>2
  <2>4. ASSUME NEW i \in 1 .. size PROVE seen[i] = bytes[from + i]
    <3>1. i \in 1 .. from + 1 + size - 1 - (from + 1) + 1 /\ from + 1 + i - 1 = from + i
      OBVIOUS
    <3> QED
      BY <2>2, <3>1
  <2> QED
    BY <2>2, <2>3, <2>4
<1> HIDE DEF seen
<1>4. seen[1] = <<value, 1, size>> /\ \A i \in 1 .. size : seen[i] = <<value, i, size>>
  <2>1. \A i \in 1 .. size : seen[i] = <<value, i, size>>
    BY <1>1, <1>3, Zenon
  <2>2. 1 \in 1 .. size
    OBVIOUS
  <2> QED
    BY <2>1, <2>2, Zenon
<1>5. seen[1][1] = value
  BY <1>4
<1>6. seen = Bytes(value, size)
  <2>1. Bytes(value, size) \in Seq(B) /\ Len(Bytes(value, size)) = size
        /\ \A i \in 1 .. size : Bytes(value, size)[i] = <<value, i, size>>
    BY BytesOf
  <2> DEFINE b == Bytes(value, size)
  <2> HIDE DEF b, B
  <2>2. b \in Seq(B) /\ Len(seen) = Len(b) /\ \A i \in 1 .. Len(seen) : seen[i] = b[i]
    BY <1>3, <1>4, <2>1 DEF b
  <2>3. seen = b
    BY <1>3, <2>2, SeqEqual
  <2> QED
    BY <2>3 DEF b
<1>7. ~(from + 1 + size - 1 > Len(bytes))
  BY <1>1
<1> QED
  BY <1>5, <1>6, <1>7 DEF Copied, seen

(* A scalar field has a value and takes bytes.                             *)
LEMMA LeafFacts ==
  ASSUME NEW t \in Types, NEW o \in Objects(t), NEW p \in Leaves(t)
  PROVE  o[p] \in Scalars /\ t[p].size \in Nat \ {0} /\ p \in Fields(t) /\ p # <<>> /\ p \in DOMAIN t
<1>1. p \in Fields(t) /\ is_scalar(t[p])
  BY DEF Leaves
<1>2. t[p].size \in Nat
  BY <1>1, Nested
<1> QED
  BY <1>1, <1>2 DEF is_scalar, Fields, Objects

(* Bytes behind those of a scalar leave it where it is.                    *)
LEMMA HeldStill ==
  ASSUME NEW bytes, NEW more, Len(bytes) \in Nat, Len(more) \in Nat, Len(bytes) <= Len(more),
         \A i \in 1 .. Len(bytes) : more[i] = bytes[i],
         NEW from \in Nat, NEW value, NEW size \in Nat, Holds(bytes, from, value, size)
  PROVE  Holds(more, from, value, size)
<1>1. from + size <= Len(bytes) /\ \A i \in 1 .. size : bytes[from + i] = <<value, i, size>>
  BY Zenon DEF Holds
<1>2. from + size <= Len(more)
  BY <1>1
<1>3. ASSUME NEW i \in 1 .. size PROVE more[from + i] = <<value, i, size>>
  <2>1. from + i \in 1 .. Len(bytes)
    BY <1>1
  <2>2. more[from + i] = bytes[from + i]
    BY <2>1, Zenon
  <2> QED
    BY <1>1, <2>2, Zenon
<1> QED
  BY <1>2, <1>3, Zenon DEF Holds

(* A step of write puts its scalar behind the others, and the trail goes   *)
(* on by the step.                                                         *)
LEMMA TrailGrows ==
  ASSUME NEW t \in Types, NEW o \in Objects(t), NEW bytes \in Seq(Scalars \X Nat \X Nat),
         NEW p, p # <<>>, OnTrail(t, o, bytes, p), NEW more,
         p \in Leaves(t) => more = bytes \o Bytes(o[p], t[p].size), p \notin Leaves(t) => more = bytes
  PROVE  more \in Seq(Scalars \X Nat \X Nat) /\ OnTrail(t, o, more, Walked(t, p))
<1> DEFINE B == Scalars \X Nat \X Nat
           size == SizeAt(t, p)
<1> PICK n, place, count : Trail(t, o, bytes, n, place, count) /\ place[n] = p /\ count[n] = Len(bytes)
  BY Zenon DEF OnTrail
<1>1. /\ n \in Nat /\ place[0] = <<1>> /\ count[0] = 0
      /\ \A k \in 0 .. n : Stands(t, place[k]) /\ count[k] \in Nat
      /\ \A k \in 0 .. n - 1 :
           /\ place[k] # <<>> /\ place[k + 1] = Walked(t, place[k])
           /\ count[k + 1] = count[k] + SizeAt(t, place[k])
           /\ place[k] \in Leaves(t) => Holds(bytes, count[k], o[place[k]], t[place[k]].size)
  BY Zenon DEF Trail
<1>2. Len(bytes) \in Nat
  BY LenProperties
<1>3. /\ more \in Seq(B) /\ Len(more) = Len(bytes) + size /\ size \in Nat
      /\ \A i \in 1 .. Len(bytes) : more[i] = bytes[i]
      /\ p \in Leaves(t) => Holds(more, Len(bytes), o[p], t[p].size)
  <2>1. CASE p \in Leaves(t)
    <3>1. o[p] \in Scalars /\ t[p].size \in Nat
      BY <2>1, LeafFacts
    <3>2. more = bytes \o Bytes(o[p], t[p].size) /\ size = t[p].size
      BY <2>1 DEF SizeAt
    <3> DEFINE value == o[p]
               width == t[p].size
               joined == bytes \o Bytes(value, width)
    <3>3. value \in Scalars /\ width \in Nat /\ more = joined /\ size = width
      BY <3>1, <3>2
    <3> HIDE DEF size, value, width
    <3>4. /\ joined \in Seq(B) /\ Len(joined) = Len(bytes) + width
          /\ \A i \in 1 .. Len(bytes) : joined[i] = bytes[i]
          /\ Holds(joined, Len(bytes), value, width)
      BY <3>3, BytesJoined
    <3> HIDE DEF joined, B
    <3>5. Holds(more, Len(bytes), o[p], t[p].size)
      BY <3>3, <3>4, Zenon DEF value, width
    <3> QED
      BY <3>3, <3>4, <3>5, Zenon
  <2>2. CASE p \notin Leaves(t)
    <3>1. more = bytes /\ size = 0
      BY <2>2 DEF SizeAt
    <3>2. bytes \in Seq(B) /\ Len(bytes) = Len(bytes) + 0 /\ 0 \in Nat
      BY <1>2
    <3> HIDE DEF size, B
    <3> QED
      BY <2>2, <3>1, <3>2, Zenon
  <2> QED
    BY <2>1, <2>2
<1> DEFINE places == [k \in 0 .. n + 1 |-> IF k = n + 1 THEN Walked(t, p) ELSE place[k]]
           counts == [k \in 0 .. n + 1 |-> IF k = n + 1 THEN Len(more) ELSE count[k]]
<1>4. /\ \A k \in 0 .. n : places[k] = place[k] /\ counts[k] = count[k]
      /\ places[n + 1] = Walked(t, p) /\ counts[n + 1] = Len(more)
  BY <1>1
<1>5. /\ n \in 0 .. n /\ 0 \in 0 .. n /\ n + 1 \in Nat /\ (n + 1) - 1 = n /\ p # <<>>
      /\ \A k \in 0 .. n : k \in 0 .. n - 1 \/ k = n
      /\ \A k \in 0 .. n - 1 : k \in 0 .. n /\ k + 1 \in 0 .. n
      /\ \A k \in 0 .. n + 1 : k \in 0 .. n \/ k = n + 1
  BY <1>1
<1> HIDE DEF places, counts
<1>6. Stands(t, Walked(t, p))
  <2>1. Stands(t, p)
    BY <1>1, <1>5, Zenon
  <2> QED
    BY <1>5, <2>1, WalkStands
<1>7. Len(more) \in Nat /\ Len(bytes) <= Len(more)
  BY <1>2, <1>3
<1>8. \A k \in 0 .. n + 1 : Stands(t, places[k]) /\ counts[k] \in Nat
  <2> TAKE k \in 0 .. n + 1
  <2>1. CASE k \in 0 .. n
    BY <1>1, <1>4, <2>1, Zenon
  <2>2. CASE k = n + 1
    BY <1>4, <1>6, <1>7, <2>2, Zenon
  <2> QED
    BY <1>5, <2>1, <2>2
<1>9. ASSUME NEW k \in 0 .. n
      PROVE  /\ places[k] # <<>> /\ places[k + 1] = Walked(t, places[k])
             /\ counts[k + 1] = counts[k] + SizeAt(t, places[k])
             /\ places[k] \in Leaves(t) => Holds(more, counts[k], o[places[k]], t[places[k]].size)
  <2>1. CASE k = n
    <3>1. places[k] = p /\ counts[k] = Len(bytes) /\ places[k + 1] = Walked(t, p) /\ counts[k + 1] = Len(more)
      BY <1>4, <1>5, <2>1, Zenon
    <3>2. counts[k + 1] = counts[k] + size
      BY <1>3, <3>1, Zenon
    <3> QED
      BY <1>3, <1>5, <3>1, <3>2, Zenon
  <2>2. CASE k # n
    <3>1. k \in 0 .. n - 1 /\ k + 1 \in 0 .. n
      BY <1>5, <2>2, Zenon
    <3>2. places[k] = place[k] /\ counts[k] = count[k] /\ places[k + 1] = place[k + 1] /\ counts[k + 1] = count[k + 1]
      BY <1>4, <3>1, Zenon
    <3>3. /\ place[k] # <<>> /\ place[k + 1] = Walked(t, place[k])
          /\ count[k + 1] = count[k] + SizeAt(t, place[k])
          /\ place[k] \in Leaves(t) => Holds(bytes, count[k], o[place[k]], t[place[k]].size)
      BY <1>1, <3>1, Zenon
    <3>4. ASSUME place[k] \in Leaves(t) PROVE Holds(more, count[k], o[place[k]], t[place[k]].size)
      <4> DEFINE q == place[k]
      <4>1. t[q].size \in Nat
        BY <3>4, LeafFacts
      <4>2. count[k] \in Nat
        BY <1>1, Zenon
      <4>3. Holds(bytes, count[k], o[q], t[q].size)
        BY <3>3, <3>4, Zenon
      <4> DEFINE from == count[k]
                 value == o[q]
                 width == t[q].size
      <4>4. from \in Nat /\ width \in Nat /\ Holds(bytes, from, value, width)
        BY <4>1, <4>2, <4>3, Zenon
      <4> HIDE DEF from, value, width, q
      <4>5. Holds(more, from, value, width)
        BY <1>2, <1>3, <1>7, <4>4, HeldStill
      <4> QED
        BY <4>5, Zenon DEF from, value, width, q
    <3> QED
      BY <3>2, <3>3, <3>4, Zenon
  <2> QED
    BY <2>1, <2>2
<1>10. places[0] = <<1>> /\ counts[0] = 0
  BY <1>1, <1>4, <1>5, Zenon
<1>11. Trail(t, o, more, n + 1, places, counts)
  BY <1>5, <1>8, <1>9, <1>10, Zenon DEF Trail
<1> QED
  BY <1>3, <1>4, <1>11, Zenon DEF B, OnTrail

(* What write, read and equal do to the trail and to what was copied.      *)
LEMMA CallWriteInv ==
  ASSUME type \in Types, CallWrite
  PROVE  WriteInv' /\ Stands(type, at)'
<1>1. buf' = <<>> /\ at' = <<1>> /\ type' = type /\ obj' = obj
  BY DEF CallWrite, Calls
<1>2. Stands(type, <<1>>)
  BY WalkBegins
<1> DEFINE B == Scalars \X Nat \X Nat
           start == <<1>>
           place == [k \in 0 .. 0 |-> start]
           count == [k \in 0 .. 0 |-> 0]
<1>3. buf' \in Seq(B) /\ Len(buf') = 0
  <2> HIDE DEF B
  <2> QED
    BY <1>1
<1> HIDE DEF start
<1>4. place[0] = start /\ count[0] = 0 /\ \A k \in 0 .. 0 - 1 : FALSE
  OBVIOUS
<1>5. \A k \in 0 .. 0 : k = 0
  OBVIOUS
<1> HIDE DEF place, count
<1>6. \A k \in 0 .. 0 : Stands(type, place[k]) /\ count[k] \in Nat
  BY <1>2, <1>4, <1>5 DEF start
<1>7. Trail(type, obj, buf', 0, place, count)
  <2>1. 0 \in Nat
    OBVIOUS
  <2> QED
    BY <1>4, <1>6, <2>1, Zenon DEF Trail, start
<1>8. WriteInv'
  BY <1>1, <1>3, <1>4, <1>7, Zenon DEF WriteInv, OnTrail, start, B
<1> QED
  BY <1>1, <1>2, <1>8

(* write goes on with the trail, and puts the bytes of a scalar behind.    *)
LEMMA WriteTurnInv ==
  ASSUME type \in Types, obj \in Objects(type), WriteInv, WriteTurn
  PROVE  WriteInv'
<1>1. buf \in Seq(Scalars \X Nat \X Nat) /\ OnTrail(type, obj, buf, at)
  BY DEF WriteInv
<1>2. /\ at # <<>> /\ at' = Walked(type, at) /\ type' = type /\ obj' = obj
      /\ at \in Leaves(type) => buf' = buf \o Bytes(obj[at], type[at].size)
      /\ at \notin Leaves(type) => buf' = buf
  BY DEF WriteTurn
<1> DEFINE more == buf'
<1>3. /\ at \in Leaves(type) => more = buf \o Bytes(obj[at], type[at].size)
      /\ at \notin Leaves(type) => more = buf
  BY <1>2
<1> HIDE DEF more
<1>4. more \in Seq(Scalars \X Nat \X Nat) /\ OnTrail(type, obj, more, Walked(type, at))
  BY <1>1, <1>2, <1>3, TrailGrows
<1> QED
  BY <1>2, <1>4, Zenon DEF WriteInv, more

(* read begins where write began, with an object of zeros.                 *)
LEMMA CallReadInv ==
  ASSUME type \in Types, WriteInv, CallRead
  PROVE  ReadInv' /\ Stands(type, at)'
<1>1. /\ at = <<>> /\ at' = <<1>> /\ type' = type /\ obj' = obj /\ buf' = buf
      /\ back' = Cleared(type) /\ cur' = 1
  BY DEF CallRead, Calls
<1>2. PICK n, place, count : Trail(type, obj, buf, n, place, count) /\ place[n] = at /\ count[n] = Len(buf)
  BY DEF WriteInv, OnTrail
<1>3. back' \in Objects(type)
  BY <1>1, TokensDiffer DEF Cleared, Objects
<1>4. Stands(type, <<1>>) /\ \A p \in Leaves(type) : ~Passed(p, <<1>>)
  BY WalkBegins DEF Leaves
<1>5. n \in Nat /\ place[0] = <<1>> /\ count[0] = 0
  BY <1>2, Zenon DEF Trail
<1>6. 0 \in 0 .. n /\ cur' = count[0] + 1
  BY <1>1, <1>5
<1>7. buf \in Seq(Scalars \X Nat \X Nat)
  BY DEF WriteInv
<1>8. /\ Trail(type, obj, buf, n, place, count) /\ place[n] = <<>> /\ count[n] = Len(buf)
      /\ \E k \in 0 .. n : place[k] = at' /\ cur' = count[k] + 1
  BY <1>1, <1>2, <1>5, <1>6, Zenon
<1> QED
  BY <1>1, <1>3, <1>4, <1>7, <1>8, Zenon DEF ReadInv

(* read is one step further on the trail, with the cursor at the bytes of  *)
(* the next scalar, and the scalar it passed is that of the object.        *)
LEMMA ReadTurnInv ==
  ASSUME type \in Types, obj \in Objects(type), ReadInv, ReadTurn, Stands(type, at)
  PROVE  ReadInv'
<1>1. PICK n, place, count :
        /\ Trail(type, obj, buf, n, place, count) /\ place[n] = <<>> /\ count[n] = Len(buf)
        /\ \E k \in 0 .. n : place[k] = at /\ cur = count[k] + 1
  BY DEF ReadInv
<1>2. PICK k \in 0 .. n : place[k] = at /\ cur = count[k] + 1
  BY <1>1
<1>3. at # <<>> /\ at' = Walked(type, at) /\ type' = type /\ obj' = obj /\ buf' = buf
  BY DEF ReadTurn
<1>4. /\ n \in Nat /\ \A j \in 0 .. n : count[j] \in Nat
      /\ \A j \in 0 .. n - 1 :
           /\ place[j + 1] = Walked(type, place[j]) /\ count[j + 1] = count[j] + SizeAt(type, place[j])
           /\ place[j] \in Leaves(type) => Holds(buf, count[j], obj[place[j]], type[place[j]].size)
  BY <1>1, Zenon DEF Trail
<1>5. k # n
  BY <1>1, <1>2, <1>3
<1>6. k \in 0 .. n - 1 /\ k + 1 \in 0 .. n /\ count[k] \in Nat
  <2>1. k \in 0 .. n - 1 /\ k + 1 \in 0 .. n
    BY <1>4, <1>5
  <2> QED
    BY <1>4, <2>1
<1>7. place[k + 1] = at' /\ count[k + 1] = count[k] + SizeAt(type, at)
  BY <1>2, <1>3, <1>4, <1>6, Zenon
<1>8. \A p \in Leaves(type) : p \in Fields(type) /\ (Passed(p, at') <=> Passed(p, at) \/ p = at)
  BY <1>3, WalkPasses DEF Leaves
<1>9. back \in Objects(type) /\ \A p \in Leaves(type) : Passed(p, at) => back[p] = obj[p]
  BY DEF ReadInv
<1>10. /\ cur' = count[k + 1] + 1 /\ back' \in Objects(type)
       /\ \A p \in Leaves(type) : Passed(p, at') => back'[p] = obj[p]
  <2>1. CASE at \in Leaves(type)
    <3> DEFINE from == count[k]
               value == obj[at]
               size == type[at].size
    <3>1. value \in Scalars /\ size \in Nat \ {0} /\ from \in Nat
      BY <1>6, <2>1, LeafFacts
    <3>2. Holds(buf, from, value, size)
      BY <1>2, <1>4, <1>6, <2>1, Zenon
    <3>3. back' = [back EXCEPT ![at] = Copied(buf, cur, size)] /\ cur' = cur + size /\ cur = from + 1
      BY <1>2, <2>1 DEF ReadTurn
    <3>4. buf \in Seq(Scalars \X Nat \X Nat)
      BY DEF ReadInv
    <3>5. SizeAt(type, at) = size
      BY <2>1 DEF SizeAt
    <3> HIDE DEF from, value, size
    <3>6. Copied(buf, from + 1, size) = value
      BY <3>1, <3>2, <3>4, HeldIsCopied
    <3>7. back' = [back EXCEPT ![at] = value]
      BY <3>3, <3>6
    <3>8. cur' = count[k + 1] + 1
      <4>1. count[k + 1] = from + size
        BY <1>7, <3>5 DEF from
      <4> QED
        BY <3>1, <3>3, <4>1
    <3>9. back \in [Leaves(type) -> Scalars]
      BY <1>9 DEF Objects
    <3>10. back' \in [Leaves(type) -> Scalars] /\ \A p \in Leaves(type) : back'[p] = IF p = at THEN value ELSE back[p]
      BY <2>1, <3>1, <3>7, <3>9
    <3>11. \A p \in Leaves(type) : Passed(p, at') => back'[p] = obj[p]
      BY <1>8, <1>9, <3>10, Zenon DEF value
    <3> QED
      BY <3>8, <3>10, <3>11 DEF Objects
  <2>2. CASE at \notin Leaves(type)
    <3>1. back' = back /\ cur' = cur /\ SizeAt(type, at) = 0
      BY <2>2 DEF ReadTurn, SizeAt
    <3>2. cur' = count[k + 1] + 1
      BY <1>2, <1>6, <1>7, <3>1
    <3> QED
      BY <1>8, <1>9, <2>2, <3>1, <3>2, Zenon
  <2> QED
    BY <2>1, <2>2
<1>11. buf \in Seq(Scalars \X Nat \X Nat)
  BY DEF ReadInv
<1>12. \E j \in 0 .. n : place[j] = at' /\ cur' = count[j] + 1
  BY <1>6, <1>7, <1>10, Zenon
<1> QED
  BY <1>1, <1>3, <1>10, <1>11, <1>12, Zenon DEF ReadInv

(* Where the trail ends, every scalar is read and so is every byte.        *)
LEMMA CallEqualInv ==
  ASSUME type \in Types, obj \in Objects(type), ReadInv, CallEqual
  PROVE  CompareInv' /\ Stands(type, at)'
<1>1. /\ at = <<>> /\ at' = <<1>> /\ type' = type /\ obj' = obj /\ buf' = buf /\ back' = back /\ cur' = cur
      /\ other' \in {back} \cup Objects(type) /\ same' = TRUE
  BY DEF CallEqual, Calls
<1>2. PICK n, place, count :
        /\ Trail(type, obj, buf, n, place, count) /\ place[n] = <<>> /\ count[n] = Len(buf)
        /\ \E k \in 0 .. n : place[k] = at /\ cur = count[k] + 1
  BY DEF ReadInv
<1>3. PICK k \in 0 .. n : place[k] = <<>> /\ cur = count[k] + 1
  BY <1>1, <1>2
<1>4. n \in Nat /\ \A j \in 0 .. n - 1 : place[j] # <<>>
  BY <1>2, Zenon DEF Trail
<1>5. k = n
  <2>1. k \in 0 .. n - 1 \/ k = n
    BY <1>4
  <2> QED
    BY <1>3, <1>4, <2>1, Zenon
<1>6. cur' = Len(buf') + 1
  BY <1>1, <1>2, <1>3, <1>5
<1>7. back = obj
  <2>1. back \in [Leaves(type) -> Scalars] /\ \A p \in Leaves(type) : back[p] = obj[p]
    BY <1>1 DEF ReadInv, Passed, Objects
  <2> QED
    BY <2>1 DEF Objects
<1>8. Stands(type, <<1>>) /\ \A p \in Leaves(type) : ~Passed(p, <<1>>)
  BY WalkBegins DEF Leaves
<1>9. other' \in Objects(type)
  BY <1>1, <1>7
<1> QED
  BY <1>1, <1>6, <1>7, <1>8, <1>9, Zenon DEF CompareInv

(* equal has compared what it passed, or has found two that differ and     *)
(* never forgets it.                                                       *)
LEMMA CompareTurnInv ==
  ASSUME type \in Types, CompareInv, CompareTurn, Stands(type, at)
  PROVE  CompareInv' /\ Stands(type, at)'
<1> DEFINE Alike(p) == <<obj[p], other[p]>> \in Equal
<1>1. /\ at # <<>> /\ type' = type /\ obj' = obj /\ buf' = buf /\ back' = back /\ cur' = cur /\ other' = other
      /\ same' = (same /\ (at \in Leaves(type) => Alike(at)))
      /\ at' = IF at \in Fields(type) /\ ~same THEN After(at) ELSE Walked(type, at)
  BY DEF CompareTurn
<1>2. /\ same => \A p \in Leaves(type) : Passed(p, at) => Alike(p)
      /\ ~same => \E p \in Leaves(type) : ~Alike(p)
  BY DEF CompareInv
<1>3. back' = obj' /\ cur' = Len(buf') + 1 /\ other' \in Objects(type')
  BY <1>1 DEF CompareInv
<1>4. Stands(type', at')
  BY <1>1, BehindStands, WalkStands
<1>5. \A p \in Leaves(type) : Passed(p, Walked(type, at)) <=> Passed(p, at) \/ p = at
  BY <1>1, WalkPasses DEF Leaves
<1> HIDE DEF Alike
<1>6. ASSUME same' PROVE \A p \in Leaves(type) : Passed(p, at') => Alike(p)
  <2>1. same /\ (at \in Leaves(type) => Alike(at)) /\ at' = Walked(type, at)
    BY <1>1, <1>6, Zenon
  <2> QED
    BY <1>2, <1>5, <2>1, Zenon
<1>7. ASSUME ~same' PROVE \E p \in Leaves(type) : ~Alike(p)
  BY <1>1, <1>2, <1>7, Zenon
<1>8. same' \in BOOLEAN
  BY <1>1, Zenon
<1>9. /\ same' => \A p \in Leaves(type') : Passed(p, at') => <<obj'[p], other'[p]>> \in Equal
      /\ ~same' => \E p \in Leaves(type') : <<obj'[p], other'[p]>> \notin Equal
  BY <1>1, <1>6, <1>7, Zenon DEF Alike
<1> QED
  BY <1>3, <1>4, <1>8, <1>9, Zenon DEF CompareInv

-----------------------------------------------------------------------------
(* Each call of main has its own account of what the walk has passed.      *)
SerdeInv ==
  /\ type \in Types /\ obj \in Objects(type) /\ phase \in {"json", "write", "read", "compare", "done"}
  /\ Stands(type, at)
  /\ phase = "json" => JsonInv
  /\ phase = "write" => WriteInv
  /\ phase = "read" => ReadInv
  /\ phase \in {"compare", "done"} => CompareInv
  /\ phase = "done" => at = <<>>

(* It holds when main calls to_json.                                       *)
LEMMA SerdeInvStarts == ASSUME SerdeInit PROVE SerdeInv
<1>1. type \in Types /\ obj \in Objects(type) /\ phase = "json" /\ at = <<1>>
  BY DEF SerdeInit
<1>2. Stands(type, at)
  BY <1>1, WalkBegins
<1>3. JsonInv
  BY JsonBegins
<1> QED
  BY <1>1, <1>2, <1>3 DEF SerdeInv

(* Every turn, every end of a loop and every call of main keeps it.        *)
LEMMA SerdeInvKept == ASSUME SerdeInv, [SerdeNext]_serdeVars PROVE SerdeInv'
<1>1. /\ type \in Types /\ obj \in Objects(type) /\ Stands(type, at)
      /\ phase \in {"json", "write", "read", "compare", "done"}
  BY DEF SerdeInv
<1>2. ASSUME at # <<>>, at' = Walked(type, at), type' = type PROVE Stands(type, at)'
  BY <1>1, <1>2, WalkStands
<1>3. CASE JsonTurn
  <2>1. /\ phase = "json" /\ at # <<>> /\ at' = Walked(type, at) /\ type' = type /\ obj' = obj /\ phase' = phase
    BY <1>3 DEF JsonTurn, Fields
  <2>2. JsonInv'
    BY <1>1, <1>3, <2>1, JsonTurnInv DEF SerdeInv
  <2> QED
    BY <1>1, <1>2, <2>1, <2>2 DEF SerdeInv
<1>4. CASE JsonEnd
  <2>1. /\ phase = "json" /\ at' = Walked(type, at) /\ type' = type /\ obj' = obj /\ phase' = phase
    BY <1>4 DEF JsonEnd
  <2>2. at # <<>>
    BY <1>1, <1>4, TypesAreTrees DEF JsonEnd
  <2>3. JsonInv'
    BY <1>1, <1>4, <2>1, <2>2, JsonEndInv DEF SerdeInv
  <2> QED
    BY <1>1, <1>2, <2>1, <2>2, <2>3 DEF SerdeInv
<1>5. CASE CallWrite
  <2>1. type' = type /\ obj' = obj /\ phase' = "write"
    BY <1>5 DEF CallWrite, Calls
  <2>2. WriteInv' /\ Stands(type, at)'
    BY <1>1, <1>5, CallWriteInv
  <2> QED
    BY <1>1, <2>1, <2>2 DEF SerdeInv
<1>6. CASE WriteTurn
  <2>1. /\ phase = "write" /\ at # <<>> /\ at' = Walked(type, at) /\ type' = type /\ obj' = obj /\ phase' = phase
    BY <1>6 DEF WriteTurn
  <2>2. WriteInv'
    BY <1>1, <1>6, <2>1, WriteTurnInv DEF SerdeInv
  <2> QED
    BY <1>1, <1>2, <2>1, <2>2 DEF SerdeInv
<1>7. CASE CallRead
  <2>1. phase = "write" /\ type' = type /\ obj' = obj /\ phase' = "read"
    BY <1>7 DEF CallRead, Calls
  <2>2. ReadInv' /\ Stands(type, at)'
    BY <1>1, <1>7, <2>1, CallReadInv DEF SerdeInv
  <2> QED
    BY <1>1, <2>1, <2>2 DEF SerdeInv
<1>8. CASE ReadTurn
  <2>1. /\ phase = "read" /\ at # <<>> /\ at' = Walked(type, at) /\ type' = type /\ obj' = obj /\ phase' = phase
    BY <1>8 DEF ReadTurn
  <2>2. ReadInv'
    BY <1>1, <1>8, <2>1, ReadTurnInv DEF SerdeInv
  <2> QED
    BY <1>1, <1>2, <2>1, <2>2 DEF SerdeInv
<1>9. CASE CallEqual
  <2>1. phase = "read" /\ type' = type /\ obj' = obj /\ phase' = "compare"
    BY <1>9 DEF CallEqual, Calls
  <2>2. CompareInv' /\ Stands(type, at)'
    BY <1>1, <1>9, <2>1, CallEqualInv DEF SerdeInv
  <2> QED
    BY <1>1, <2>1, <2>2 DEF SerdeInv
<1>10. CASE CompareTurn
  <2>1. phase = "compare" /\ type' = type /\ obj' = obj /\ phase' = phase
    BY <1>10 DEF CompareTurn
  <2>2. CompareInv' /\ Stands(type, at)'
    BY <1>1, <1>10, <2>1, CompareTurnInv DEF SerdeInv
  <2> QED
    BY <1>1, <2>1, <2>2 DEF SerdeInv
<1>11. CASE Finish
  <2>1. /\ phase = "compare" /\ at = <<>> /\ at' = <<>> /\ phase' = "done"
        /\ UNCHANGED <<type, obj, out, first, buf, back, cur, other, same>>
    BY <1>11 DEF Finish, Calls
  <2>2. CompareInv'
    BY <2>1 DEF SerdeInv, CompareInv
  <2>3. Stands(type, at)'
    BY <2>1 DEF Stands
  <2> QED
    BY <1>1, <2>1, <2>2, <2>3 DEF SerdeInv
<1>12. CASE UNCHANGED serdeVars
  BY <1>12 DEF serdeVars, SerdeInv, JsonInv, WriteInv, ReadInv, CompareInv
<1> QED
  BY <1>3, <1>4, <1>5, <1>6, <1>7, <1>8, <1>9, <1>10, <1>11, <1>12 DEF SerdeNext

(* When to_json has returned, its text is one JSON object with every field *)
(* of the object once, in order, and nested as the aggregates are, for any *)
(* types and texts (to_json serialize_poc.cpp:65-77).                      *)
THEOREM JsonIsTheObjectHolds == SerdeSpec => []JsonIsTheObject
<1>1. SerdeInit => SerdeInv
  BY SerdeInvStarts
<1>2. SerdeInv /\ [SerdeNext]_serdeVars => SerdeInv'
  BY SerdeInvKept
<1>3. SerdeInv => JsonIsTheObject
  <2>1. CASE phase = "json" /\ at = <<>>
    BY <2>1, JsonEnds DEF SerdeInv
  <2>2. CASE ~(phase = "json" /\ at = <<>>)
    BY <2>2 DEF JsonIsTheObject
  <2> QED
    BY <2>1, <2>2
<1> QED
  BY <1>1, <1>2, <1>3, PTL DEF SerdeSpec

(* What read makes of the bytes is the object, and the cursor is at their  *)
(* end; equal answers for every scalar of two objects (read                *)
(* serialize_poc.cpp:105-117, equal :134-149).                             *)
THEOREM SerdeRoundTripsHolds == SerdeSpec => []SerdeRoundTrips
<1>1. SerdeInit => SerdeInv
  BY SerdeInvStarts
<1>2. SerdeInv /\ [SerdeNext]_serdeVars => SerdeInv'
  BY SerdeInvKept
<1>3. SerdeInv => SerdeRoundTrips
  <2> SUFFICES ASSUME SerdeInv PROVE SerdeRoundTrips
    OBVIOUS
  <2>1. phase \in {"compare", "done"} => back = obj /\ cur = Len(buf) + 1
    BY DEF SerdeInv, CompareInv
  <2>2. ASSUME phase = "done" PROVE same <=> \A p \in Leaves(type) : <<obj[p], other[p]>> \in Equal
    <3>1. CompareInv /\ at = <<>>
      BY <2>2 DEF SerdeInv
    <3>2. \A p \in Leaves(type) : Passed(p, at)
      BY <3>1 DEF Passed
    <3> QED
      BY <3>1, <3>2, Zenon DEF CompareInv
  <2> QED
    BY <2>1, <2>2, Zenon DEF SerdeRoundTrips
<1> QED
  BY <1>1, <1>2, <1>3, PTL DEF SerdeSpec
=============================================================================
