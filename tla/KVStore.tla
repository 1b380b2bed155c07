------------------------------ MODULE KVStore ------------------------------
(***************************************************************************)
(* leveldbtest.h, the fixture of the leveldb run: handles that own a DB of *)
(* one name, and a batch filled beside them. LevelDB itself is external: a *)
(* DB is open in one handle at a time, its options decide whether a        *)
(* missing or an existing one may be opened, and a write that returned is  *)
(* what a later DB of the name reads.                                      *)
(***************************************************************************)
EXTENDS Integers, Sequences

CONSTANTS
  Stores,   \* the KVStore objects that Python holds
  Keys, Values,
  MaxBatch, \* bound: operations in the batch
  MaxAcked  \* bound: operations acknowledged since the database was last destroyed

None == "none"

VARIABLES
  db,      \* the handles whose db_ is not null
  locked,  \* the handles whose DB is open: a DB that is dropped undeleted stays here
  exists,  \* whether the database is there on disk
  disk,    \* what it holds
  batch,   \* the operations gathered in the WriteBatch
  acked,   \* history: the operations of the acknowledged writes, in order
  last     \* the last call and what it returned

kvVars == <<db, locked, exists, disk, batch, acked, last>>

Empty == [k \in Keys |-> None]

Said(call, store, ok, value, why) ==
  last' = [call |-> call, store |-> store, ok |-> ok, value |-> value, why |-> why]

Op(key, value) == [key |-> key, value |-> value]

KVInit ==
  /\ db = {} /\ locked = {} /\ exists = FALSE /\ disk = Empty
  /\ batch = <<>> /\ acked = <<>>
  /\ last = [call |-> None, store |-> None, ok |-> TRUE, value |-> None, why |-> None]

-----------------------------------------------------------------------------
\* Fault: the handle is overwritten, its DB never deleted.
ReleaseNothing(store) == locked

\* open deletes the DB that the handle owns before it opens one.
Release(store) == locked \ {store}

WhyNot(held, create, error) ==
  CASE held # {}             -> "locked"
    [] ~exists /\ ~create    -> "missing"
    [] exists /\ error       -> "present"
    [] OTHER                 -> None

Open(store, create, error) ==
  LET held == Release(store)
      why  == WhyNot(held, create, error)
  IN  /\ locked' = IF why = None THEN held \cup {store} ELSE held
      /\ db' = IF why = None THEN db \cup {store} ELSE db \ {store}
      /\ exists' = (exists \/ why = None)
      /\ Said("open", store, why = None, None, why)
      /\ UNCHANGED <<disk, batch, acked>>

\* close, and the destructor.
Close(store) ==
  /\ locked' = locked \ {store} /\ db' = db \ {store}
  /\ Said("close", store, TRUE, None, None)
  /\ UNCHANGED <<exists, disk, batch, acked>>

\* put, delete_key and write forward to the DB, which Python must have open.
Applied(map, op) == [map EXCEPT ![op.key] = op.value]

\* What the database holds after each of the operations, which take effect in their order.
Replay(map, ops) ==
  LET after[n \in 0 .. Len(ops)] == IF n = 0 THEN map ELSE Applied(after[n - 1], ops[n])
  IN  after

Commit(ops) ==
  /\ Len(acked) + Len(ops) <= MaxAcked
  /\ disk' = Replay(disk, ops)[Len(ops)]
  /\ acked' = acked \o ops

Put(store, key, value) ==
  /\ store \in db
  /\ Commit(<<Op(key, value)>>)
  /\ Said("put", store, TRUE, value, None)
  /\ UNCHANGED <<db, locked, exists, batch>>

DeleteKey(store, key) ==
  /\ store \in db
  /\ Commit(<<Op(key, None)>>)
  /\ Said("delete", store, TRUE, None, None)
  /\ UNCHANGED <<db, locked, exists, batch>>

\* batch_put and batch_delete fill the batch alone; a batch keeps what it holds when written.
BatchPut(key, value) ==
  /\ Len(batch) < MaxBatch
  /\ batch' = Append(batch, Op(key, value))
  /\ Said("batch_put", None, TRUE, value, None)
  /\ UNCHANGED <<db, locked, exists, disk, acked>>

BatchDelete(key) ==
  /\ Len(batch) < MaxBatch
  /\ batch' = Append(batch, Op(key, None))
  /\ Said("batch_delete", None, TRUE, None, None)
  /\ UNCHANGED <<db, locked, exists, disk, acked>>

\* WriteBatch::Clear, bound head-on.
ClearBatch ==
  /\ batch # <<>> /\ batch' = <<>>
  /\ Said("clear", None, TRUE, None, None)
  /\ UNCHANGED <<db, locked, exists, disk, acked>>

Write(store) ==
  /\ store \in db
  /\ Commit(batch)
  /\ Said("write", store, TRUE, None, None)
  /\ UNCHANGED <<db, locked, exists, batch>>

\* get, which makes a GetResult of the status and the value: found is an OK status.
Get(store, key) ==
  /\ store \in db
  /\ Said("get", store, disk[key] # None, disk[key], key)
  /\ UNCHANGED <<db, locked, exists, disk, batch, acked>>

\* destroy_db: LevelDB refuses while the database is open.
Destroy ==
  /\ Said("destroy", None, locked = {}, None, None)
  /\ IF locked = {}
     THEN exists' = FALSE /\ disk' = Empty /\ acked' = <<>>
     ELSE UNCHANGED <<exists, disk, acked>>
  /\ UNCHANGED <<db, locked, batch>>

KVNext ==
  \/ \E store \in Stores, create, error \in BOOLEAN : Open(store, create, error)
  \/ \E store \in Stores : Close(store)
  \/ \E store \in Stores : Write(store)
  \/ \E store \in Stores, key \in Keys, value \in Values : Put(store, key, value)
  \/ \E store \in Stores, key \in Keys : DeleteKey(store, key)
  \/ \E store \in Stores, key \in Keys : Get(store, key)
  \/ \E key \in Keys, value \in Values : BatchPut(key, value)
  \/ \E key \in Keys : BatchDelete(key)
  \/ ClearBatch
  \/ Destroy

KVSpec == KVInit /\ [][KVNext]_kvVars

-----------------------------------------------------------------------------
\* value is what the last of the operations on key wrote, None if there is none or it deleted.
LastWritten(ops, key, value) ==
  \/ value = None /\ \A i \in DOMAIN ops : ops[i].key # key
  \/ \E i \in DOMAIN ops : /\ ops[i] = Op(key, value)
                            /\ \A j \in DOMAIN ops : i < j => ops[j].key # key

(* A handle that says it is open is the one that holds the database, and   *)
(* nothing else does: an open that is told of a lock was made while ANOTHER*)
(* handle has it, so that closing, reopening and failing to open never     *)
(* locks a database for good. What a get finds is the last acknowledged    *)
(* write of the key, by whichever handle and batch, a deleted key not at   *)
(* all. (open leveldbtest.h:51-55, close :88, get :80-85.)                 *)
StoreIsFaithful ==
  /\ locked = db
  /\ last.call = "open" /\ last.why = "locked" => db \ {last.store} # {}
  /\ last.call = "get" => /\ LastWritten(acked, last.why, last.value)
                         /\ last.ok <=> last.value # None
=============================================================================
