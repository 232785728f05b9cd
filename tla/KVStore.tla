------------------------------ MODULE KVStore ------------------------------
(***************************************************************************)
(* The store of one server process (src/server/kv_store.cpp): shards, each *)
(* a hash map behind a std::shared_mutex, and one atomic entry counter.    *)
(* Each thread is a reactor that runs one request at a time on it          *)
(* (WorkerReactor::handle_request).  A lookup and what is then done with   *)
(* the iterator it returned are separate steps, so that it is the locks,   *)
(* not the model, that make an operation atomic.                           *)
(***************************************************************************)
EXTENDS KVTypes, Integers, FiniteSets

CONSTANTS
  Threads,   \* the reactor threads
  Shards,    \* the shards_ array
  ShardOf    \* shard_for: fnv1a_hash(key) % kShardCount

ASSUME StoreAssumption ==
  /\ IsFiniteSet(Keys)   \* a key has at most kMaxKeyLen bytes
  /\ ShardOf \in [Keys -> Shards]

VARIABLES
  pc,       \* where each thread is
  req,      \* the request it serves, None when it serves none
  it,       \* what its lookup found: the value, or None at end()
  ret,      \* its response, once known
  map,      \* the shards' maps, taken together: map[k] is None if absent
  size,     \* KVStore::size_
  readers,  \* readers[s]: the threads that hold shard s shared
  writer    \* writer[s]: the thread that holds shard s alone, or None

vars == <<pc, req, it, ret, map, size, readers, writer>>

ASSUME NoneIsNoThread == None \notin Threads

\* "idle"; "lock": about to lock the shard; "find": about to look the key
\* up; "use": about to act on the iterator; "count": about to update size_;
\* "unlock": about to release the lock and return.
PCs == {"idle", "lock", "find", "use", "count", "unlock"}

Shard(t) == ShardOf[req[t].key]

Init ==
  /\ pc = [t \in Threads |-> "idle"]
  /\ req = [t \in Threads |-> None]
  /\ it = [t \in Threads |-> None]
  /\ ret = [t \in Threads |-> None]
  /\ map = [k \in Keys |-> None]
  /\ size = 0
  /\ readers = [s \in Shards |-> {}]
  /\ writer = [s \in Shards |-> None]

Goto(t, label) == pc' = [pc EXCEPT ![t] = label]

\* handle_request() calls get, set or remove.
Call(t) ==
  /\ pc[t] = "idle"
  /\ \E r \in Request : req' = [req EXCEPT ![t] = r]
  /\ Goto(t, "lock")
  /\ UNCHANGED <<it, ret, map, size, readers, writer>>

\* Mutant: get() does not wait for a writer.
LockSharedAnyway(t) ==
  /\ pc[t] = "lock"
  /\ req[t].command = "Get"
  /\ readers' = [readers EXCEPT ![Shard(t)] = @ \cup {t}]
  /\ Goto(t, "find")
  /\ UNCHANGED <<req, it, ret, map, size, writer>>

\* std::shared_lock lock(shard.mutex), in get().
LockShared(t) ==
  /\ pc[t] = "lock"
  /\ req[t].command = "Get"
  /\ writer[Shard(t)] = None
  /\ readers' = [readers EXCEPT ![Shard(t)] = @ \cup {t}]
  /\ Goto(t, "find")
  /\ UNCHANGED <<req, it, ret, map, size, writer>>

\* Mutant: set() and remove() do not wait for the readers to leave, nor for
\* one another.
LockNothing(t) ==
  /\ pc[t] = "lock"
  /\ req[t].command # "Get"
  /\ Goto(t, "find")
  /\ UNCHANGED <<req, it, ret, map, size, readers, writer>>

\* Mutant: set() and remove() wait for one another, but not for readers.
LockIgnoringReaders(t) ==
  /\ pc[t] = "lock"
  /\ req[t].command # "Get"
  /\ writer[Shard(t)] = None
  /\ writer' = [writer EXCEPT ![Shard(t)] = t]
  /\ Goto(t, "find")
  /\ UNCHANGED <<req, it, ret, map, size, readers>>

\* std::unique_lock lock(shard.mutex), in set() and remove().
LockUnique(t) ==
  /\ pc[t] = "lock"
  /\ req[t].command # "Get"
  /\ writer[Shard(t)] = None
  /\ readers[Shard(t)] = {}
  /\ writer' = [writer EXCEPT ![Shard(t)] = t]
  /\ Goto(t, "find")
  /\ UNCHANGED <<req, it, ret, map, size, readers>>

\* shard.map.find(key); for remove(), the lookup inside erase(key).
Find(t) ==
  /\ pc[t] = "find"
  /\ it' = [it EXCEPT ![t] = map[req[t].key]]
  /\ Goto(t, "use")
  /\ UNCHANGED <<req, ret, map, size, readers, writer>>

\* get(): copy the value out, if there is one.
Copy(t) ==
  /\ pc[t] = "use"
  /\ req[t].command = "Get"
  /\ ret' = [ret EXCEPT ![t] = StoreResponse(req[t], it[t])]
  /\ Goto(t, "unlock")
  /\ UNCHANGED <<req, it, map, size, readers, writer>>

\* Mutant: an overwrite is counted as well.
OverwriteAndCount(t) ==
  /\ pc[t] = "use"
  /\ req[t].command = "Set"
  /\ it[t] # None
  /\ map' = [map EXCEPT ![req[t].key] = req[t].value]
  /\ Goto(t, "count")
  /\ UNCHANGED <<req, it, ret, size, readers, writer>>

\* set() of a key that is there: it->second = std::move(value).
Overwrite(t) ==
  /\ pc[t] = "use"
  /\ req[t].command = "Set"
  /\ it[t] # None
  /\ map' = [map EXCEPT ![req[t].key] = req[t].value]
  /\ ret' = [ret EXCEPT ![t] = StoreResponse(req[t], it[t])]
  /\ Goto(t, "unlock")
  /\ UNCHANGED <<req, it, size, readers, writer>>

\* set() of a new key.  emplace() leaves an entry that is there alone.
Emplace(t) ==
  /\ pc[t] = "use"
  /\ req[t].command = "Set"
  /\ it[t] = None
  /\ map' = [map EXCEPT ![req[t].key] = IF @ = None THEN req[t].value ELSE @]
  /\ Goto(t, "count")
  /\ UNCHANGED <<req, it, ret, size, readers, writer>>

\* Mutant: the early return does not release the lock.
EraseNothingLocked(t) ==
  /\ pc[t] = "use"
  /\ req[t].command = "Delete"
  /\ it[t] = None
  /\ req' = [req EXCEPT ![t] = None]
  /\ Goto(t, "idle")
  /\ UNCHANGED <<it, ret, map, size, readers, writer>>

\* remove() of a key that is not there returns false.
EraseNothing(t) ==
  /\ pc[t] = "use"
  /\ req[t].command = "Delete"
  /\ it[t] = None
  /\ ret' = [ret EXCEPT ![t] = StoreResponse(req[t], it[t])]
  /\ Goto(t, "unlock")
  /\ UNCHANGED <<req, it, map, size, readers, writer>>

Erase(t) ==
  /\ pc[t] = "use"
  /\ req[t].command = "Delete"
  /\ it[t] # None
  /\ map' = [map EXCEPT ![req[t].key] = None]
  /\ Goto(t, "count")
  /\ UNCHANGED <<req, it, ret, size, readers, writer>>

\* size_.fetch_add(1) in set(), size_.fetch_sub(1) in remove().
UpdateSize(t) ==
  /\ pc[t] = "count"
  /\ size' = IF req[t].command = "Set" THEN size + 1 ELSE size - 1
  /\ ret' = [ret EXCEPT ![t] = StoreResponse(req[t], it[t])]
  /\ Goto(t, "unlock")
  /\ UNCHANGED <<req, it, map, readers, writer>>

\* The lock's destructor, and the return to handle_request().
Unlock(t) ==
  /\ pc[t] = "unlock"
  /\ readers' = [readers EXCEPT ![Shard(t)] = @ \ {t}]
  /\ writer' = [writer EXCEPT ![Shard(t)] = IF @ = t THEN None ELSE @]
  /\ req' = [req EXCEPT ![t] = None]
  /\ it' = [it EXCEPT ![t] = None]
  /\ ret' = [ret EXCEPT ![t] = None]
  /\ Goto(t, "idle")
  /\ UNCHANGED <<map, size>>

Step(t) ==
  \/ LockShared(t) \/ LockUnique(t) \/ Find(t)
  \/ Copy(t) \/ Overwrite(t) \/ Emplace(t) \/ EraseNothing(t) \/ Erase(t)
  \/ UpdateSize(t) \/ Unlock(t)

Next == \E t \in Threads : Call(t) \/ Step(t)

Spec == Init /\ [][Next]_vars

\* Threads that can run are run.
FairSpec == Spec /\ \A t \in Threads : WF_vars(Step(t))

-----------------------------------------------------------------------------
(* Properties.                                                             *)

\* The states of each variable.
TypeOK ==
  /\ pc \in [Threads -> PCs]
  /\ req \in [Threads -> Request \cup {None}]
  /\ it \in [Threads -> Values \cup {None}]
  /\ ret \in [Threads -> Response \cup {None}]
  /\ map \in [Keys -> Values \cup {None}]
  /\ size \in Nat
  /\ readers \in [Shards -> SUBSET Threads]
  /\ writer \in [Shards -> Threads \cup {None}]

\* Two threads are between the lookup in a shard's map and the end of what
\* they do there only if both are get()s.
Inside(t) == pc[t] \in {"find", "use", "count"}
NoDataRace ==
  \A t, u \in Threads :
    t # u /\ Inside(t) /\ Inside(u) /\ Shard(t) = Shard(u)
      => req[t].command = "Get" /\ req[u].command = "Get"

\* The map as of the operations that took effect: an insertion or a removal
\* does when it updates size_.
Counting(k) == {t \in Threads : pc[t] = "count" /\ req[t].key = k}
Committed ==
  [k \in Keys |-> IF Counting(k) = {} THEN map[k]
                  ELSE it[CHOOSE t \in Counting(k) : TRUE]]

\* kv_store.hpp: size() is exact and lock-free.  At every instant size_ is
\* the number of entries of the map as of the operations that took effect,
\* although it is read without any lock; in particular it never wraps.
SizeExact == size = Cardinality({k \in Keys : Committed[k] # None})

\* Every operation is atomic: the sharded store implements one atomic map,
\* on which each operation takes effect at once, between call and return.
Atomic == INSTANCE AtomicKV WITH
            Clients <- Threads, kv <- Committed, call <- req, ret <- ret
OperationsAtomic == Atomic!Spec

\* No shard stays locked: whoever holds one releases it, on every return path.
Holds(t) == \E s \in Shards : t \in readers[s] \/ writer[s] = t
LocksReleased == \A t \in Threads : Holds(t) ~> ~Holds(t)
=============================================================================
