--------------------------- MODULE KVStoreProofs ---------------------------
(***************************************************************************)
(* For any number of threads, keys and shards: the shard locks exclude     *)
(* data races on the shards' maps (RaceFreedom), each operation takes      *)
(* effect at once on one atomic map (StoreAtomic), and the counter is      *)
(* exact at every instant (SizeIsExact).  LocksAreShort has what           *)
(* LocksReleased rests on.                                                 *)
(***************************************************************************)
EXTENDS KVStore, FiniteSetTheorems, TLAPS

\* What the locks and the threads that take them look like.
LockTypes ==
  /\ pc \in [Threads -> PCs]
  /\ req \in [Threads -> Request \cup {None}]
  /\ \A t \in Threads : pc[t] # "idle" => req[t] \in Request
  /\ readers \in [Shards -> SUBSET Threads]
  /\ writer \in [Shards -> Threads \cup {None}]

Holding(t) == pc[t] \in {"find", "use", "count", "unlock"}

\* A thread past its lock statement holds the shard of its key: shared in
\* get(), alone in set() and remove().
HoldsLock ==
  \A t \in Threads : Holding(t) =>
    IF req[t].command = "Get" THEN t \in readers[Shard(t)] ELSE writer[Shard(t)] = t

\* What std::shared_mutex provides.
LocksExclude == \A s \in Shards : writer[s] # None => readers[s] = {}

LockInv == LockTypes /\ HoldsLock /\ LocksExclude

\* A request has a key, and so a shard.
LEMMA ShardFacts ==
  ASSUME NEW r \in Request
  PROVE  r.key \in Keys /\ ShardOf[r.key] \in Shards
BY StoreAssumption DEF Request

\* Before any operation no lock is held.
LEMMA LockInit == Init => LockInv
BY DEF Init, LockInv, LockTypes, HoldsLock, LocksExclude, Holding, PCs

\* The steps that neither take nor release a lock, and stay in the operation.
Inner(t) == Find(t) \/ Copy(t) \/ Overwrite(t) \/ Emplace(t) \/ EraseNothing(t) \/ Erase(t)
              \/ UpdateSize(t)

\* Such a step only moves a thread on.
LEMMA InnerFacts ==
  ASSUME NEW t \in Threads, Inner(t), LockTypes
  PROVE  /\ Holding(t)
         /\ UNCHANGED <<req, readers, writer>>
         /\ \E l \in {"use", "count", "unlock"} : pc' = [pc EXCEPT ![t] = l]
<1>1. CASE Find(t) \/ Copy(t) \/ Overwrite(t)
  BY <1>1, Zenon DEF Find, Copy, Overwrite, Goto, Holding
<1>2. CASE Emplace(t) \/ EraseNothing(t) \/ Erase(t)
  BY <1>2 DEF Emplace, EraseNothing, Erase, Goto, Holding
<1>3. CASE UpdateSize(t)
  BY <1>3 DEF UpdateSize, Goto, Holding
<1> QED BY <1>1, <1>2, <1>3 DEF Inner

\* Every step keeps the lock discipline.
LEMMA LockStep == LockInv /\ [Next]_vars => LockInv'
<1> SUFFICES ASSUME LockInv, [Next]_vars PROVE LockInv'
  BY Zenon
<1>0. \A t \in Threads : pc[t] # "idle" => Shard(t) \in Shards
  BY ShardFacts DEF LockInv, LockTypes, Shard
<1>. USE DEF LockInv, LockTypes, HoldsLock, LocksExclude, Holding, Shard, Goto, PCs
<1>1. ASSUME NEW t \in Threads, Call(t) PROVE LockInv'
  BY <1>0, <1>1 DEF Call
<1>2. ASSUME NEW t \in Threads, LockShared(t) PROVE LockInv'
  BY <1>0, <1>2, ZenonT(40) DEF LockShared
<1>3. ASSUME NEW t \in Threads, LockUnique(t) PROVE LockInv'
  BY <1>0, <1>3, NoneIsNoThread DEF LockUnique
<1>4. ASSUME NEW t \in Threads, Inner(t) PROVE LockInv'
  BY <1>0, <1>4, InnerFacts
<1>5. ASSUME NEW t \in Threads, Unlock(t) PROVE LockInv'
  <2>. DEFINE s == Shard(t)
  <2>1. /\ pc' = [pc EXCEPT ![t] = "idle"] /\ req' = [req EXCEPT ![t] = None]
        /\ readers' = [readers EXCEPT ![s] = @ \ {t}]
        /\ writer' = [writer EXCEPT ![s] = IF @ = t THEN None ELSE @]
        /\ s \in Shards
    BY <1>0, <1>5, Zenon DEF Unlock
  <2>. HIDE DEF s
  <2>2. LockTypes'
    BY <2>1, Zenon
  <2>3. LocksExclude'
    BY <2>1
  <2>4. HoldsLock'
    <3> SUFFICES ASSUME NEW u \in Threads, Holding(u)'
                 PROVE  (IF req[u].command = "Get" THEN u \in readers[Shard(u)]
                         ELSE writer[Shard(u)] = u)'
      BY Zenon
    <3>1. u # t /\ pc[u] = pc'[u] /\ req'[u] = req[u]
      BY <2>1
    <3>2. Shard(u) \in Shards
      BY <1>0, <3>1
    <3> QED BY <2>1, <3>1, <3>2, NoneIsNoThread, Zenon
  <2> QED BY <2>2, <2>3, <2>4, Zenon
<1>6. CASE UNCHANGED vars
  BY <1>6, Zenon DEF vars
<1> QED BY <1>1, <1>2, <1>3, <1>4, <1>5, <1>6, Zenon DEF Next, Step, Inner

\* The locks exclude one another.
LEMMA LocksSuffice == LockInv => NoDataRace
<1> SUFFICES ASSUME LockInv, NEW t \in Threads, NEW u \in Threads,
                    t # u, Inside(t), Inside(u), Shard(t) = Shard(u)
             PROVE  req[t].command = "Get" /\ req[u].command = "Get"
  BY DEF NoDataRace
<1>1. Holding(t) /\ Holding(u) /\ Shard(t) \in Shards
  BY ShardFacts DEF Inside, Holding, LockInv, LockTypes, Shard
<1> QED BY <1>1, NoneIsNoThread DEF LockInv, HoldsLock, LocksExclude

\* Two threads are never inside the same shard's map together unless both
\* are get()s (NoDataRace).
THEOREM RaceFreedom == Spec => []NoDataRace
BY LocksSuffice, LockInit, LockStep, PTL DEF Spec

-----------------------------------------------------------------------------
(* Each operation takes effect at once.                                    *)

\* What an operation knows: between the lookup and its use the key's entry
\* stays as it was found, and size_ lags behind an insertion or a removal.
OpInv ==
  /\ it \in [Threads -> Values \cup {None}]
  /\ ret \in [Threads -> Response \cup {None}]
  /\ map \in [Keys -> Values \cup {None}]
  /\ \A t \in Threads :
       /\ pc[t] = "idle" => req[t] = None
       /\ ret[t] # None <=> pc[t] = "unlock"
       /\ pc[t] = "use" => it[t] = map[req[t].key]
       /\ pc[t] = "count" => \/ /\ req[t].command = "Set"
                                /\ it[t] = None /\ map[req[t].key] = req[t].value
                             \/ /\ req[t].command = "Delete"
                                /\ it[t] # None /\ map[req[t].key] = None

Inv == LockInv /\ OpInv

\* Responses are responses, and never None.
LEMMA ResponseFacts ==
  ASSUME NEW r \in Request, NEW v \in Values \cup {None}
  PROVE  StoreResponse(r, v) \in Response /\ StoreResponse(r, v) # None
<1>1. StoreResponse(r, v) \in Response
  BY Zenon DEF StoreResponse, Plain, Response
<1> QED BY <1>1, NoneAssumption, Zenon

\* What requests carry.
LEMMA RequestFacts ==
  ASSUME NEW r \in Request
  PROVE  /\ r.key \in Keys
         /\ r.command \in {"Get", "Set", "Delete"}
         /\ r.command = "Set" => r.value \in Values /\ r.value # None
BY NoneAssumption DEF Request

\* While a thread is about to change an entry, no other is inside with it.
LEMMA Alone ==
  ASSUME LockInv, NEW t \in Threads, NEW u \in Threads, t # u, Inside(t), Inside(u),
         req[t].command # "Get"
  PROVE  req[t].key # req[u].key
BY LocksSuffice DEF NoDataRace, Shard

\* Every step keeps what operations know.
LEMMA OpStep == Inv /\ [Next]_vars => OpInv'
<1> SUFFICES ASSUME LockInv, OpInv, [Next]_vars PROVE OpInv'
  BY Zenon DEF Inv
<1>0. /\ pc \in [Threads -> PCs]
      /\ req \in [Threads -> Request \cup {None}]
      /\ \A t \in Threads : pc[t] # "idle" => req[t] \in Request
  BY DEF LockInv, LockTypes
<1>1. ASSUME NEW t \in Threads, Call(t) PROVE OpInv'
  BY <1>0, <1>1, ZenonT(40) DEF Call, Goto, OpInv
<1>2. ASSUME NEW t \in Threads, LockShared(t) \/ LockUnique(t) PROVE OpInv'
  BY <1>0, <1>2 DEF LockShared, LockUnique, Goto, OpInv
<1>3. ASSUME NEW t \in Threads, Find(t) PROVE OpInv'
  BY <1>0, <1>3, RequestFacts, ZenonT(30) DEF Find, Goto, OpInv
<1>4. ASSUME NEW t \in Threads, Copy(t) \/ EraseNothing(t) PROVE OpInv'
  BY <1>0, <1>4, ResponseFacts DEF Copy, EraseNothing, Goto, OpInv
<1>5. ASSUME NEW t \in Threads, Overwrite(t) PROVE OpInv'
  BY <1>0, <1>5, ResponseFacts, RequestFacts, Alone DEF Overwrite, Goto, OpInv, Inside
<1>6. ASSUME NEW t \in Threads, Emplace(t) PROVE OpInv'
  BY <1>0, <1>6, RequestFacts, Alone DEF Emplace, Goto, OpInv, Inside
<1>7. ASSUME NEW t \in Threads, Erase(t) PROVE OpInv'
  BY <1>0, <1>7, RequestFacts, Alone, ZenonT(30) DEF Erase, Goto, OpInv, Inside
<1>8. ASSUME NEW t \in Threads, UpdateSize(t) PROVE OpInv'
  BY <1>0, <1>8, ResponseFacts DEF UpdateSize, Goto, OpInv
<1>9. ASSUME NEW t \in Threads, Unlock(t) PROVE OpInv'
  BY <1>0, <1>9, ZenonT(40) DEF Unlock, Goto, OpInv
<1>10. CASE UNCHANGED vars
  BY <1>10, Zenon DEF vars, OpInv
<1> QED BY <1>1, <1>2, <1>3, <1>4, <1>5, <1>6, <1>7, <1>8, <1>9, <1>10 DEF Next, Step

\* At most one thread has an entry changed and not counted: until it counts,
\* the entry is, for everybody else, what it found.
CommittedOK ==
  \A k \in Keys : /\ Counting(k) = {} => Committed[k] = map[k]
                 /\ \A t \in Counting(k) : Committed[k] = it[t]

\* The locks see to that.
LEMMA CommittedIs == Inv => CommittedOK
<1> SUFFICES ASSUME LockInv, OpInv, NEW k \in Keys
             PROVE  /\ Counting(k) = {} => Committed[k] = map[k]
                    /\ \A t \in Counting(k) : Committed[k] = it[t]
  BY Zenon DEF Inv, CommittedOK
<1>1. \A t, u \in Counting(k) : t = u
  BY Alone DEF Counting, Inside, OpInv
<1>2. ASSUME NEW t \in Counting(k) PROVE Committed[k] = it[t]
  <2>1. (CHOOSE u \in Counting(k) : TRUE) = t
    BY <1>1, Zenon
  <2> QED BY <2>1, Zenon DEF Committed
<1> QED BY <1>2 DEF Committed

\* The same after a step.
LEMMA CommittedIsNext == Inv' => CommittedOK'
BY CommittedIs, PTL

\* Steps that leave the map alone and do not count change nothing.
LEMMA FrameStep ==
  ASSUME Inv, Inv', NEW t \in Threads,
         Call(t) \/ LockShared(t) \/ LockUnique(t) \/ Find(t) \/ Unlock(t)
               \/ Copy(t) \/ EraseNothing(t)
  PROVE  Committed' = Committed /\ size' = size
<1>0. pc \in [Threads -> PCs] /\ it \in [Threads -> Values \cup {None}]
        /\ req \in [Threads -> Request \cup {None}]
  BY Zenon DEF Inv, LockInv, LockTypes, OpInv
<1>1. /\ map' = map /\ size' = size
      /\ pc[t] # "count" /\ pc'[t] # "count"
      /\ \A u \in Threads \ {t} : pc'[u] = pc[u] /\ req'[u] = req[u] /\ it'[u] = it[u]
  BY <1>0, Zenon DEF Call, LockShared, LockUnique, Find, Unlock, Copy, EraseNothing, Goto
<1>2. \A k \in Keys : Counting(k)' = Counting(k)
  BY <1>1, Zenon DEF Counting
<1>3. \A k \in Keys : \A u \in Counting(k) : it'[u] = it[u]
  BY <1>1 DEF Counting
<1>4. ASSUME NEW k \in Keys PROVE Committed'[k] = Committed[k]
  BY <1>1, <1>2, <1>3, CommittedIs, CommittedIsNext DEF CommittedOK
<1> QED BY <1>1, <1>4, Zenon DEF Committed

\* What a step of t on the entry of its key k leaves alone.
LEMMA OtherKeys ==
  ASSUME Inv, Inv', NEW t \in Threads, NEW l \in {"count", "unlock"},
         pc[t] \in {"use", "count"}, pc' = [pc EXCEPT ![t] = l], UNCHANGED <<req, it>>,
         \A j \in Keys \ {req[t].key} : map'[j] = map[j]
  PROVE  /\ req[t] \in Request /\ req[t].key \in Keys
         /\ \A j \in Keys \ {req[t].key} : Committed'[j] = Committed[j]
<1>0. pc \in [Threads -> PCs] /\ req[t] \in Request
  BY DEF Inv, LockInv, LockTypes
<1>1. \A j \in Keys \ {req[t].key} : Counting(j)' = Counting(j)
  BY <1>0 DEF Counting
<1>2. ASSUME NEW j \in Keys \ {req[t].key} PROVE Committed'[j] = Committed[j]
  BY <1>1, CommittedIs, CommittedIsNext DEF CommittedOK
<1> QED BY <1>0, <1>2, RequestFacts, Zenon

\* An insertion or removal in the map changes nothing until it is counted.
LEMMA UncountedStep ==
  ASSUME Inv, Inv', NEW t \in Threads, Emplace(t) \/ Erase(t)
  PROVE  Committed' = Committed /\ size' = size
<1> DEFINE k == req[t].key
<1>0. pc \in [Threads -> PCs] /\ map \in [Keys -> Values \cup {None}]
  BY Zenon DEF Inv, LockInv, LockTypes, OpInv
<1>1. /\ pc[t] = "use" /\ pc' = [pc EXCEPT ![t] = "count"] /\ UNCHANGED <<req, it, size>>
      /\ req[t].command # "Get" /\ it[t] = map[k]
      /\ \A j \in Keys \ {k} : map'[j] = map[j]
  <2>1. /\ pc[t] = "use" /\ pc' = [pc EXCEPT ![t] = "count"] /\ UNCHANGED <<req, it, size>>
        /\ req[t].command # "Get"
    BY Zenon DEF Emplace, Erase, Goto
  <2>2. it[t] = map[k]
    BY <2>1, Zenon DEF Inv, OpInv
  <2>3. \E v : map' = [map EXCEPT ![k] = v]
    BY Zenon DEF Emplace, Erase
  <2>4. \A j \in Keys \ {k} : map'[j] = map[j]
    BY <1>0, <2>3, Zenon
  <2> QED BY <2>1, <2>2, <2>4, Zenon
<1>2. k \in Keys /\ \A j \in Keys \ {k} : Committed'[j] = Committed[j]
  BY <1>1, OtherKeys, Zenon
<1>3. Counting(k) = {}
  BY <1>0, <1>1, Alone, Zenon DEF Inv, Counting, Inside
<1>4. t \in Counting(k)'
  BY <1>0, <1>1, Zenon DEF Counting
<1>5. Committed'[k] = Committed[k]
  BY <1>1, <1>2, <1>3, <1>4, CommittedIs, CommittedIsNext, Zenon DEF CommittedOK
<1> QED BY <1>1, <1>2, <1>5, Zenon DEF Committed

\* The entries of the atomic map.
Entries == {k \in Keys : Committed[k] # None}

\* A step that changes the atomic map changes the entry of its key as the
\* request asks for, and the counter with it.
TakesEffect(t) ==
  LET k == req[t].key IN
    /\ req[t] \in Request /\ k \in Keys
    /\ req' = req
    /\ ret[t] = None
    /\ ret' = [ret EXCEPT ![t] = StoreResponse(req[t], Committed[k])]
    /\ Committed'[k] = StoreEffect(req[t], Committed[k])
    /\ \A j \in Keys \ {k} : Committed'[j] = Committed[j]
    /\ \/ size' = size /\ (Committed'[k] = None <=> Committed[k] = None)
       \/ size' = size + 1 /\ Committed[k] = None /\ Committed'[k] # None
       \/ size' = size - 1 /\ Committed[k] # None /\ Committed'[k] = None

\* These are the steps that make the response.
LEMMA EffectStep ==
  ASSUME Inv, Inv', NEW t \in Threads,
         Copy(t) \/ EraseNothing(t) \/ Overwrite(t) \/ UpdateSize(t)
  PROVE  TakesEffect(t)
<1>0. /\ pc \in [Threads -> PCs] /\ map \in [Keys -> Values \cup {None}]
      /\ \A u \in Threads : ret[u] # None <=> pc[u] = "unlock"
  BY Zenon DEF Inv, LockInv, LockTypes, OpInv
<1>1. /\ pc[t] \in {"use", "count"} /\ pc' = [pc EXCEPT ![t] = "unlock"]
      /\ UNCHANGED <<req, it>>
      /\ ret' = [ret EXCEPT ![t] = StoreResponse(req[t], it[t])]
      /\ \A j \in Keys \ {req[t].key} : map'[j] = map[j]
  BY <1>0, Zenon DEF Copy, EraseNothing, Overwrite, UpdateSize, Goto
<1>2. /\ req[t] \in Request /\ req[t].key \in Keys
      /\ \A j \in Keys \ {req[t].key} : Committed'[j] = Committed[j]
  BY <1>1, OtherKeys, Zenon
<1>k. PICK k \in Keys : k = req[t].key
  BY <1>2, Zenon
<1>3. Counting(k)' = Counting(k) \ {t}
  BY <1>0, <1>1, <1>k, Zenon DEF Counting
<1>4. Counting(k) \subseteq {t}
  <2> SUFFICES ASSUME NEW u \in Threads, pc[u] = "count", req[u].key = k, u # t
               PROVE  FALSE
    BY Zenon DEF Counting
  <2>1. req[u].command # "Get"
    BY Zenon DEF Inv, OpInv
  <2> QED BY <1>1, <1>k, <2>1, Alone, Zenon DEF Inv, Inside
<1>5. Committed'[k] = map'[k]
  BY <1>2, <1>3, <1>4, CommittedIsNext, Zenon DEF CommittedOK
<1>6. Committed[k] = it[t]
  <2>1. CASE pc[t] = "count"
    <3>1. t \in Counting(k)
      BY <1>k, <2>1, Zenon DEF Counting
    <3> QED BY <1>2, <3>1, CommittedIs, Zenon DEF CommittedOK
  <2>2. CASE pc[t] = "use"
    <3>1. Counting(k) = {}
      BY <1>4, <2>2, Zenon DEF Counting
    <3>2. it[t] = map[k]
      BY <1>k, <2>2, Zenon DEF Inv, OpInv
    <3> QED BY <1>2, <3>1, <3>2, CommittedIs, Zenon DEF CommittedOK
  <2> QED BY <1>1, <2>1, <2>2, Zenon
<1>7. ret[t] = None
  BY <1>0, <1>1, Zenon
<1>8. /\ map'[k] = StoreEffect(req[t], it[t])
      /\ \/ size' = size /\ (map'[k] = None <=> it[t] = None)
         \/ size' = size + 1 /\ it[t] = None /\ map'[k] # None
         \/ size' = size - 1 /\ it[t] # None /\ map'[k] = None
  <2>1. CASE Copy(t) \/ EraseNothing(t)
    <3>1. it[t] = map[k]
      BY <1>k, <2>1, Zenon DEF Copy, EraseNothing, Inv, OpInv
    <3> QED BY <2>1, <3>1, Zenon DEF Copy, EraseNothing, StoreEffect
  <2>2. CASE Overwrite(t)
    BY <1>0, <1>2, <1>k, <2>2, RequestFacts, Zenon DEF Overwrite, StoreEffect
  <2>3. CASE UpdateSize(t)
    <3>1. \/ req[t].command = "Set" /\ it[t] = None /\ map[k] = req[t].value
          \/ req[t].command = "Delete" /\ it[t] # None /\ map[k] = None
      BY <1>k, <2>3, Zenon DEF UpdateSize, Inv, OpInv
    <3> QED BY <1>2, <2>3, <3>1, RequestFacts, Zenon DEF UpdateSize, StoreEffect
  <2> QED BY <2>1, <2>2, <2>3, Zenon
<1> QED BY <1>1, <1>2, <1>k, <1>5, <1>6, <1>7, <1>8, Zenon DEF TakesEffect

\* Every step is one of these.
LEMMA StepCases ==
  ASSUME Inv, Inv', [Next]_vars
  PROVE  \/ Committed' = Committed /\ size' = size /\ UNCHANGED <<req, ret>>
         \/ \E t \in Threads :
              \/ /\ Committed' = Committed /\ size' = size
                 /\ Call(t) \/ Unlock(t)
              \/ TakesEffect(t)
<1>1. ASSUME NEW t \in Threads, LockShared(t) \/ LockUnique(t) \/ Find(t)
      PROVE  Committed' = Committed /\ size' = size /\ UNCHANGED <<req, ret>>
  <2>1. UNCHANGED <<req, ret>>
    BY <1>1, Zenon DEF LockShared, LockUnique, Find
  <2> QED BY <1>1, <2>1, FrameStep, Zenon
<1>2. ASSUME NEW t \in Threads, Emplace(t) \/ Erase(t)
      PROVE  Committed' = Committed /\ size' = size /\ UNCHANGED <<req, ret>>
  <2>1. UNCHANGED <<req, ret>>
    BY <1>2, Zenon DEF Emplace, Erase
  <2> QED BY <1>2, <2>1, UncountedStep, Zenon
<1>3. ASSUME NEW t \in Threads, Call(t) \/ Unlock(t)
      PROVE  Committed' = Committed /\ size' = size
  BY <1>3, FrameStep, Zenon
<1>4. CASE UNCHANGED vars
  BY <1>4 DEF vars, Committed, Counting
<1> QED BY <1>1, <1>2, <1>3, <1>4, EffectStep, Zenon DEF Next, Step

\* The counter follows.
LEMMA SizeStep ==
  ASSUME Inv, Inv', [Next]_vars, SizeExact
  PROVE  SizeExact'
<1>0. SizeExact <=> size = Cardinality(Entries)
  BY Zenon DEF SizeExact, Entries
<1>1. IsFiniteSet(Entries) /\ Cardinality(Entries) \in Nat
  BY StoreAssumption, FS_Subset, FS_CardinalityType DEF Entries
<1>2. CASE Committed' = Committed /\ size' = size
  BY <1>2, Zenon DEF SizeExact
<1>3. ASSUME NEW t \in Threads, TakesEffect(t)
      PROVE  SizeExact'
  <2>1. PICK k \in Keys : k = req[t].key
    BY <1>3, Zenon DEF TakesEffect
  <2>2. \A j \in Keys \ {k} : Committed'[j] = Committed[j]
    BY <1>3, <2>1, Zenon DEF TakesEffect
  <2>3. CASE size' = size /\ (Committed'[k] = None <=> Committed[k] = None)
    <3>1. Entries' = Entries
      BY <2>2, <2>3, Zenon DEF Entries
    <3> QED BY <1>0, <2>3, <3>1, Zenon DEF SizeExact, Entries
  <2>4. CASE size' = size + 1 /\ Committed[k] = None /\ Committed'[k] # None
    <3>1. Entries' = Entries \cup {k} /\ k \notin Entries
      BY <2>2, <2>4 DEF Entries
    <3>2. Cardinality(Entries') = Cardinality(Entries) + 1
      BY <1>1, <3>1, FS_AddElement, Zenon
    <3> QED BY <1>0, <2>4, <3>2, Zenon DEF SizeExact, Entries
  <2>5. CASE size' = size - 1 /\ Committed[k] # None /\ Committed'[k] = None
    <3>1. Entries' = Entries \ {k} /\ k \in Entries
      BY <2>2, <2>5, Zenon DEF Entries
    <3>2. Cardinality(Entries') = Cardinality(Entries) - 1
      BY <1>1, <3>1, FS_RemoveElement, Zenon
    <3> QED BY <1>0, <2>5, <3>2, Zenon DEF SizeExact, Entries
  <2> QED BY <1>3, <2>1, <2>3, <2>4, <2>5, Zenon DEF TakesEffect
<1> QED BY <1>2, <1>3, StepCases, Zenon

\* A step of the store is a step of the atomic map, or none.
LEMMA AtomicStep ==
  ASSUME Inv, Inv', [Next]_vars
  PROVE  [Atomic!Next]_Atomic!vars
<1>0. req \in [Threads -> Request \cup {None}] /\ ret \in [Threads -> Response \cup {None}]
  BY Zenon DEF Inv, LockInv, LockTypes, OpInv
<1>1. CASE Committed' = Committed /\ UNCHANGED <<req, ret>>
  BY <1>1 DEF Atomic!vars
<1>2. ASSUME NEW t \in Threads, Committed' = Committed, Call(t)
      PROVE  Atomic!Invoke(t)
  <2>1. req[t] = None
    BY <1>2, Zenon DEF Call, Inv, OpInv
  <2> QED BY <1>2, <2>1, Zenon DEF Call, Atomic!Invoke, Atomic!Request, Request
<1>3. ASSUME NEW t \in Threads, Committed' = Committed, Unlock(t)
      PROVE  Atomic!Return(t)
  <2>1. ret[t] # None
    BY <1>3, Zenon DEF Unlock, Inv, OpInv
  <2> QED BY <1>3, <2>1, Zenon DEF Unlock, Atomic!Return
<1>4. ASSUME NEW t \in Threads, TakesEffect(t)
      PROVE  Atomic!TakeEffect(t)
  <2>1. req[t] # None
    BY <1>4, NoneAssumption, Zenon DEF TakesEffect
  <2>2. Committed' = [Committed EXCEPT ![req[t].key] = StoreEffect(req[t], Committed[req[t].key])]
    <3>1. Committed = [k \in Keys |-> Committed[k]] /\ Committed' = [k \in Keys |-> Committed'[k]]
      BY DEF Committed
    <3> HIDE DEF Committed
    <3> QED BY <1>4, <3>1, Zenon DEF TakesEffect
  <2> QED BY <1>4, <2>1, <2>2, Zenon
         DEF TakesEffect, Atomic!TakeEffect, Atomic!StoreResponse, Atomic!StoreEffect, Atomic!Plain,
             StoreResponse, StoreEffect, Plain
<1> QED BY <1>1, <1>2, <1>3, <1>4, StepCases, Zenon DEF Atomic!Next

\* Operations know what they know at any time.
LEMMA Invariance == Spec => []Inv
<1>1. Init => Inv
  BY LockInit, ZenonT(40) DEF Init, Inv, OpInv
<1>2. Inv /\ [Next]_vars => Inv'
  BY LockStep, OpStep DEF Inv
<1> QED BY <1>1, <1>2, PTL DEF Spec

\* Every get(), set() and remove() takes effect at one instant between its
\* call and its return: the sharded store implements one atomic map.
THEOREM StoreAtomic == Spec => OperationsAtomic
<1>1. Init => Atomic!Init
  BY Zenon DEF Init, Atomic!Init, Committed, Counting
<1>2. Inv /\ Inv' /\ [Next]_vars => [Atomic!Next]_Atomic!vars
  BY AtomicStep
<1> QED BY <1>1, <1>2, Invariance, PTL DEF Spec, OperationsAtomic, Atomic!Spec

\* size_ is the number of entries, as of the operations that took effect, at
\* every instant, and so never negative.
THEOREM SizeIsExact == Spec => [](SizeExact /\ TypeOK)
<1>1. Init => SizeExact
  <2> SUFFICES ASSUME Init PROVE SizeExact
    OBVIOUS
  <2>1. Entries = {} /\ size = 0
    BY Zenon DEF Init, Entries, Committed, Counting
  <2> QED BY <2>1, FS_EmptySet, Zenon DEF SizeExact, Entries
<1>2. Inv /\ Inv' /\ [Next]_vars /\ SizeExact => SizeExact'
  BY SizeStep
<1>3. Inv /\ SizeExact => TypeOK
  <2> SUFFICES ASSUME Inv, SizeExact PROVE TypeOK
    OBVIOUS
  <2>1. Cardinality(Entries) \in Nat
    BY StoreAssumption, FS_Subset, FS_CardinalityType, Zenon DEF Entries
  <2>2. size \in Nat
    BY <2>1 DEF SizeExact, Entries
  <2> QED BY <2>2, Zenon DEF Inv, LockInv, LockTypes, OpInv, TypeOK
<1> QED BY <1>1, <1>2, <1>3, Invariance, PTL DEF Spec

\* The variables keep their types (TypeOK); the counter in particular is never
\* decremented below zero.
THEOREM TypeCorrect == Spec => []TypeOK
  BY SizeIsExact, PTL

-----------------------------------------------------------------------------
(* What LocksReleased rests on.                                            *)

\* A lock is held only by a thread that is inside the operation it was taken
\* for, past its lock statement: no return path keeps one, and nobody waits
\* for a lock while holding another.
HeldInside ==
  \A t \in Threads, s \in Shards :
    t \in readers[s] \/ writer[s] = t => Holding(t) /\ s = Shard(t)

\* A thread that has to wait for its shard waits for one that is inside it.
WaitsForRunning ==
  \A t \in Threads :
    /\ pc[t] = "lock"
    /\ writer[Shard(t)] # None \/ (req[t].command # "Get" /\ readers[Shard(t)] # {})
    => \E u \in Threads \ {t} : Holding(u) /\ Shard(u) = Shard(t)

\* The statements that a thread inside has at most before it, lock and all.
StepsLeft == [find |-> 4, use |-> 3, count |-> 2, unlock |-> 1, idle |-> 0]

\* Whatever any thread does, one inside moves towards its return only.
HoldersAdvance ==
  \A t \in Threads :
    Holding(t) => pc'[t] = pc[t] \/ (pc'[t] # "lock" /\ StepsLeft[pc'[t]] < StepsLeft[pc[t]])

\* Every step keeps the locks with the threads inside.
LEMMA HeldStep == LockInv /\ HeldInside /\ [Next]_vars => HeldInside'
<1> SUFFICES ASSUME LockInv, HeldInside, [Next]_vars PROVE HeldInside'
  BY Zenon
<1>0. \A t \in Threads : pc[t] # "idle" => Shard(t) \in Shards
  BY ShardFacts, Zenon DEF LockInv, LockTypes, Shard
<1>. USE DEF LockInv, LockTypes, HeldInside, Holding, Shard, Goto
<1>1. ASSUME NEW t \in Threads, Call(t) PROVE HeldInside'
  BY <1>1, ZenonT(40) DEF Call
<1>2. ASSUME NEW t \in Threads, LockShared(t) PROVE HeldInside'
  BY <1>0, <1>2, Zenon DEF LockShared
<1>3. ASSUME NEW t \in Threads, LockUnique(t) PROVE HeldInside'
  BY <1>0, <1>3, Zenon DEF LockUnique
<1>4. ASSUME NEW t \in Threads, Inner(t) PROVE HeldInside'
  BY <1>4, InnerFacts, ZenonT(40)
<1>5. ASSUME NEW t \in Threads, Unlock(t) PROVE HeldInside'
  <2>1. /\ Shard(t) \in Shards /\ pc' = [pc EXCEPT ![t] = "idle"] /\ req' = [req EXCEPT ![t] = None]
        /\ readers' = [readers EXCEPT ![Shard(t)] = @ \ {t}]
        /\ writer' = [writer EXCEPT ![Shard(t)] = IF @ = t THEN None ELSE @]
    BY <1>0, <1>5, Zenon DEF Unlock
  <2>2. \A u \in Threads \ {t} : pc'[u] = pc[u] /\ req'[u] = req[u]
    BY <2>1, Zenon
  <2>3. \A u \in Threads, s \in Shards :
          u \in readers'[s] \/ writer'[s] = u => u # t /\ (u \in readers[s] \/ writer[s] = u)
    <3>1. TAKE u \in Threads, s \in Shards
    <3>2. CASE s = Shard(t)
      BY <2>1, <3>2, NoneIsNoThread, Zenon
    <3>3. CASE s # Shard(t)
      <4>1. readers'[s] = readers[s] /\ writer'[s] = writer[s]
        BY <2>1, <3>3, Zenon
      <4>2. t \notin readers[s] /\ writer[s] # t
        BY <3>3, Zenon
      <4> QED BY <4>1, <4>2, Zenon
    <3> QED BY <3>2, <3>3, Zenon
  <2>4. ASSUME NEW u \in Threads, NEW s \in Shards, u \in readers'[s] \/ writer'[s] = u
        PROVE  Holding(u)' /\ s = Shard(u)'
    <3>1. u # t /\ (u \in readers[s] \/ writer[s] = u)
      BY <2>3, <2>4, Zenon
    <3>2. Holding(u) /\ s = Shard(u)
      BY <3>1, Zenon
    <3> QED BY <2>2, <3>1, <3>2, Zenon
  <2> QED BY <2>4, Zenon
<1>6. CASE UNCHANGED vars
  BY <1>6, Zenon DEF vars
<1> QED BY <1>1, <1>2, <1>3, <1>4, <1>5, <1>6, Zenon DEF Next, Step, Inner

\* Whoever waits for a shard does so because of a thread inside it.
LEMMA WaitersHaveCause == LockInv /\ HeldInside => WaitsForRunning
<1> SUFFICES ASSUME LockInv, HeldInside, NEW t \in Threads, pc[t] = "lock",
                    writer[Shard(t)] # None \/ readers[Shard(t)] # {}
             PROVE  \E u \in Threads \ {t} : Holding(u) /\ Shard(u) = Shard(t)
  BY Zenon DEF WaitsForRunning
<1>1. Shard(t) \in Shards /\ ~Holding(t)
  BY ShardFacts, Zenon DEF LockInv, LockTypes, Shard, Holding
<1>2. PICK u \in Threads : u \in readers[Shard(t)] \/ writer[Shard(t)] = u
  BY <1>1, Zenon DEF LockInv, LockTypes
<1>3. Holding(u) /\ Shard(t) = Shard(u)
  BY <1>1, <1>2, Zenon DEF HeldInside
<1> QED BY <1>1, <1>3, Zenon

\* A step of a thread inside is one towards its return; steps of others leave
\* it where it is.
LEMMA AdvanceStep == LockInv /\ [Next]_vars => HoldersAdvance
<1> SUFFICES ASSUME LockInv, [Next]_vars, NEW t \in Threads, Holding(t)
             PROVE  pc'[t] = pc[t] \/ (pc'[t] # "lock" /\ StepsLeft[pc'[t]] < StepsLeft[pc[t]])
  BY Zenon DEF HoldersAdvance
<1>1. ASSUME NEW u \in Threads, Call(u) \/ Step(u), u # t PROVE pc'[t] = pc[t]
  BY <1>1, Zenon DEF Call, Step, LockShared, LockUnique, Find, Copy, Overwrite, Emplace,
     EraseNothing, Erase, UpdateSize, Unlock, Goto, LockInv, LockTypes
<1>2. ASSUME Call(t) \/ Step(t)
      PROVE  \/ pc[t] = "find" /\ pc'[t] = "use"
             \/ pc[t] = "use" /\ pc'[t] \in {"count", "unlock"}
             \/ pc[t] = "count" /\ pc'[t] = "unlock"
             \/ pc[t] = "unlock" /\ pc'[t] = "idle"
  BY <1>2, Zenon DEF Call, Step, LockShared, LockUnique, Find, Copy, Overwrite, Emplace,
     EraseNothing, Erase, UpdateSize, Unlock, Goto, LockInv, LockTypes, Holding
<1>3. CASE UNCHANGED vars
  BY <1>3, Zenon DEF vars
<1>4. ASSUME Call(t) \/ Step(t) PROVE pc'[t] # "lock" /\ StepsLeft[pc'[t]] < StepsLeft[pc[t]]
  <2>1. /\ StepsLeft["find"] = 4 /\ StepsLeft["use"] = 3 /\ StepsLeft["count"] = 2
        /\ StepsLeft["unlock"] = 1 /\ StepsLeft["idle"] = 0
    BY DEF StepsLeft
  <2>2. 3 < 4 /\ 2 < 3 /\ 1 < 3 /\ 1 < 2 /\ 0 < 1
    OBVIOUS
  <2>3. pc'[t] # "lock"
    BY <1>2, <1>4, Zenon
  <2>4. StepsLeft[pc'[t]] < StepsLeft[pc[t]]
    BY <1>2, <1>4, <2>1, <2>2, Zenon
  <2> QED BY <2>3, <2>4, Zenon
<1> QED BY <1>1, <1>3, <1>4, Zenon DEF Next

\* Locks are held for at most four statements of the thread that has them, none
\* of which waits for another thread, and whoever waits for a lock waits for
\* such a thread: get(), set() and remove() cannot deadlock.
THEOREM LocksAreShort ==
  Spec => [](HeldInside /\ WaitsForRunning) /\ [][HoldersAdvance]_vars
<1>1. Init => HeldInside
  BY NoneIsNoThread, Zenon DEF Init, HeldInside
<1>2. LockInv /\ HeldInside /\ [Next]_vars => HeldInside'
  BY HeldStep
<1>3. LockInv /\ HeldInside => WaitsForRunning
  BY WaitersHaveCause
<1>4. LockInv /\ [Next]_vars => [HoldersAdvance]_vars
  BY AdvanceStep
<1> QED BY <1>1, <1>2, <1>3, <1>4, LockInit, LockStep, PTL DEF Spec
=============================================================================
