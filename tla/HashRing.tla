------------------------------ MODULE HashRing ------------------------------
(***************************************************************************)
(* ConsistentHashRing (src/common/hash_ring.cpp) as its users see it: the  *)
(* router and kvhashreport add nodes and look keys up, the tests also      *)
(* remove nodes.  Nothing changes the ring during a lookup.  Virtual nodes *)
(* may share a position, and an id may be added twice.                     *)
(***************************************************************************)
EXTENDS Ring

CONSTANTS
  Nodes,       \* node ids
  Placements,  \* where the hash function may put the virtual nodes of each
  MaxNodes,    \* bound on the length of nodes_
  MaxCount     \* the largest replication factor asked for

ASSUME HashRingAssumption ==
  /\ IsFiniteSet(Nodes)
  /\ Placements \subseteq [Nodes -> SUBSET Positions]
  /\ MaxNodes \in Nat /\ MaxCount \in Nat \ {0}

VARIABLES
  place,   \* place[n]: the positions of the virtual nodes of n, fewer than
           \*   virtual_nodes_per_node_ if some have the same hash
  ring,    \* ring_
  copies,  \* how often each id is in nodes_, whose order nothing uses
  pc,      \* "idle", or "walk" in the loop of get_nodes()
  hash,    \* fnv1a_hash(key) of the lookup
  count,   \* the number of nodes to return, after the min()
  asked,   \* the count its caller asked for
  it,      \* its iterator: a position, or End
  result   \* what it collected

lookupVars == <<pc, hash, count, asked, it, result>>
vars == <<place, ring, copies, lookupVars>>

Present == {n \in Nodes : copies[n] > 0}

\* nodes_.size()
NodeCount == Cardinality({x \in Nodes \X (1 .. MaxNodes) : x[2] <= copies[x[1]]})

Init ==
  /\ place \in Placements
  /\ ring = <<>>
  /\ copies = [n \in Nodes |-> 0]
  /\ pc = "idle" /\ hash = 0 /\ count = 0 /\ asked = 0 /\ it = End /\ result = <<>>

AddNode(n) ==
  /\ pc = "idle"
  /\ NodeCount < MaxNodes
  /\ ring' = WithNode(ring, n, place[n])
  /\ copies' = [copies EXCEPT ![n] = @ + 1]
  /\ UNCHANGED <<place, lookupVars>>

RemoveNode(n) ==
  /\ pc = "idle"
  /\ ring' = WithoutNode(ring, place[n])
  /\ copies' = [copies EXCEPT ![n] = 0]
  /\ UNCHANGED <<place, lookupVars>>

\* Mutant: the count is limited to one less than the number of nodes.
StartLookupShort ==
  /\ pc = "idle"
  /\ DOMAIN ring # {}
  /\ \E h \in Positions, c \in 1 .. MaxCount :
       /\ hash' = h
       /\ asked' = c
       /\ count' = IF c < NodeCount THEN c ELSE NodeCount - 1
       /\ it' = LowerBound(ring, h)
  /\ result' = <<>>
  /\ pc' = "walk"
  /\ UNCHANGED <<place, ring, copies>>

\* get_nodes(key, c) up to its loop, on a ring that has positions.  It throws
\* on one that has none, be it for want of nodes or of virtual nodes.
StartLookup ==
  /\ pc = "idle"
  /\ DOMAIN ring # {}
  /\ \E h \in Positions, c \in 1 .. MaxCount :
       /\ hash' = h
       /\ asked' = c
       /\ count' = IF c < NodeCount THEN c ELSE NodeCount
       /\ it' = LowerBound(ring, h)
  /\ result' = <<>>
  /\ pc' = "walk"
  /\ UNCHANGED <<place, ring, copies>>

\* Mutant: a node is collected once per virtual node.
WalkWithRepeats ==
  /\ pc = "walk"
  /\ Len(result) < count
  /\ LET p == Wrap(ring, it) IN
       /\ result' = Append(result, ring[p])
       /\ it' = LowerBound(ring, p + 1)
  /\ UNCHANGED <<place, ring, copies, pc, hash, count, asked>>

\* Mutant: the walk ends at the end of the map.
WalkWithoutWrap ==
  /\ pc = "walk"
  /\ Len(result) < count
  /\ it # End
  /\ result' = IF \E i \in DOMAIN result : result[i] = ring[it] THEN result
               ELSE Append(result, ring[it])
  /\ it' = LowerBound(ring, it + 1)
  /\ UNCHANGED <<place, ring, copies, pc, hash, count, asked>>

\* Mutant: the iterator moves by one position, not to the next entry.
WalkByOne ==
  /\ pc = "walk"
  /\ Len(result) < count
  /\ LET p == Wrap(ring, it) IN
       /\ result' = IF \E i \in DOMAIN result : result[i] = ring[p] THEN result
                    ELSE Append(result, ring[p])
       /\ it' = p + 1
  /\ UNCHANGED <<place, ring, copies, pc, hash, count, asked>>

\* One iteration of the loop.
Walk ==
  /\ pc = "walk"
  /\ Len(result) < count
  /\ LET p == Wrap(ring, it) IN
       /\ result' = IF \E i \in DOMAIN result : result[i] = ring[p] THEN result
                    ELSE Append(result, ring[p])
       /\ it' = LowerBound(ring, p + 1)
  /\ UNCHANGED <<place, ring, copies, pc, hash, count, asked>>

EndLookup ==
  /\ pc = "walk"
  /\ Len(result) >= count
  /\ pc' = "idle"
  /\ hash' = 0 /\ count' = 0 /\ asked' = 0 /\ it' = End /\ result' = <<>>
  /\ UNCHANGED <<place, ring, copies>>

Lookup == StartLookup \/ Walk \/ EndLookup

Next == Lookup \/ \E n \in Nodes : AddNode(n) \/ RemoveNode(n)

Spec == Init /\ [][Next]_vars

\* A lookup that was started runs.
FairSpec == Spec /\ WF_vars(Walk) /\ WF_vars(EndLookup)

-----------------------------------------------------------------------------
(* Properties.                                                             *)

\* The states of each variable.  The iterator of a lookup is at an entry of
\* the map, which is not empty, or at its end.
TypeOK ==
  /\ place \in [Nodes -> SUBSET Positions]
  /\ DOMAIN ring \subseteq Positions /\ ring \in [DOMAIN ring -> Nodes]
  /\ copies \in [Nodes -> Nat]
  /\ pc \in {"idle", "walk"}
  /\ hash \in Positions /\ result \in Seq(Nodes)
  /\ asked \in 0 .. MaxCount /\ count \in 0 .. asked
  /\ it = End \/ (pc = "walk" /\ it \in DOMAIN ring)
  /\ pc = "walk" => DOMAIN ring # {}

\* After any sequence of add_node and remove_node, a position of the ring is
\* one of a node present, and a node present has every position that it
\* does not share.
RingIsNodes ==
  /\ \A p \in DOMAIN ring : ring[p] \in Present /\ p \in place[ring[p]]
  /\ \A n \in Present : \A p \in place[n] :
       (\A m \in Nodes \ {n} : p \notin place[m]) => p \in DOMAIN ring

\* At any time, what get_nodes() has collected is a preference list: distinct
\* nodes in clockwise order, beginning with get_node(key).
LookupInOrder ==
  pc = "walk" =>
    /\ IsPreferenceList(result, ring, hash)
    /\ result # <<>> => result[1] = Owner(ring, hash)

\* It returns as many nodes as it was asked for, or all there are.
LookupComplete ==
  pc = "walk" /\ Len(result) = count =>
    \/ Len(result) = asked
    \/ Len(result) < asked /\ Len(result) = Cardinality(OnRing(ring))

\* hash_ring.hpp: adding or removing a node moves only the keys that it will
\* own or owned, or that were owned through a position it shares.
OnlyItsKeysMove ==
  [][DOMAIN ring # {} /\ DOMAIN ring' # {} =>
       \A h \in Positions :
         Owner(ring', h) # Owner(ring, h)
           => \E n \in Nodes :
                \/ AddNode(n) /\ Owner(ring', h) = n
                \/ RemoveNode(n) /\ Wrap(ring, LowerBound(ring, h)) \in place[n]]_<<ring, copies>>

\* The same for replicas: a new node that shares no position takes the place
\* of at most one replica of a key, and brings in no other.
OnlyItselfJoins ==
  [][\A n \in Nodes : AddNode(n) /\ place[n] \cap DOMAIN ring = {} =>
       \A h \in Positions, c \in 1 .. MaxCount :
         Replicas(ring', h, c) \ Replicas(ring, h, c) \subseteq {n}]_<<ring, copies>>

\* What kvhashreport measures when a node is added is the new node's share:
\* as many keys move as it owns afterwards.
RemapIsNewShare ==
  [][\A n \in Nodes \ Present : AddNode(n) /\ DOMAIN ring # {} =>
       KeysMoved(ring, ring', Positions)
         = KeyCounts(ring', Nodes, Positions)[n]]_<<ring, copies>>

\* get_nodes() returns if the ring has as many distinct nodes as it counts to,
\* which is the case if no id was added twice and no node lost all of its
\* positions to others.  (LookupInOrder implies the converse.)
LookupReturns == pc = "walk" /\ count <= Cardinality(OnRing(ring)) ~> pc = "idle"
=============================================================================
