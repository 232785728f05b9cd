-------------------------------- MODULE Ring --------------------------------
(***************************************************************************)
(* The consistent hash ring as data (src/common/hash_ring.cpp): a map from *)
(* ring positions to nodes, what is looked up in it, and what kvhashreport *)
(* (src/tools/hash_report.cpp) counts on it.  Positions are the values of  *)
(* fnv1a_hash, 0 .. 2^64 - 1 in the code; a key is known by its hash.      *)
(***************************************************************************)
EXTENDS Integers, Sequences, FiniteSets

CONSTANT RingSize   \* the number of positions

ASSUME RingAssumption == RingSize \in Nat \ {0}

Positions == 0 .. RingSize - 1

\* std::map::end()
End == RingSize

Least(S) == CHOOSE p \in S : \A q \in S : p <= q

\* ring_.lower_bound(h)
LowerBound(ring, h) ==
  LET above == {p \in DOMAIN ring : p >= h}
  IN  IF above = {} THEN End ELSE Least(above)

\* An iterator, moved to begin() if it is at the end.
Wrap(ring, p) == IF p = End THEN Least(DOMAIN ring) ELSE p

\* Mutant: modulo hashing over the positions.
OwnerByModulo(ring, h) ==
  LET k == h % Cardinality(DOMAIN ring)
  IN  ring[CHOOSE p \in DOMAIN ring : Cardinality({q \in DOMAIN ring : q < p}) = k]

\* get_node(), on a ring that has nodes.
Owner(ring, h) == ring[Wrap(ring, LowerBound(ring, h))]

\* Mutant: a virtual node also takes over the position that follows it.
WithNodeAndNext(ring, n, P) ==
  LET next == {LowerBound(ring, p) : p \in P}
  IN  [p \in DOMAIN ring \cup P |-> IF p \in P \cup next THEN n ELSE ring[p]]

\* The body of add_node()'s and of remove_node()'s loop, for all virtual
\* nodes of n, which are at the positions P.
WithNode(ring, n, P) == [p \in DOMAIN ring \cup P |-> IF p \in P THEN n ELSE ring[p]]

\* Mutant: the loop leaves one virtual node out.
WithoutMost(ring, P) == [p \in DOMAIN ring \ {q \in P : \E r \in P : r < q} |-> ring[p]]

WithoutNode(ring, P) == [p \in DOMAIN ring \ P |-> ring[p]]

-----------------------------------------------------------------------------
(* kvhashreport, for a set of keys.                                        *)

\* compute_ring_balance(): how many keys each of the nodes gets.
KeyCounts(ring, ids, keys) ==
  [id \in ids |-> Cardinality({h \in keys : Owner(ring, h) = id})]

\* Mutant: the owners to compare with are looked up after the addition.
KeysMovedTooLate(before, after, keys) ==
  Cardinality({h \in keys : Owner(after, h) # Owner(after, h)})

\* ring_remap_fraction(): how many keys have another owner afterwards.
KeysMoved(before, after, keys) ==
  Cardinality({h \in keys : Owner(after, h) # Owner(before, h)})

-----------------------------------------------------------------------------
(* The reference: nodes ordered by how far clockwise from the key their    *)
(* nearest virtual node is.                                                *)

\* The nodes that have a position.
OnRing(ring) == {ring[p] : p \in DOMAIN ring}

Clockwise(h, p) == IF p >= h THEN p - h ELSE p - h + RingSize

Distance(ring, h, n) == Least({Clockwise(h, p) : p \in {q \in DOMAIN ring : ring[q] = n}})

\* The first count nodes on the ring, seen from h.
Replicas(ring, h, count) ==
  {n \in OnRing(ring) :
     Cardinality({m \in OnRing(ring) : Distance(ring, h, m) < Distance(ring, h, n)}) < count}

\* list is a preference list of h: nodes on the ring in the order of their
\* distance, none of them passed over.
IsPreferenceList(list, ring, h) ==
  LET D(n) == Distance(ring, h, n)
      listed == {list[i] : i \in DOMAIN list}
  IN  /\ listed \subseteq OnRing(ring)
      /\ \A i, j \in DOMAIN list : i < j => D(list[i]) < D(list[j])
      /\ \A n \in OnRing(ring) \ listed : \A m \in listed : D(m) < D(n)
=============================================================================
