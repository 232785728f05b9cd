--------------------------- MODULE HashRingProofs ---------------------------
(***************************************************************************)
(* For any number of positions, nodes and virtual nodes and any placement: *)
(* the ring is that of the nodes present (RingCorrect), a lookup collects  *)
(* a preference list (LookupsInOrder) in one turn (LookupsAdvance), and    *)
(* adding or removing a node moves only its own keys (KeysStay), as many   *)
(* as the new node owns (RemapShare) and no other replicas (ReplicasStay). *)
(***************************************************************************)
EXTENDS HashRing, FiniteSetTheorems, WellFoundedInduction, TLAPS

USE RingAssumption DEF Positions, End

-----------------------------------------------------------------------------
(* The operators of Ring.tla.                                              *)

\* Least finds the least element of a set of positions or distances.
LEMMA LeastIs ==
  ASSUME NEW S, S \subseteq Nat, S # {}
  PROVE  Least(S) \in S /\ \A q \in S : Least(S) <= q
<1>1. PICK x \in S : \A y \in S : ~ (<<y, x>> \in OpToRel(<, Nat))
  BY NatLessThanWellFounded, WFMin, Zenon
<1>2. \A y \in S : x <= y
  <2>1. TAKE y \in S
  <2>2. ~ (<<y, x>> \in OpToRel(<, Nat))
    BY <1>1, Zenon
  <2>3. x \in Nat /\ y \in Nat
    OBVIOUS
  <2> QED
    BY <2>2, <2>3 DEF OpToRel
<1> QED
  BY <1>2, Zenon DEF Least

\* lower_bound(h) is the first position from h on, or the end of the map.
LEMMA LowerBoundIs ==
  ASSUME NEW r, DOMAIN r \subseteq Positions, NEW h \in Nat
  PROVE  LET b == LowerBound(r, h)
         IN  \/ b = End /\ \A p \in DOMAIN r : p < h
             \/ b \in DOMAIN r /\ b >= h /\ \A p \in DOMAIN r : p >= h => b <= p
<1> DEFINE above == {p \in DOMAIN r : p >= h}
<1>1. CASE above = {}
  BY <1>1 DEF LowerBound
<1>2. CASE above # {}
  <2>1. above \subseteq Nat
    OBVIOUS
  <2>2. Least(above) \in above /\ \A q \in above : Least(above) <= q
    BY <1>2, <2>1, LeastIs
  <2> QED
    BY <1>2, <2>2 DEF LowerBound
<1> QED
  BY <1>1, <1>2

\* Wrapped, it is a position: one that is not before h, or the very first.
LEMMA WrapIs ==
  ASSUME NEW r, DOMAIN r \subseteq Positions, DOMAIN r # {}, NEW h \in Nat
  PROVE  LET q == Wrap(r, LowerBound(r, h))
         IN  /\ q \in DOMAIN r
             /\ \/ q >= h /\ \A p \in DOMAIN r : p >= h => q <= p
                \/ (\A p \in DOMAIN r : p < h) /\ (\A p \in DOMAIN r : q <= p)
<1>1. Least(DOMAIN r) \in DOMAIN r /\ \A p \in DOMAIN r : Least(DOMAIN r) <= p
  BY LeastIs
<1>2. End \notin DOMAIN r
  OBVIOUS
<1> QED
  BY <1>1, <1>2, LowerBoundIs, Zenon DEF Wrap

\* get_node() and the first step of get_nodes() find the nearest position.
LEMMA NearestIs ==
  ASSUME NEW r, DOMAIN r \subseteq Positions, DOMAIN r # {}, NEW h \in Positions
  PROVE  \A p \in DOMAIN r : Clockwise(h, Wrap(r, LowerBound(r, h))) <= Clockwise(h, p)
<1> DEFINE q == Wrap(r, LowerBound(r, h))
<1>1. /\ q \in DOMAIN r
      /\ \/ q >= h /\ \A p \in DOMAIN r : p >= h => q <= p
         \/ (\A p \in DOMAIN r : p < h) /\ (\A p \in DOMAIN r : q <= p)
  BY WrapIs
<1> HIDE DEF q
<1>2. \A p \in DOMAIN r : Clockwise(h, q) <= Clockwise(h, p)
  BY <1>1 DEF Clockwise
<1> QED
  BY <1>2 DEF q

\* ++it goes to the nearest position that is farther, until all are passed.
LEMMA NextIs ==
  ASSUME NEW r, DOMAIN r \subseteq Positions, NEW h \in Positions, NEW q \in DOMAIN r
  PROVE  LET next == Wrap(r, LowerBound(r, q + 1))
         IN  /\ next \in DOMAIN r
             /\ \A p \in DOMAIN r :
                  \/ Clockwise(h, p) <= Clockwise(h, q)
                  \/ /\ Clockwise(h, q) < Clockwise(h, next)
                     /\ Clockwise(h, next) <= Clockwise(h, p)
<1> DEFINE next == Wrap(r, LowerBound(r, q + 1))
<1>1. /\ next \in DOMAIN r
      /\ \/ next >= q + 1 /\ \A p \in DOMAIN r : p >= q + 1 => next <= p
         \/ (\A p \in DOMAIN r : p < q + 1) /\ (\A p \in DOMAIN r : next <= p)
  BY WrapIs
<1> HIDE DEF next
<1>2. ASSUME NEW p \in DOMAIN r
      PROVE  \/ Clockwise(h, p) <= Clockwise(h, q)
             \/ /\ Clockwise(h, q) < Clockwise(h, next)
                /\ Clockwise(h, next) <= Clockwise(h, p)
  BY <1>1 DEF Clockwise
<1> QED
  BY <1>1, <1>2 DEF next

\* Different positions are at different distances.
LEMMA ClockwiseIs ==
  ASSUME NEW h \in Positions, NEW p \in Positions
  PROVE  /\ Clockwise(h, p) \in Nat
         /\ \A q \in Positions : Clockwise(h, p) = Clockwise(h, q) => p = q
BY DEF Clockwise

\* The distance of a node is that of its nearest virtual node.
LEMMA DistanceIs ==
  ASSUME NEW r, DOMAIN r \subseteq Positions, NEW h \in Positions, NEW n \in OnRing(r)
  PROVE  /\ \E p \in DOMAIN r : r[p] = n /\ Distance(r, h, n) = Clockwise(h, p)
         /\ \A p \in DOMAIN r : r[p] = n => Distance(r, h, n) <= Clockwise(h, p)
<1> DEFINE S == {Clockwise(h, p) : p \in {q \in DOMAIN r : r[q] = n}}
<1>1. S \subseteq Nat
  BY ClockwiseIs
<1>2. S # {}
  BY Zenon DEF OnRing
<1>3. Least(S) \in S /\ \A d \in S : Least(S) <= d
  BY <1>1, <1>2, LeastIs, Zenon
<1>4. Distance(r, h, n) = Least(S)
  BY Zenon DEF Distance
<1> HIDE DEF S
<1>5. \E p \in DOMAIN r : r[p] = n /\ Distance(r, h, n) = Clockwise(h, p)
  BY <1>3, <1>4, Zenon DEF S
<1>6. \A p \in DOMAIN r : r[p] = n => Clockwise(h, p) \in S
  BY Zenon DEF S
<1> QED
  BY <1>3, <1>4, <1>5, <1>6

-----------------------------------------------------------------------------
(* The inductive invariant.                                                *)

Listed == {result[i] : i \in DOMAIN result}

\* Where a lookup is: every node has been collected, or those have that are
\* nearer to the key than the entry the iterator comes to next.
Swept ==
  \/ OnRing(ring) \subseteq Listed
  \/ LET d == Clockwise(hash, Wrap(ring, it)) IN
       /\ \A p \in DOMAIN ring : Clockwise(hash, p) < d => ring[p] \in Listed
       /\ \A n \in Listed : Distance(ring, hash, n) < d

WalkInv ==
  pc = "walk" =>
    /\ result = <<>> => it = LowerBound(ring, hash)
    /\ Swept

IInv == TypeOK /\ RingIsNodes /\ LookupInOrder /\ WalkInv

\* The iterator of a lookup comes to an entry.
LEMMA EntryIs ==
  ASSUME TypeOK, pc = "walk"
  PROVE  DOMAIN ring \subseteq Positions /\ Wrap(ring, it) \in DOMAIN ring
<1>1. DOMAIN ring # {} /\ DOMAIN ring \subseteq Positions
  BY Zenon DEF TypeOK
<1>2. Least(DOMAIN ring) \in DOMAIN ring
  BY <1>1, LeastIs
<1>3. it = End \/ it \in DOMAIN ring
  BY Zenon DEF TypeOK
<1> QED
  BY <1>1, <1>2, <1>3 DEF Wrap

\* Every step keeps the types.
LEMMA TypeStep ==
  ASSUME TypeOK, [Next]_vars
  PROVE  TypeOK'
<1>1. ASSUME NEW n \in Nodes, AddNode(n)
      PROVE  TypeOK'
  <2>1. place[n] \subseteq Positions
    BY Zenon DEF TypeOK
  <2>2. DOMAIN ring' = DOMAIN ring \cup place[n]
    BY <1>1 DEF AddNode, WithNode
  <2>3. ring' \in [DOMAIN ring' -> Nodes]
    BY <1>1, <2>2, Zenon DEF AddNode, WithNode, TypeOK
  <2>4. it = End
    BY <1>1 DEF AddNode, TypeOK
  <2>5. copies' \in [Nodes -> Nat]
    BY <1>1 DEF AddNode, TypeOK
  <2> QED
    BY <1>1, <2>1, <2>2, <2>3, <2>4, <2>5, Zenon DEF AddNode, lookupVars, TypeOK
<1>2. ASSUME NEW n \in Nodes, RemoveNode(n)
      PROVE  TypeOK'
  <2>1. DOMAIN ring' = DOMAIN ring \ place[n]
    BY <1>2, Zenon DEF RemoveNode, WithoutNode
  <2>2. ring' \in [DOMAIN ring' -> Nodes]
    BY <1>2, <2>1 DEF RemoveNode, WithoutNode, TypeOK
  <2>3. it = End
    BY <1>2 DEF RemoveNode, TypeOK
  <2> QED
    BY <1>2, <2>1, <2>2, <2>3, Zenon DEF RemoveNode, lookupVars, TypeOK
<1>3. CASE StartLookup
  <2>1. NodeCount \in Nat
    <3>1. IsFiniteSet(1 .. MaxNodes)
      BY HashRingAssumption, FS_Interval
    <3>2. IsFiniteSet(Nodes \X (1 .. MaxNodes))
      BY <3>1, HashRingAssumption, FS_Product, Zenon
    <3> QED
      BY <3>2, FS_Subset, FS_CardinalityType, Zenon DEF NodeCount
  <2>2. PICK h \in Positions, c \in 1 .. MaxCount :
          /\ hash' = h
          /\ asked' = c
          /\ count' = IF c < NodeCount THEN c ELSE NodeCount
          /\ it' = LowerBound(ring, h)
    BY <1>3, Zenon DEF StartLookup
  <2>3. it' \in DOMAIN ring \cup {End}
    BY <2>2, LowerBoundIs DEF TypeOK
  <2> QED
    BY <1>3, <2>1, <2>2, <2>3, HashRingAssumption, SMTT(20) DEF StartLookup, TypeOK
<1>4. CASE Walk
  <2>1. DOMAIN ring \subseteq Positions /\ Wrap(ring, it) \in DOMAIN ring
    BY <1>4, EntryIs, Zenon DEF Walk
  <2>2. it' = End \/ it' \in DOMAIN ring
    BY <1>4, <2>1, LowerBoundIs DEF Walk
  <2>3. ring[Wrap(ring, it)] \in Nodes
    BY <2>1, Zenon DEF TypeOK
  <2>4. result' \in Seq(Nodes)
    BY <1>4, <2>3 DEF Walk, TypeOK
  <2> QED
    BY <1>4, <2>2, <2>4, Zenon DEF Walk, TypeOK
<1>5. CASE EndLookup
  BY <1>5, HashRingAssumption DEF EndLookup, TypeOK
<1>6. CASE UNCHANGED vars
  BY <1>6, Zenon DEF vars, lookupVars, TypeOK
<1> QED
  BY <1>1, <1>2, <1>3, <1>4, <1>5, <1>6, Zenon DEF Next, Lookup

\* Every step keeps the ring that of the nodes present.
LEMMA RingStep ==
  ASSUME TypeOK, RingIsNodes, [Next]_vars
  PROVE  RingIsNodes'
<1>1. ASSUME NEW n \in Nodes, AddNode(n)
      PROVE  RingIsNodes'
  <2>1. Present' = Present \cup {n}
    BY <1>1 DEF AddNode, Present, TypeOK
  <2>2. /\ DOMAIN ring' = DOMAIN ring \cup place[n]
        /\ \A p \in DOMAIN ring' : ring'[p] = IF p \in place[n] THEN n ELSE ring[p]
        /\ place' = place
    BY <1>1 DEF AddNode, WithNode
  <2> QED
    BY <2>1, <2>2, Zenon DEF RingIsNodes
<1>2. ASSUME NEW n \in Nodes, RemoveNode(n)
      PROVE  RingIsNodes'
  <2>1. Present' = Present \ {n}
    BY <1>2 DEF RemoveNode, Present, TypeOK
  <2>2. /\ DOMAIN ring' = DOMAIN ring \ place[n]
        /\ \A p \in DOMAIN ring' : ring'[p] = ring[p]
        /\ place' = place
    BY <1>2 DEF RemoveNode, WithoutNode
  <2>3. Present \subseteq Nodes
    BY DEF Present
  <2> QED
    BY <2>1, <2>2, <2>3 DEF RingIsNodes
<1>3. CASE Lookup \/ UNCHANGED vars
  <2>1. UNCHANGED <<place, ring, copies>>
    BY <1>3 DEF Lookup, StartLookup, Walk, EndLookup, vars
  <2> QED
    BY <2>1 DEF RingIsNodes, Present
<1> QED
  BY <1>1, <1>2, <1>3, Zenon DEF Next

\* An iteration of the loop finds the next node of the preference list, or
\* passes over one that it has.
LEMMA WalkStep ==
  ASSUME TypeOK, LookupInOrder, WalkInv, Walk
  PROVE  LookupInOrder' /\ WalkInv'
<1> DEFINE q == Wrap(ring, it)
           C(p) == Clockwise(hash, p)
           D(n) == Distance(ring, hash, n)
<1>1. /\ DOMAIN ring \subseteq Positions /\ q \in DOMAIN ring
      /\ hash \in Positions
      /\ pc = "walk"
  BY EntryIs, Zenon DEF Walk, TypeOK
<1>2. /\ UNCHANGED <<ring, hash>>
      /\ it' = LowerBound(ring, q + 1)
      /\ pc' = "walk"
  BY DEF Walk
<1>3. /\ Wrap(ring, it') \in DOMAIN ring
      /\ \A p \in DOMAIN ring :
           C(p) <= C(q) \/ (C(q) < C(Wrap(ring, it')) /\ C(Wrap(ring, it')) <= C(p))
  BY <1>1, <1>2, NextIs
<1>4. \A p \in DOMAIN ring : C(p) \in Nat /\ (C(p) = C(q) => p = q)
  BY <1>1, ClockwiseIs
<1>5. \A n \in OnRing(ring) :
        /\ \E p \in DOMAIN ring : ring[p] = n /\ D(n) = C(p)
        /\ \A p \in DOMAIN ring : ring[p] = n => D(n) <= C(p)
  BY <1>1, DistanceIs
<1>6. ring[q] \in OnRing(ring)
  BY <1>1 DEF OnRing
<1>7. /\ Listed \subseteq OnRing(ring)
      /\ \A i, j \in DOMAIN result : i < j => D(result[i]) < D(result[j])
      /\ \A n \in OnRing(ring) \ Listed : \A m \in Listed : D(m) < D(n)
      /\ result # <<>> => result[1] = Owner(ring, hash)
  BY <1>1 DEF LookupInOrder, IsPreferenceList, Listed
<1>8. /\ result = <<>> => it = LowerBound(ring, hash)
      /\ \/ OnRing(ring) \subseteq Listed
         \/ /\ \A p \in DOMAIN ring : C(p) < C(q) => ring[p] \in Listed
            /\ \A n \in Listed : D(n) < C(q)
  BY <1>1 DEF WalkInv, Swept
<1>9. result \in Seq(Nodes) /\ ring[q] \in Nodes
  BY <1>1 DEF TypeOK
<1>10. result' = IF ring[q] \in Listed THEN result ELSE Append(result, ring[q])
  BY DEF Walk, Listed
<1>11. Listed' = Listed \cup {ring[q]}
  <2>1. CASE ring[q] \in Listed
    BY <1>10, <2>1 DEF Listed
  <2>2. CASE ring[q] \notin Listed
    BY <1>9, <1>10, <2>2 DEF Listed
  <2> QED
    BY <2>1, <2>2
<1> DEFINE next == Wrap(ring, it')
<1> HIDE DEF q, C, D, next
<1>12. \A p \in DOMAIN ring : ring[p] \in OnRing(ring)
  BY Zenon DEF OnRing
<1>13. ring[q] \notin Listed =>
         /\ D(ring[q]) = C(q)
         /\ \A n \in Listed : D(n) < C(q)
         /\ \A n \in OnRing(ring) \ Listed' : C(q) < D(n)
  <2>1. SUFFICES ASSUME ring[q] \notin Listed
                 PROVE  /\ D(ring[q]) = C(q)
                        /\ \A n \in Listed : D(n) < C(q)
                        /\ \A n \in OnRing(ring) \ Listed' : C(q) < D(n)
    OBVIOUS
  <2>2. /\ \A p \in DOMAIN ring : C(p) < C(q) => ring[p] \in Listed
        /\ \A n \in Listed : D(n) < C(q)
    BY <1>6, <1>8, <2>1, Zenon
  <2>3. \A n \in OnRing(ring) \ Listed : C(q) <= D(n)
    BY <1>1, <1>4, <1>5, <2>2
  <2>4. D(ring[q]) = C(q)
    <3>1. D(ring[q]) <= C(q)
      BY <1>1, <1>5, <1>6, Zenon
    <3>2. D(ring[q]) \in Nat
      BY <1>4, <1>5, <1>6, Zenon
    <3> QED
      BY <1>1, <1>4, <1>6, <2>1, <2>3, <3>1, <3>2
  <2>5. ASSUME NEW n \in OnRing(ring) \ Listed'
        PROVE  C(q) < D(n)
    <3>1. PICK p \in DOMAIN ring : ring[p] = n /\ D(n) = C(p)
      BY <1>5, Zenon
    <3>2. p # q
      BY <1>11, <3>1
    <3> QED
      BY <1>1, <1>4, <1>11, <2>3, <3>1, <3>2
  <2> QED
    BY <2>2, <2>4, <2>5
<1>14. \A n \in Listed' : D(n) <= C(q) \/ OnRing(ring) \subseteq Listed
  BY <1>1, <1>4, <1>5, <1>6, <1>7, <1>8, <1>11
<1>15. \/ OnRing(ring) \subseteq Listed'
       \/ /\ \A p \in DOMAIN ring : C(p) < C(next) => ring[p] \in Listed'
          /\ \A n \in Listed' : D(n) < C(next)
  <2>1. CASE OnRing(ring) \subseteq Listed
    BY <1>11, <2>1
  <2>2. CASE ~ (OnRing(ring) \subseteq Listed)
    <3>1. /\ \A p \in DOMAIN ring : C(p) < C(q) => ring[p] \in Listed
          /\ \A n \in Listed' : D(n) <= C(q)
      BY <1>8, <1>14, <2>2, Zenon
    <3>2. \A p \in DOMAIN ring : C(p) <= C(q) => ring[p] \in Listed'
      BY <1>1, <1>4, <1>11, <3>1
    <3>3. \A p \in DOMAIN ring :
            C(p) <= C(q) \/ (C(q) < C(next) /\ C(next) <= C(p))
      BY <1>3, Zenon DEF C, next
    <3>4. CASE C(q) < C(next)
      <4>1. \A p \in DOMAIN ring : C(p) < C(next) => C(p) <= C(q)
        BY <1>1, <1>3, <1>4, <3>3, <3>4 DEF next
      <4>2. \A n \in Listed' : D(n) \in Nat
        BY <1>4, <1>5, <1>6, <1>7, <1>11, Zenon
      <4>3. \A n \in Listed' : D(n) < C(next)
        BY <1>1, <1>3, <1>4, <3>1, <3>4, <4>2 DEF next
      <4> QED
        BY <3>2, <4>1, <4>3, Zenon
    <3>5. CASE ~ (C(q) < C(next))
      <4>1. \A p \in DOMAIN ring : ring[p] \in Listed'
        BY <3>2, <3>3, <3>5, Zenon
      <4> QED
        BY <4>1, Zenon DEF OnRing
    <3> QED
      BY <3>4, <3>5, Zenon
  <2> QED
    BY <2>1, <2>2, Zenon
<1>16. /\ Listed' \subseteq OnRing(ring)
       /\ \A i, j \in DOMAIN result' : i < j => D(result'[i]) < D(result'[j])
       /\ \A n \in OnRing(ring) \ Listed' : \A m \in Listed' : D(m) < D(n)
       /\ result' # <<>> => result'[1] = Owner(ring, hash)
  <2>1. CASE ring[q] \in Listed
    <3>1. result' = result /\ Listed' = Listed
      BY <1>10, <1>11, <2>1
    <3> QED
      BY <1>7, <3>1, Zenon
  <2>2. CASE ring[q] \notin Listed
    <3>1. result' = Append(result, ring[q])
      BY <1>10, <2>2, Zenon
    <3>2. \A i \in DOMAIN result : D(result[i]) < D(ring[q])
      BY <1>13, <2>2, Zenon DEF Listed
    <3>3. \A i, j \in DOMAIN result' : i < j => D(result'[i]) < D(result'[j])
      BY <1>7, <1>9, <3>1, <3>2
    <3>4. \A n \in OnRing(ring) \ Listed' : \A m \in Listed' : D(m) < D(n)
      BY <1>7, <1>11, <1>13, <2>2, ZenonT(40)
    <3>5. result' # <<>> => result'[1] = Owner(ring, hash)
      <4>1. CASE result = <<>>
        BY <1>8, <3>1, <4>1 DEF Owner, q
      <4>2. CASE result # <<>>
        BY <1>7, <1>9, <3>1, <4>2
      <4> QED
        BY <4>1, <4>2, Zenon
    <3> QED
      BY <1>6, <1>7, <1>11, <3>3, <3>4, <3>5, Zenon
  <2> QED
    BY <2>1, <2>2, Zenon
<1>17. result' # <<>>
  BY <1>9, <1>10 DEF Listed
<1>18. LookupInOrder'
  BY <1>2, <1>16, Zenon DEF LookupInOrder, IsPreferenceList, Listed, D
<1>19. WalkInv'
  BY <1>2, <1>15, <1>17, Zenon DEF WalkInv, Swept, C, D, next
<1> QED
  BY <1>18, <1>19

\* A lookup begins with nothing collected, before the nearest entry.
LEMMA StartStep ==
  ASSUME TypeOK, StartLookup
  PROVE  LookupInOrder' /\ WalkInv'
<1>1. /\ ring' = ring /\ result' = <<>> /\ hash' \in Positions
      /\ it' = LowerBound(ring, hash')
  BY Zenon DEF StartLookup
<1>2. DOMAIN ring # {} /\ DOMAIN ring \subseteq Positions
  BY Zenon DEF StartLookup, TypeOK
<1>3. \A p \in DOMAIN ring :
        Clockwise(hash', Wrap(ring, it')) <= Clockwise(hash', p)
  BY <1>1, <1>2, NearestIs, Zenon
<1>4. \A p \in DOMAIN ring : Clockwise(hash', p) \in Nat
  BY <1>1, <1>2, ClockwiseIs, Zenon
<1>5. Wrap(ring, it') \in DOMAIN ring
  BY <1>1, <1>2, WrapIs
<1>6. \A p \in DOMAIN ring : ~ (Clockwise(hash', p) < Clockwise(hash', Wrap(ring, it')))
  BY <1>3, <1>4, <1>5
<1>7. Listed' = {}
  BY <1>1 DEF Listed
<1>8. LookupInOrder'
  BY <1>1 DEF LookupInOrder, IsPreferenceList
<1>9. WalkInv'
  BY <1>1, <1>6, <1>7, Zenon DEF WalkInv, Swept
<1> QED
  BY <1>8, <1>9

\* The invariant is inductive.
THEOREM Invariance == Spec => []IInv
<1>1. Init => IInv
  <2> SUFFICES ASSUME Init
               PROVE  IInv
    BY Zenon
  <2>1. TypeOK
    BY HashRingAssumption DEF Init, TypeOK
  <2>2. RingIsNodes
    BY <2>1 DEF Init, RingIsNodes, Present
  <2>3. LookupInOrder /\ WalkInv
    BY Zenon DEF Init, LookupInOrder, WalkInv
  <2> QED
    BY <2>1, <2>2, <2>3 DEF IInv
<1>2. IInv /\ [Next]_vars => IInv'
  <2> SUFFICES ASSUME IInv, [Next]_vars
               PROVE  IInv'
    OBVIOUS
  <2>1. TypeOK' /\ RingIsNodes'
    BY TypeStep, RingStep DEF IInv
  <2>2. LookupInOrder' /\ WalkInv'
    <3>1. CASE StartLookup
      BY <3>1, StartStep, Zenon DEF IInv
    <3>2. CASE Walk
      BY <3>2, WalkStep, Zenon DEF IInv
    <3>3. CASE EndLookup \/ \E n \in Nodes : AddNode(n) \/ RemoveNode(n)
      <4>1. pc' = "idle"
        BY <3>3 DEF EndLookup, AddNode, RemoveNode, lookupVars
      <4> QED
        BY <4>1 DEF LookupInOrder, WalkInv
    <3>4. CASE UNCHANGED vars
      BY <3>4, Zenon DEF IInv, LookupInOrder, WalkInv, Swept, Listed, vars, lookupVars
    <3> QED
      BY <3>1, <3>2, <3>3, <3>4, Zenon DEF Next, Lookup
  <2> QED
    BY <2>1, <2>2 DEF IInv
<1> QED
  BY <1>1, <1>2, PTL DEF Spec

\* After any additions and removals, the ring is that of the nodes present.
THEOREM RingCorrect == Spec => [](TypeOK /\ RingIsNodes)
<1>1. IInv => TypeOK /\ RingIsNodes
  BY Zenon DEF IInv
<1> QED
  BY <1>1, Invariance, PTL

\* The variables keep their types (TypeOK): the iterator of a lookup in
\* particular stays at an entry of the map or at its end.
THEOREM TypeCorrect == Spec => []TypeOK
  BY RingCorrect, PTL

\* However often it goes round, get_nodes() collects distinct nodes in
\* clockwise order, passes none over, and begins with get_node(key).
THEOREM LookupsInOrder == Spec => []LookupInOrder
<1>1. IInv => LookupInOrder
  BY DEF IInv
<1> QED
  BY <1>1, Invariance, PTL

-----------------------------------------------------------------------------
(* How many nodes a lookup returns.                                        *)

\* The number of nodes a lookup returns was computed from a nodes_ that did not
\* change since.
CountInv ==
  /\ Present # {} => MaxNodes >= 1
  /\ pc = "walk" => asked >= 1 /\ count = IF asked < NodeCount THEN asked ELSE NodeCount

\* nodes_, as NodeCount counts it.
Copies == {x \in Nodes \X (1 .. MaxNodes) : x[2] <= copies[x[1]]}

\* nodes_.size() is a number.
LEMMA NodeCountIs == IsFiniteSet(Copies) /\ NodeCount = Cardinality(Copies) /\ NodeCount \in Nat
<1>1. IsFiniteSet(1 .. MaxNodes)
  BY FS_Interval, HashRingAssumption
<1>2. IsFiniteSet(Nodes \X (1 .. MaxNodes))
  BY <1>1, FS_Product, HashRingAssumption, Zenon
<1>3. Copies \in SUBSET (Nodes \X (1 .. MaxNodes))
  BY Zenon DEF Copies
<1>4. IsFiniteSet(Copies)
  BY <1>2, <1>3, FS_Subset, Zenon
<1>5. NodeCount = Cardinality(Copies)
  BY Zenon DEF NodeCount, Copies
<1>6. Cardinality(Copies) \in Nat
  BY <1>4, FS_CardinalityType, Zenon
<1> QED BY <1>4, <1>5, <1>6, Zenon

\* Only add_node(), which has room for a node then, makes one present.
LEMMA CountStep ==
  ASSUME TypeOK, CountInv, [Next]_vars
  PROVE  CountInv'
<1>1. ASSUME NEW n \in Nodes, AddNode(n) PROVE CountInv'
  <2>1. NodeCount < MaxNodes /\ MaxNodes \in Nat /\ NodeCount \in Nat
    BY <1>1, NodeCountIs, HashRingAssumption, Zenon DEF AddNode
  <2>2. MaxNodes >= 1
    BY <2>1
  <2>3. pc' # "walk"
    BY <1>1 DEF AddNode, lookupVars
  <2> QED BY <2>2, <2>3, Zenon DEF CountInv
<1>2. ASSUME NEW n \in Nodes, RemoveNode(n) PROVE CountInv'
  <2>1. Present' \subseteq Present
    BY <1>2 DEF RemoveNode, Present, TypeOK
  <2>2. pc' # "walk"
    BY <1>2 DEF RemoveNode, lookupVars
  <2> QED BY <2>1, <2>2, Zenon DEF CountInv
<1>3. CASE StartLookup
  <2>1. copies' = copies /\ count' = (IF asked' < NodeCount THEN asked' ELSE NodeCount) /\ asked' \in 1 .. MaxCount
    BY <1>3, Zenon DEF StartLookup
  <2>2. NodeCount' = NodeCount /\ Present' = Present
    BY <2>1, Zenon DEF NodeCount, Present
  <2>3. asked' >= 1
    BY <2>1, HashRingAssumption
  <2> QED BY <2>1, <2>2, <2>3, Zenon DEF CountInv
<1>4. CASE Walk \/ UNCHANGED vars
  <2>1. copies' = copies /\ pc' = pc /\ count' = count /\ asked' = asked
    BY <1>4, Zenon DEF Walk, vars, lookupVars
  <2>2. NodeCount' = NodeCount /\ Present' = Present
    BY <2>1, Zenon DEF NodeCount, Present
  <2> QED BY <2>1, <2>2, Zenon DEF CountInv
<1>5. CASE EndLookup
  <2>1. copies' = copies /\ pc' # "walk"
    BY <1>5 DEF EndLookup
  <2>2. Present' = Present
    BY <2>1, Zenon DEF Present
  <2> QED BY <2>1, <2>2, Zenon DEF CountInv
<1> QED BY <1>1, <1>2, <1>3, <1>4, <1>5, Zenon DEF Next, Lookup

\* nodes_ has every node present, at least once.
LEMMA PresentIsCounted ==
  ASSUME TypeOK, CountInv
  PROVE  IsFiniteSet(Present) /\ Cardinality(Present) <= NodeCount
<1> DEFINE f == [n \in Present |-> <<n, 1>>]
<1>1. IsFiniteSet(Present)
  <2>1. Present \in SUBSET Nodes
    BY Zenon DEF Present
  <2> QED BY <2>1, FS_Subset, HashRingAssumption, Zenon
<1>2. ASSUME NEW n \in Present PROVE <<n, 1>> \in Copies
  <2>1. MaxNodes >= 1 /\ MaxNodes \in Nat /\ n \in Nodes /\ copies[n] > 0 /\ copies[n] \in Nat
    BY <1>2, HashRingAssumption, Zenon DEF CountInv, Present, TypeOK
  <2>2. 1 \in 1 .. MaxNodes /\ 1 <= copies[n]
    BY <2>1
  <2> QED BY <2>1, <2>2 DEF Copies
<1>3. f \in [Present -> Copies]
  BY <1>2, Zenon
<1>4. f \in Injection(Present, Copies)
  <2>1. \A a, b \in Present : f[a] = f[b] => a = b
    OBVIOUS
  <2> QED BY <1>3, <2>1, Zenon DEF Injection, IsInjective
<1> HIDE DEF f
<1>5. Cardinality(Present) <= Cardinality(Copies)
  BY <1>4, NodeCountIs, FS_Injection, Zenon
<1> QED BY <1>1, <1>5, NodeCountIs, Zenon

\* What a lookup collected are different nodes of the ring.
LEMMA CollectedAreDistinct ==
  ASSUME TypeOK, LookupInOrder, pc = "walk"
  PROVE  /\ IsFiniteSet(OnRing(ring)) /\ Len(result) <= Cardinality(OnRing(ring))
         /\ \A i, j \in DOMAIN result : result[i] = result[j] => i = j
<1> DEFINE D(n) == Distance(ring, hash, n)
           m == Len(result)
<1>1. IsFiniteSet(OnRing(ring))
  <2>1. OnRing(ring) \in SUBSET Nodes
    BY ZenonT(40) DEF OnRing, TypeOK
  <2> QED BY <2>1, FS_Subset, HashRingAssumption, Zenon
<1>2. m \in Nat /\ DOMAIN result = 1 .. m /\ result \in [1 .. m -> Nodes]
  BY DEF TypeOK
<1>3. /\ \A i \in 1 .. m : result[i] \in OnRing(ring)
      /\ \A i, j \in 1 .. m : i < j => D(result[i]) < D(result[j])
  BY <1>2, Zenon DEF LookupInOrder, IsPreferenceList
<1>4. \A n \in OnRing(ring) : D(n) \in Nat
  <2>1. DOMAIN ring \subseteq Positions /\ hash \in Positions
    BY Zenon DEF TypeOK
  <2> QED BY <2>1, DistanceIs, ClockwiseIs
<1> HIDE DEF m, D
<1>5. ASSUME NEW i \in 1 .. m, NEW j \in 1 .. m, result[i] = result[j] PROVE i = j
  <2>1. D(result[i]) \in Nat /\ D(result[j]) \in Nat /\ D(result[i]) = D(result[j])
    BY <1>3, <1>4, <1>5, Zenon
  <2>2. ~(i < j) /\ ~(j < i)
    BY <1>3, <2>1
  <2> QED BY <1>2, <2>2
<1>6. result \in [1 .. m -> OnRing(ring)]
  BY <1>2, <1>3
<1>7. result \in Injection(1 .. m, OnRing(ring))
  BY <1>5, <1>6, Zenon DEF Injection, IsInjective
<1>8. Cardinality(1 .. m) <= Cardinality(OnRing(ring))
  BY <1>1, <1>7, FS_Injection, Zenon
<1>9. Cardinality(1 .. m) = m
  <2>1. Cardinality(1 .. m) = IF 1 > m THEN 0 ELSE m - 1 + 1
    BY <1>2, FS_Interval
  <2> QED BY <1>2, <2>1
<1>10. \A i, j \in DOMAIN result : result[i] = result[j] => i = j
  BY <1>2, <1>5, Zenon
<1> QED BY <1>1, <1>8, <1>9, <1>10, Zenon DEF m

\* CountInv holds in every reachable state.
LEMMA CountInvariance == Spec => []CountInv
<1>1. Init => CountInv
  BY DEF Init, CountInv, Present
<1>2. IInv /\ CountInv /\ [Next]_vars => CountInv'
  BY CountStep, Zenon DEF IInv
<1> QED
  BY <1>1, <1>2, Invariance, PTL DEF Spec

\* get_nodes() returns as many nodes as it was asked for, or, if it was asked
\* for more than there are, every node that has a position.  An id that was
\* added twice may keep it from returning, and never makes it return fewer.
THEOREM LookupsComplete == Spec => []LookupComplete
<1>1. IInv /\ CountInv => LookupComplete
  <2> SUFFICES ASSUME IInv, CountInv, pc = "walk", Len(result) = count, count # asked
               PROVE  Len(result) < asked /\ Len(result) = Cardinality(OnRing(ring))
    BY Zenon DEF LookupComplete
  <2>1. TypeOK /\ RingIsNodes /\ LookupInOrder
    BY DEF IInv
  <2>2. count = NodeCount /\ count < asked
    <3>1. asked \in 0 .. MaxCount /\ count \in 0 .. asked /\ MaxCount \in Nat
      BY <2>1, HashRingAssumption, Zenon DEF TypeOK
    <3>2. count = NodeCount
      BY Zenon DEF CountInv
    <3> QED BY <3>1, <3>2
  <2>3. OnRing(ring) \in SUBSET Present
    BY <2>1, Zenon DEF OnRing, RingIsNodes
  <2>4. IsFiniteSet(Present) /\ Cardinality(Present) <= NodeCount
    BY <2>1, PresentIsCounted, Zenon
  <2>5. Cardinality(OnRing(ring)) <= Cardinality(Present)
    BY <2>3, <2>4, FS_Subset, Zenon
  <2>6. IsFiniteSet(OnRing(ring)) /\ Len(result) <= Cardinality(OnRing(ring))
    BY <2>1, CollectedAreDistinct, Zenon
  <2>7. /\ Cardinality(OnRing(ring)) \in Nat /\ Cardinality(Present) \in Nat /\ NodeCount \in Nat
    BY <2>4, <2>6, FS_CardinalityType, NodeCountIs, Zenon
  <2> QED BY <2>2, <2>4, <2>5, <2>6, <2>7
<1> QED
  BY <1>1, CountInvariance, Invariance, PTL

\* What Router.tla assumes of a preference list (RouterAssumption): get_nodes()
\* returns at least one node, and none twice.
THEOREM ListsFitRouter ==
  Spec => [](pc = "walk" /\ Len(result) >= count =>
               /\ result \in Seq(Nodes) /\ Len(result) > 0
               /\ \A i, j \in DOMAIN result : result[i] = result[j] => i = j)
<1>1. ASSUME IInv, CountInv, pc = "walk", Len(result) >= count
      PROVE  /\ result \in Seq(Nodes) /\ Len(result) > 0
             /\ \A i, j \in DOMAIN result : result[i] = result[j] => i = j
  <2>1. TypeOK /\ RingIsNodes /\ LookupInOrder
    BY <1>1, Zenon DEF IInv
  <2>2. \A i, j \in DOMAIN result : result[i] = result[j] => i = j
    BY <1>1, <2>1, CollectedAreDistinct, Zenon
  <2>3. PICK p \in DOMAIN ring : ring[p] \in Present
    BY <1>1, <2>1, Zenon DEF TypeOK, RingIsNodes
  <2>4. NodeCount >= 1
    <3>1. IsFiniteSet(Present) /\ Cardinality(Present) <= NodeCount
      BY <1>1, <2>1, PresentIsCounted, Zenon
    <3>2. Cardinality(Present) \in Nat /\ NodeCount \in Nat
      BY <3>1, FS_CardinalityType, NodeCountIs, Zenon
    <3>3. Cardinality(Present) # 0
      BY <2>3, <3>1, FS_EmptySet, Zenon
    <3> QED BY <3>1, <3>2, <3>3
  <2>5. asked \in 0 .. MaxCount /\ MaxCount \in Nat /\ result \in Seq(Nodes)
    BY <2>1, HashRingAssumption, Zenon DEF TypeOK
  <2>6. asked >= 1 /\ count = IF asked < NodeCount THEN asked ELSE NodeCount
    BY <1>1, Zenon DEF CountInv
  <2>7. count >= 1 /\ count \in Nat
    BY <2>4, <2>5, <2>6, NodeCountIs
  <2>8. Len(result) > 0
    BY <1>1, <2>5, <2>7
  <2> QED BY <2>2, <2>5, <2>8, Zenon
<1> QED
  BY <1>1, CountInvariance, Invariance, PTL

-----------------------------------------------------------------------------
(* What LookupReturns rests on.                                            *)

\* An iteration of a lookup that asks for no more nodes than are on the ring
\* completes the list, or leaves the iterator farther clockwise from the key.
LookupAdvances ==
  Walk /\ count <= Cardinality(OnRing(ring)) =>
    \/ Len(result') = count
    \/ Clockwise(hash, Wrap(ring, it)) < Clockwise(hash, Wrap(ring, it'))

\* A list has no more elements than positions.
LEMMA ElementsAtMost ==
  ASSUME NEW s \in Seq(Nodes)
  PROVE  LET S == {s[i] : i \in DOMAIN s}
         IN  IsFiniteSet(S) /\ Cardinality(S) \in Nat /\ Cardinality(S) <= Len(s)
<1> DEFINE m == Len(s)
           S == {s[i] : i \in 1 .. m}
<1>1. m \in Nat /\ DOMAIN s = 1 .. m
  OBVIOUS
<1> HIDE DEF m
<1>2. IsFiniteSet(1 .. m) /\ Cardinality(1 .. m) = m
  <2>1. IsFiniteSet(1 .. m) /\ Cardinality(1 .. m) = IF 1 > m THEN 0 ELSE m - 1 + 1
    BY <1>1, FS_Interval
  <2> QED BY <1>1, <2>1
<1>3. s \in Surjection(1 .. m, S)
  <2>1. s \in [1 .. m -> S]
    BY <1>1
  <2>2. \A y \in S : \E x \in 1 .. m : s[x] = y
    BY Zenon
  <2> QED BY <2>1, <2>2, Zenon DEF Surjection
<1>4. IsFiniteSet(S) /\ Cardinality(S) <= Cardinality(1 .. m)
  BY <1>2, <1>3, FS_Surjection, ZenonT(40)
<1>5. Cardinality(S) \in Nat
  BY <1>4, FS_CardinalityType, Zenon
<1> QED BY <1>1, <1>2, <1>4, <1>5, Zenon DEF m

\* An iteration that does not get farther has seen every entry of the map.
LEMMA AdvanceStep == IInv /\ [Next]_vars => LookupAdvances
<1> SUFFICES ASSUME IInv, Walk, count <= Cardinality(OnRing(ring)),
                    ~(Clockwise(hash, Wrap(ring, it)) < Clockwise(hash, Wrap(ring, it')))
             PROVE  Len(result') = count
  BY Zenon DEF LookupAdvances
<1> DEFINE q == Wrap(ring, it)
           next == Wrap(ring, it')
           C(p) == Clockwise(hash, p)
<1>1. TypeOK /\ WalkInv /\ pc = "walk" /\ Len(result) < count
  BY Zenon DEF IInv, Walk
<1>2. DOMAIN ring \subseteq Positions /\ q \in DOMAIN ring /\ hash \in Positions
  BY <1>1, EntryIs, Zenon DEF TypeOK
<1>3. /\ result \in Seq(Nodes) /\ ring[q] \in Nodes /\ Len(result) \in Nat
      /\ count \in Nat
  BY <1>1, <1>2, HashRingAssumption DEF TypeOK
<1>4. result' = IF ring[q] \in Listed THEN result ELSE Append(result, ring[q])
  BY Zenon DEF Walk, Listed
<1>5. result' \in Seq(Nodes) /\ Len(result') \in Nat /\ Len(result') <= count
  BY <1>1, <1>3, <1>4
<1>6. it' = LowerBound(ring, q + 1)
  BY Zenon DEF Walk
<1>7. \A p \in DOMAIN ring : C(p) <= C(q)
  BY <1>2, <1>6, NextIs, Zenon
<1>8. \A p \in DOMAIN ring : C(p) \in Nat /\ (C(p) = C(q) => p = q)
  BY <1>2, ClockwiseIs, Zenon
<1>9. Listed' = Listed \cup {ring[q]}
  <2>1. CASE ring[q] \in Listed
    BY <1>4, <2>1, Zenon DEF Listed
  <2>2. CASE ring[q] \notin Listed
    BY <1>3, <1>4, <2>2 DEF Listed
  <2> QED BY <2>1, <2>2, Zenon
<1> HIDE DEF q, next, C
<1>10. ~(OnRing(ring) \subseteq Listed)
  <2>1. IsFiniteSet(Listed) /\ Cardinality(Listed) \in Nat /\ Cardinality(Listed) <= Len(result)
    BY <1>3, ElementsAtMost, Zenon DEF Listed
  <2>2. SUFFICES ASSUME OnRing(ring) \subseteq Listed PROVE FALSE
    BY Zenon
  <2>3. IsFiniteSet(OnRing(ring)) /\ Cardinality(OnRing(ring)) <= Cardinality(Listed)
    BY <2>1, <2>2, FS_Subset, Zenon
  <2>4. Cardinality(OnRing(ring)) \in Nat
    BY <2>3, FS_CardinalityType, Zenon
  <2> QED BY <1>1, <1>3, <2>1, <2>3, <2>4
<1>11. \A p \in DOMAIN ring : C(p) < C(q) => ring[p] \in Listed
  BY <1>1, <1>10, Zenon DEF WalkInv, Swept, C, q
<1>12. OnRing(ring) \subseteq Listed'
  <2>1. ASSUME NEW p \in DOMAIN ring PROVE ring[p] \in Listed'
    <3>1. C(p) < C(q) \/ p = q
      BY <1>2, <1>7, <1>8
    <3> QED BY <1>9, <1>11, <3>1, Zenon
  <2> QED BY <2>1, Zenon DEF OnRing
<1>13. /\ IsFiniteSet(Listed') /\ Cardinality(Listed') \in Nat
       /\ Cardinality(Listed') <= Len(result')
  BY <1>5, ElementsAtMost, Zenon DEF Listed
<1>14. IsFiniteSet(OnRing(ring)) /\ Cardinality(OnRing(ring)) <= Cardinality(Listed')
  BY <1>12, <1>13, FS_Subset, Zenon
<1>15. Cardinality(OnRing(ring)) \in Nat
  BY <1>14, FS_CardinalityType, Zenon
<1> QED BY <1>3, <1>5, <1>13, <1>14, <1>15

\* get_nodes() goes round the ring at most once: as long as its list is not
\* complete and could be completed, every iteration gets farther from the key,
\* and no position is as far as RingSize.
THEOREM LookupsAdvance ==
  Spec => [](pc = "walk" => Clockwise(hash, Wrap(ring, it)) \in 0 .. RingSize - 1)
            /\ [][LookupAdvances]_vars
<1>1. ASSUME IInv, pc = "walk" PROVE Clockwise(hash, Wrap(ring, it)) \in 0 .. RingSize - 1
  <2>1. Wrap(ring, it) \in Positions /\ hash \in Positions
    BY <1>1, EntryIs, Zenon DEF IInv, TypeOK
  <2> QED BY <2>1 DEF Clockwise
<1>2. IInv /\ [Next]_vars => [LookupAdvances]_vars
  BY AdvanceStep, Zenon
<1> QED
  BY <1>1, <1>2, Invariance, PTL DEF Spec

-----------------------------------------------------------------------------
(* What an addition or a removal moves.                                    *)

\* The position that owns a key.
Slot(r, h) == Wrap(r, LowerBound(r, h))

\* It is the nearest one: a nearest position that both of two rings have owns
\* the key in both.
LEMMA SlotIs ==
  ASSUME NEW r, DOMAIN r \subseteq Positions, DOMAIN r # {}, NEW h \in Positions,
         NEW s, DOMAIN s \subseteq Positions, DOMAIN s # {},
         DOMAIN r \subseteq DOMAIN s, Slot(s, h) \in DOMAIN r
  PROVE  Slot(r, h) = Slot(s, h)
<1>1. Slot(r, h) \in DOMAIN r /\ Slot(s, h) \in DOMAIN s
  BY WrapIs DEF Slot
<1>2. Clockwise(h, Slot(r, h)) <= Clockwise(h, Slot(s, h))
  BY NearestIs, Zenon DEF Slot
<1>3. Clockwise(h, Slot(s, h)) <= Clockwise(h, Slot(r, h))
  BY <1>1, NearestIs, Zenon DEF Slot
<1>4. /\ Clockwise(h, Slot(r, h)) \in Nat /\ Clockwise(h, Slot(s, h)) \in Nat
      /\ Clockwise(h, Slot(r, h)) = Clockwise(h, Slot(s, h)) => Slot(r, h) = Slot(s, h)
  BY <1>1, ClockwiseIs, Zenon
<1> QED
  BY <1>2, <1>3, <1>4

\* A key that an addition moves goes to the new node.
LEMMA AddMoves ==
  ASSUME TypeOK, NEW n \in Nodes, AddNode(n), DOMAIN ring # {}, NEW h \in Positions,
         Owner(ring', h) # Owner(ring, h)
  PROVE  Owner(ring', h) = n
<1>1. /\ DOMAIN ring' = DOMAIN ring \cup place[n]
      /\ \A p \in DOMAIN ring' : ring'[p] = IF p \in place[n] THEN n ELSE ring[p]
  BY Zenon DEF AddNode, WithNode
<1>2. DOMAIN ring \subseteq Positions /\ DOMAIN ring' \subseteq Positions
  BY <1>1, Zenon DEF TypeOK
<1>3. Slot(ring', h) \in DOMAIN ring'
  BY <1>1, <1>2, WrapIs DEF Slot
<1>4. CASE Slot(ring', h) \in place[n]
  BY <1>1, <1>3, <1>4, Zenon DEF Owner, Slot
<1>5. CASE Slot(ring', h) \notin place[n]
  <2>1. Slot(ring, h) = Slot(ring', h)
    BY <1>1, <1>2, <1>3, <1>5, SlotIs, Zenon
  <2> QED
    BY <1>1, <1>3, <1>5, <2>1, Zenon DEF Owner, Slot
<1> QED
  BY <1>4, <1>5, Zenon

\* A key that a removal moves was owned through a position of the node.
LEMMA RemoveMoves ==
  ASSUME TypeOK, NEW n \in Nodes, RemoveNode(n), DOMAIN ring' # {}, NEW h \in Positions,
         Owner(ring', h) # Owner(ring, h)
  PROVE  Slot(ring, h) \in place[n]
<1>1. /\ DOMAIN ring' = DOMAIN ring \ place[n]
      /\ \A p \in DOMAIN ring' : ring'[p] = ring[p]
  BY Zenon DEF RemoveNode, WithoutNode
<1>2. DOMAIN ring \subseteq Positions /\ DOMAIN ring' \subseteq Positions
  BY <1>1, Zenon DEF TypeOK
<1>3. Slot(ring, h) \in DOMAIN ring
  BY <1>1, <1>2, WrapIs DEF Slot
<1>4. SUFFICES ASSUME Slot(ring, h) \notin place[n]
               PROVE  FALSE
  BY Zenon
<1>5. Slot(ring', h) = Slot(ring, h)
  BY <1>1, <1>2, <1>3, <1>4, SlotIs, Zenon
<1> QED
  BY <1>1, <1>3, <1>4, <1>5, Zenon DEF Owner, Slot

\* hash_ring.hpp: adding or removing a node moves only its own keys.
THEOREM KeysStay == Spec => OnlyItsKeysMove
<1>1. TypeOK /\ [Next]_vars =>
        [DOMAIN ring # {} /\ DOMAIN ring' # {} =>
           \A h \in Positions :
             Owner(ring', h) # Owner(ring, h)
               => \E n \in Nodes :
                    \/ AddNode(n) /\ Owner(ring', h) = n
                    \/ RemoveNode(n) /\ Wrap(ring, LowerBound(ring, h)) \in place[n]]_<<ring, copies>>
  <2> SUFFICES ASSUME TypeOK, [Next]_vars, ~ UNCHANGED <<ring, copies>>,
                      DOMAIN ring # {}, DOMAIN ring' # {}, NEW h \in Positions,
                      Owner(ring', h) # Owner(ring, h)
               PROVE  \E n \in Nodes :
                        \/ AddNode(n) /\ Owner(ring', h) = n
                        \/ RemoveNode(n) /\ Wrap(ring, LowerBound(ring, h)) \in place[n]
    BY Zenon
  <2>1. PICK n \in Nodes : AddNode(n) \/ RemoveNode(n)
    BY Zenon DEF Next, Lookup, StartLookup, Walk, EndLookup, vars
  <2>2. CASE AddNode(n)
    BY <2>2, AddMoves, Zenon
  <2>3. CASE RemoveNode(n)
    BY <2>3, RemoveMoves, Zenon DEF Slot
  <2> QED
    BY <2>1, <2>2, <2>3, Zenon
<1>2. IInv => TypeOK
  BY Zenon DEF IInv
<1> QED
  BY <1>1, <1>2, Invariance, PTL DEF Spec, OnlyItsKeysMove

\* kvhashreport: the keys that an addition moves are those of the new node.
THEOREM RemapShare == Spec => RemapIsNewShare
<1>1. TypeOK /\ RingIsNodes /\ [Next]_vars =>
        [\A n \in Nodes \ Present : AddNode(n) /\ DOMAIN ring # {} =>
           KeysMoved(ring, ring', Positions)
             = KeyCounts(ring', Nodes, Positions)[n]]_<<ring, copies>>
  <2> SUFFICES ASSUME TypeOK, RingIsNodes, NEW n \in Nodes \ Present,
                      AddNode(n), DOMAIN ring # {}
               PROVE  KeysMoved(ring, ring', Positions)
                        = KeyCounts(ring', Nodes, Positions)[n]
    OBVIOUS
  <2>1. \A h \in Positions : Owner(ring, h) # n
    <3>1. DOMAIN ring \subseteq Positions
      BY Zenon DEF TypeOK
    <3>2. \A h \in Positions : Wrap(ring, LowerBound(ring, h)) \in DOMAIN ring
      BY <3>1, WrapIs
    <3> QED
      BY <3>2, Zenon DEF Owner, RingIsNodes
  <2>2. \A h \in Positions : Owner(ring', h) # Owner(ring, h) => Owner(ring', h) = n
    BY AddMoves
  <2>3. {h \in Positions : Owner(ring', h) # Owner(ring, h)}
          = {h \in Positions : Owner(ring', h) = n}
    BY <2>1, <2>2, Zenon
  <2> QED
    BY <2>3, Zenon DEF KeysMoved, KeyCounts
<1>2. IInv => TypeOK /\ RingIsNodes
  BY DEF IInv
<1> QED
  BY <1>1, <1>2, Invariance, PTL DEF Spec, RemapIsNewShare

\* With a new node n that shares no position, other nodes keep their distance
\* to a key, and those that were nearer still are.
LEMMA AddKeepsDistance ==
  ASSUME TypeOK, NEW n \in Nodes, AddNode(n), place[n] \cap DOMAIN ring = {},
         NEW h \in Positions, NEW m \in OnRing(ring'), m # n
  PROVE  /\ m \in OnRing(ring)
         /\ {x \in OnRing(ring) : Distance(ring, h, x) < Distance(ring, h, m)}
              \subseteq {x \in OnRing(ring') : Distance(ring', h, x) < Distance(ring', h, m)}
<1>1. /\ DOMAIN ring' = DOMAIN ring \cup place[n]
      /\ \A p \in DOMAIN ring' : ring'[p] = IF p \in place[n] THEN n ELSE ring[p]
  BY Zenon DEF AddNode, WithNode
<1>2. DOMAIN ring \subseteq Positions /\ DOMAIN ring' \subseteq Positions
  BY <1>1, Zenon DEF TypeOK
<1>3. \A x : x # n => {q \in DOMAIN ring' : ring'[q] = x} = {q \in DOMAIN ring : ring[q] = x}
  BY <1>1, Zenon
<1>4. \A x : x # n => Distance(ring', h, x) = Distance(ring, h, x)
  BY <1>3, Zenon DEF Distance
<1>5. OnRing(ring) \subseteq OnRing(ring')
  BY <1>1, Zenon DEF OnRing
<1>6. m \in OnRing(ring)
  BY <1>1 DEF OnRing
<1>7. n \in OnRing(ring) => Distance(ring', h, n) <= Distance(ring, h, n)
  <2> SUFFICES ASSUME n \in OnRing(ring)
               PROVE  Distance(ring', h, n) <= Distance(ring, h, n)
    BY Zenon
  <2>1. PICK p \in DOMAIN ring : ring[p] = n /\ Distance(ring, h, n) = Clockwise(h, p)
    BY <1>2, DistanceIs, Zenon
  <2>2. p \in DOMAIN ring' /\ ring'[p] = n
    BY <1>1, <2>1, Zenon
  <2> QED
    BY <1>2, <1>5, <2>1, <2>2, DistanceIs
<1>8. \A x \in OnRing(ring) : Distance(ring, h, x) \in Nat
  BY <1>2, DistanceIs, ClockwiseIs
<1>9. n \in OnRing(ring) => Distance(ring', h, n) \in Nat
  BY <1>2, <1>5, DistanceIs, ClockwiseIs
<1>10. ASSUME NEW x \in OnRing(ring), Distance(ring, h, x) < Distance(ring, h, m)
       PROVE  Distance(ring', h, x) < Distance(ring', h, m)
  <2>1. CASE x = n
    BY <1>4, <1>6, <1>7, <1>8, <1>9, <1>10, <2>1
  <2>2. CASE x # n
    BY <1>4, <1>10, <2>2
  <2> QED
    BY <2>1, <2>2, Zenon
<1> QED
  BY <1>5, <1>6, <1>10

\* A new node that shares no position is all that an addition brings into
\* the replicas of a key, for any replication factor.
THEOREM ReplicasStay == Spec => OnlyItselfJoins
<1>1. TypeOK /\ [Next]_vars =>
        [\A n \in Nodes : AddNode(n) /\ place[n] \cap DOMAIN ring = {} =>
           \A h \in Positions, c \in 1 .. MaxCount :
             Replicas(ring', h, c) \ Replicas(ring, h, c) \subseteq {n}]_<<ring, copies>>
  <2> SUFFICES ASSUME TypeOK, TypeOK', NEW n \in Nodes, AddNode(n),
                      place[n] \cap DOMAIN ring = {},
                      NEW h \in Positions, NEW c \in 1 .. MaxCount,
                      NEW m \in Replicas(ring', h, c), m # n
               PROVE  m \in Replicas(ring, h, c)
    BY TypeStep, Zenon
  <2> DEFINE nearer == {x \in OnRing(ring) : Distance(ring, h, x) < Distance(ring, h, m)}
             nearerNow == {x \in OnRing(ring') : Distance(ring', h, x) < Distance(ring', h, m)}
  <2>1. m \in OnRing(ring') /\ Cardinality(nearerNow) < c
    BY Zenon DEF Replicas
  <2>2. m \in OnRing(ring) /\ nearer \subseteq nearerNow
    BY <2>1, AddKeepsDistance, Zenon
  <2>3. nearerNow \subseteq Nodes
    BY DEF OnRing, TypeOK
  <2> HIDE DEF nearer, nearerNow
  <2>4. IsFiniteSet(nearerNow)
    BY <2>3, HashRingAssumption, FS_Subset
  <2>5. /\ Cardinality(nearer) <= Cardinality(nearerNow)
        /\ Cardinality(nearer) \in Nat /\ Cardinality(nearerNow) \in Nat
    BY <2>2, <2>4, FS_Subset, FS_CardinalityType, Zenon
  <2>6. Cardinality(nearer) < c
    BY <2>1, <2>5, HashRingAssumption
  <2> QED
    BY <2>2, <2>6, Zenon DEF Replicas, nearer
<1>2. IInv => TypeOK
  BY DEF IInv
<1> QED
  BY <1>1, <1>2, Invariance, PTL DEF Spec, OnlyItselfJoins
=============================================================================
