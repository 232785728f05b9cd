----------------------------- MODULE MCHashRing -----------------------------
(* Small instances of HashRing.tla for TLC.                                *)
EXTENDS HashRing, FiniteSetsExt

CONSTANTS n1, n2, n3

ThreeNodes == {n1, n2, n3}

Weight(P) == SumSet({2 ^ p : p \in P})

\* Up to two virtual nodes each, at any positions, or none.  Nothing tells the
\* nodes apart, so one order of their positions stands for all.
UpToTwo ==
  {[n \in ThreeNodes |-> {}]}
    \cup {at \in [ThreeNodes -> {P \in SUBSET Positions : Cardinality(P) \in 1 .. 2}] :
            Weight(at[n1]) <= Weight(at[n2]) /\ Weight(at[n2]) <= Weight(at[n3])}
=============================================================================
