------------------------------ MODULE MCRouter ------------------------------
(* Small instances of Router.tla for TLC.                                  *)
EXTENDS Router

CONSTANTS n1, n2, c1

TwoNodes == <<n1, n2>>

\* Every key on both nodes, n1 being its primary.
PrefTwo == [k \in Keys |-> <<n1, n2>>]

\* What clients send: GETs and SETs; c1 writes and the others read; SETs only.
NoDeletes == [c \in Clients |-> {r \in Request : r.command # "Delete"}]
OneWriter == [c \in Clients |-> IF c = c1 THEN Write ELSE Request \ Write]
SetsOnly == [c \in Clients |-> {r \in Request : r.command = "Set"}]
=============================================================================
