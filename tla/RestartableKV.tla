---------------------------- MODULE RestartableKV ----------------------------
(***************************************************************************)
(* What a client may rely on when the process that serves it may end and   *)
(* be started again: AtomicKV.tla, except that a request that was never    *)
(* answered may take effect later, and at most once.  Router.tla           *)
(* implements it for keys whose primary never fails.                       *)
(***************************************************************************)
EXTENDS AtomicKV

VARIABLE
  loose   \* <<c, w>>: the write w that c abandoned and that may still take effect

allVars == <<kv, call, ret, loose>>

InitAll == Init /\ loose = {}

\* The process ends.  Of the writes that did not take effect yet, some never
\* will.
Abandon ==
  /\ \E S \in SUBSET {c \in Clients : call[c] \in Write /\ ret[c] = None} :
       /\ \A c \in S : <<c, call[c]>> \notin loose
       /\ loose' = loose \cup {<<c, call[c]>> : c \in S}
  /\ call' = [c \in Clients |-> None]
  /\ ret' = [c \in Clients |-> None]
  /\ UNCHANGED kv

LateEffect(c, w) ==
  /\ <<c, w>> \in loose
  /\ loose' = loose \ {<<c, w>>}
  /\ kv' = [kv EXCEPT ![w.key] = StoreEffect(w, kv[w.key])]
  /\ UNCHANGED <<call, ret>>

NextAll ==
  \/ Next /\ UNCHANGED loose
  \/ Abandon
  \/ \E c \in Clients, w \in Write : LateEffect(c, w)

RestartableSpec == InitAll /\ [][NextAll]_allVars
=============================================================================
