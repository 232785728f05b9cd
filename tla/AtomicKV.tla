------------------------------ MODULE AtomicKV ------------------------------
(***************************************************************************)
(* What a client may rely on: one map from keys to values, to which every  *)
(* request is applied at a single instant between the moment the request   *)
(* is read and the moment its response is written (linearizability).      *)
(* Router.tla implements it for keys whose primary never fails, and        *)
(* KVStore.tla implements it inside one server process.                    *)
(***************************************************************************)
EXTENDS KVTypes

CONSTANT Clients

VARIABLES
  kv,     \* the map: None for an absent key
  call,   \* call[c]: the request of client c being served, or None
  ret     \* ret[c]: its response once it took effect, or None

vars == <<kv, call, ret>>

Init ==
  /\ kv = [k \in Keys |-> None]
  /\ call = [c \in Clients |-> None]
  /\ ret = [c \in Clients |-> None]

Invoke(c) ==
  /\ call[c] = None
  /\ \E r \in Request : call' = [call EXCEPT ![c] = r]
  /\ UNCHANGED <<kv, ret>>

\* The linearization point.
TakeEffect(c) ==
  /\ call[c] # None
  /\ ret[c] = None
  /\ LET r == call[c] IN
       /\ ret' = [ret EXCEPT ![c] = StoreResponse(r, kv[r.key])]
       /\ kv' = [kv EXCEPT ![r.key] = StoreEffect(r, kv[r.key])]
  /\ UNCHANGED call

Return(c) ==
  /\ ret[c] # None
  /\ call' = [call EXCEPT ![c] = None]
  /\ ret' = [ret EXCEPT ![c] = None]
  /\ UNCHANGED kv

Next == \E c \in Clients : Invoke(c) \/ TakeEffect(c) \/ Return(c)

Spec == Init /\ [][Next]_vars
=============================================================================
