------------------------------ MODULE KVTypes ------------------------------
(***************************************************************************)
(* The requests and responses every component speaks (protocol.hpp) and    *)
(* what a store answers to each of them (WorkerReactor::handle_request on  *)
(* top of KVStore::get, set and remove).  Keys and values are opaque.      *)
(***************************************************************************)
CONSTANTS
  Keys,     \* the keys of the store
  Values,   \* the values a SET may carry
  None      \* no key, value, request or response (an empty string in C++)

\* protocol::Request, for the commands that reach a store.  A parsed request
\* of another command than SET has its value cleared.
Request ==
  [command : {"Get", "Delete"}, key : Keys, value : {None}]
    \cup [command : {"Set"}, key : Keys, value : Values]

\* The requests that change a store: route_write's.
Write == {r \in Request : r.command # "Get"}

\* protocol::Response: the union of what both sides ever encode.
Response ==
  [type : {"Ok", "Deleted", "NotFound", "Pong", "Error"}, value : {None}]
    \cup [type : {"Value"}, value : Values]

ASSUME NoneAssumption == None \notin Keys \cup Values \cup Request \cup Response

Plain(t) == [type |-> t, value |-> None]

ErrorResponse == Plain("Error")

\* The response handle_request() writes for request r when the store maps
\* r.key to the value v (None when the key is absent).
StoreResponse(r, v) ==
  IF r.command = "Set" THEN Plain("Ok")
  ELSE IF v = None THEN Plain("NotFound")
  ELSE IF r.command = "Get" THEN [type |-> "Value", value |-> v]
  ELSE Plain("Deleted")

\* What the store maps r.key to afterwards.
StoreEffect(r, v) ==
  IF r.command = "Set" THEN r.value
  ELSE IF r.command = "Get" THEN v ELSE None
=============================================================================
