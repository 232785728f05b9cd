----------------------------- MODULE RouterAudit -----------------------------
(***************************************************************************)
(* Router.tla with a history variable that records which replicas were     *)
(* healthy all through a request, to state what the documentation says of  *)
(* errors in terms of a whole request rather than of one instant.          *)
(***************************************************************************)
EXTENDS MCRouter

VARIABLE
  healthy   \* healthy[c]: nodes up and marked alive when the request of c was read,
            \*   up ever since, and not marked down since but by c itself

auditVars == <<vars, healthy>>

AuditInit == Init /\ healthy = [c \in Clients |-> {}]

Starts(c) == pc[c] = "read" /\ pc'[c] = "check"

\* The catch block of c marks down the node that c has tried.
Catches(c, n) == pc[c] = "failed" /\ pc'[c] = "check" /\ n = Target(c)

AuditNext ==
  /\ Next
  /\ healthy' = [c \in Clients |->
       {n \in Nodes : /\ node'[n] = "up"
                      /\ IF Starts(c) THEN alive[n] ELSE n \in healthy[c]
                      /\ alive[n] /\ ~alive'[n] => Catches(c, n)}]

AuditSpec == AuditInit /\ [][AuditNext]_auditVars

\* docs/REPLICATION.md: a request fails with "no live replica for key" only
\* if every replica in the list is down.  Weakened to: no replica was up and
\* known to be up from before the request until its answer, or until the thread
\* itself gave it up.
ErrorOnlyIfNoHealthyReplica ==
  \A c \in Clients :
    pc[c] = "reply" /\ req[c] # None /\ result[c] = ErrorResponse
      => Replicas(c) \cap healthy[c] = {}
=============================================================================
