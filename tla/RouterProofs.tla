---------------------------- MODULE RouterProofs ----------------------------
(***************************************************************************)
(* Proofs about Router.tla, for any set of nodes, clients, keys, values    *)
(* and any assignment of preference lists.                                 *)
(*                                                                         *)
(* The inductive invariant has layers, each proved from the previous ones: *)
(* types (TypeOK) and what the control points of a thread imply for its    *)
(* locals (ThreadInv), where every suspicion comes from (FaultInv), how    *)
(* far a request got (ProgressInv), what a router that ended or a lost     *)
(* connection left behind (LateInv) and what the stores that executed a    *)
(* SET still hold (StoreInv).                                              *)
(* The last part proves what the liveness properties rest on.              *)
(***************************************************************************)
EXTENDS Router, TLAPS

-----------------------------------------------------------------------------
(* The handler threads.                                                    *)

\* What each control point of a handler thread implies for its locals.
ThreadInv ==
  \A c \in Clients :
    /\ pc[c] \in {"closed", "read"} =>
         req[c] = None /\ result[c] = None /\ resp[c] = None /\ done[c] = {} /\ pos[c] = 1
    /\ pc[c] \in {"check", "forward", "wait", "failed"} => req[c] # None
    /\ pc[c] \in {"forward", "wait", "failed"} => pos[c] <= Len(Pref[req[c].key])
    /\ resp[c] # None => pc[c] = "wait"
    /\ pc[c] = "wait" => conns[c][Target(c)] # "none"
    /\ pc[c] = "reply" => result[c] # None
    /\ req[c] = None => done[c] = {} /\ result[c] # Plain("Ok")

-----------------------------------------------------------------------------
(* Facts about the operators the actions are made of.                      *)

\* Positions in a list, one at a time.
LEMMA Positions ==
  ASSUME NEW p \in Nat \ {0}
  PROVE  /\ p # 1 => p > 1
         /\ p + 1 > 1 /\ p + 1 # 1
         /\ \A l \in Nat : p > l /\ l > 0 => p > 1
         /\ \A l \in Nat : ~(p > l) => p \in 1 .. l
  OBVIOUS

\* Pairs and triples, by their components.
LEMMA PairIs ==
  ASSUME NEW A, NEW B, NEW x \in A \X B
  PROVE  x = <<x[1], x[2]>> /\ x[1] \in A /\ x[2] \in B
  OBVIOUS

LEMMA TripleIs ==
  ASSUME NEW a, NEW b, NEW c, NEW d, NEW e, NEW f
  PROVE  <<a, b, c>> = <<d, e, f>> <=> a = d /\ b = e /\ c = f
  OBVIOUS

\* A parsed request names a key and one of the three store commands.
LEMMA RequestFacts ==
  ASSUME NEW r \in Request
  PROVE  /\ r # None /\ r.key \in Keys
         /\ r.command \in {"Get", "Set", "Delete"}
         /\ r.command = "Set" => r.value \in Values
  BY NoneAssumption DEF Request

\* handle_request() answers with a response that is never ERROR, and answers
\* OK exactly to a SET.
LEMMA StoreResponseFacts ==
  ASSUME NEW r \in Request, NEW v \in Values \cup {None}
  PROVE  /\ StoreResponse(r, v) \in Response /\ StoreResponse(r, v) # None
         /\ StoreResponse(r, v) # ErrorResponse
         /\ StoreResponse(r, v) = Plain("Ok") => r.command = "Set"
  BY RequestFacts, NoneAssumption DEF StoreResponse, Response, Plain, ErrorResponse

\* The store holds a value or nothing afterwards; only a DELETE removes one,
\* and a SET always leaves one.
LEMMA StoreEffectFacts ==
  ASSUME NEW r \in Request, NEW v \in Values \cup {None}
  PROVE  /\ StoreEffect(r, v) \in Values \cup {None}
         /\ r.command # "Delete" /\ v # None => StoreEffect(r, v) # None
         /\ r.command = "Set" => StoreEffect(r, v) # None
  BY RequestFacts, NoneAssumption DEF StoreEffect

\* The responses the router makes up itself.
LEMMA PlainFacts ==
  /\ Plain("Ok") \in Response /\ Plain("Ok") # None /\ Plain("Pong") \in Response
  /\ ErrorResponse \in Response /\ ErrorResponse # None
  /\ ErrorResponse # Plain("Ok") /\ Plain("Pong") # Plain("Ok")
  /\ Plain("Pong") # None /\ Plain("Pong") # ErrorResponse
  BY NoneAssumption DEF Plain, ErrorResponse, Response

\* What an ended router leaves behind are requests of its threads.
LEMMA InFlightFacts ==
  /\ InFlight \subseteq Nodes \X Clients \X Write
  /\ \A x \in InFlight : x[2] \in Clients /\ req[x[2]] = x[3]
  BY DEF InFlight

\* A preference list is a nonempty list of nodes.
LEMMA PrefFacts ==
  ASSUME NEW k \in Keys
  PROVE  /\ Pref[k] \in Seq(Nodes) /\ Len(Pref[k]) \in Nat /\ Len(Pref[k]) > 0
         /\ \A i \in 1 .. Len(Pref[k]) : Pref[k][i] \in Nodes
         /\ DOMAIN Pref[k] = 1 .. Len(Pref[k])
  BY RouterAssumption

\* The primary replica of a key, the head of its preference list, is a node.
LEMMA PrimaryIsNode ==
  ASSUME NEW k \in Keys
  PROVE  1 \in 1 .. Len(Pref[k]) /\ Pref[k][1] \in Nodes
<1>1. PICK l : l = Len(Pref[k])
  BY Zenon
<1>2. l \in Nat /\ l > 0
  BY <1>1, PrefFacts, Zenon
<1>3. 1 \in 1 .. l
  BY <1>2
<1>. QED
  BY <1>1, <1>3, PrefFacts, Zenon

\* A node occurs at most once in the preference list of a key.
LEMMA ReplicaOnce ==
  ASSUME NEW k \in Keys, NEW i \in 1 .. Len(Pref[k]), NEW j \in 1 .. Len(Pref[k]),
         Pref[k][i] = Pref[k][j]
  PROVE  i = j
<1>1. \A x, y \in DOMAIN Pref[k] : Pref[k][x] = Pref[k][y] => x = y
  BY RouterAssumption, Zenon
<1>. QED
  BY <1>1, PrefFacts, Zenon

\* The heartbeat thread is always at a node of its list.
LEMMA HeartbeatNode ==
  ASSUME TypeOK
  PROVE  NodeList[hbPos] \in Nodes
  BY RouterAssumption DEF TypeOK

\* A thread that left the head of the loop has a replica of its key in hand.
LEMMA TargetIsNode ==
  ASSUME TypeOK, ThreadInv, NEW c \in Clients, pc[c] \in {"forward", "wait", "failed"}
  PROVE  /\ req[c] \in Request
         /\ pos[c] \in 1 .. Len(Pref[req[c].key])
         /\ Target(c) \in Nodes
<1>1. req[c] \in Request
  BY DEF TypeOK, ThreadInv
<1>2. pos[c] \in 1 .. Len(Pref[req[c].key])
  BY <1>1, RequestFacts, PrefFacts DEF TypeOK, ThreadInv
<1>. QED
  BY <1>1, <1>2, RequestFacts, PrefFacts DEF Target

-----------------------------------------------------------------------------
(* Each layer is inductive given the previous ones.                        *)

\* Late writes come from the end of the router and from connections that TCP
\* gave up; other steps leave them alone, execute one, or drop those of a node
\* that crashes.
LEMMA LateShrinks ==
  ASSUME [Next]_vars, ~RouterEnds, \A c \in Clients : ~GiveUp(c)
  PROVE  late' \subseteq late
<1>1. ASSUME NEW n \in Nodes, Environment(n) PROVE late' \subseteq late
  BY <1>1 DEF Environment, Crash, Restart, Hang, Cut, Resume
<1>2. ASSUME NEW n \in Nodes, NEW c \in Clients, NEW w \in Write, HandleLate(n, c, w)
      PROVE  late' \subseteq late
  BY <1>2 DEF HandleLate
<1>3. ASSUME NEW c \in Clients, ThreadStep(c) \/ ClientStep(c) PROVE late' = late
  BY <1>3, Zenon DEF ThreadStep, SkipSuspected, TryReplica, SendOnCached, Connect, ConnectFails,
     ReceiveRead, ReceiveAck, RequestFails, CatchFailure, EndOfList, Reply, ClientStep,
     Accept, Disconnect, AnswerLocally, ReadRequest, nodeVars
<1>4. ASSUME Heartbeat \/ UNCHANGED vars \/ \E n \in Nodes, c \in Clients : HandleRequest(n, c)
      PROVE  late' = late
  BY <1>4, Zenon DEF Heartbeat, PingOnce, MarkPinged, HandleRequest, vars, nodeVars
<1>. QED
  BY <1>1, <1>2, <1>3, <1>4 DEF Next

\* What GiveUp leaves behind is a write in flight, which the node will execute.
LEMMA GivenUp ==
  ASSUME TypeOK, NEW c \in Clients, GiveUp(c)
  PROVE  /\ late' \subseteq late \cup InFlight
         /\ \/ done' = done
            \/ /\ done' = [done EXCEPT ![c] = done[c] \cup {Target(c)}]
               /\ done'[c] = done[c] \cup {Target(c)}
               /\ \A d \in Clients : d # c => done'[d] = done[d]
<1>1. done \in [Clients -> SUBSET Nodes]
  BY Zenon DEF TypeOK
<1>2. done' = done \/ done' = [done EXCEPT ![c] = done[c] \cup {Target(c)}]
  BY <1>1, Zenon DEF GiveUp
<1>3. ASSUME done' = [done EXCEPT ![c] = done[c] \cup {Target(c)}]
      PROVE  /\ done'[c] = done[c] \cup {Target(c)}
             /\ \A d \in Clients : d # c => done'[d] = done[d]
  BY <1>1, <1>3, Zenon
<1>4. late' \subseteq late \cup InFlight
  BY Zenon DEF GiveUp
<1>. QED
  BY <1>2, <1>3, <1>4, Zenon

\* Every step keeps every variable within its type.
LEMMA TypeStep ==
  ASSUME TypeOK, ThreadInv, [Next]_vars
  PROVE  TypeOK'
<1>0. LateTypes'
  <2>1. CASE RouterEnds
    BY <2>1, InFlightFacts, Zenon DEF RouterEnds, TypeOK, LateTypes
  <2>2. ASSUME NEW c \in Clients, GiveUp(c) PROVE LateTypes'
    BY <2>2, GivenUp, InFlightFacts, Zenon DEF TypeOK, LateTypes
  <2>3. CASE ~RouterEnds /\ \A c \in Clients : ~GiveUp(c)
    BY <2>3, LateShrinks, Zenon DEF TypeOK, LateTypes
  <2>. QED
    BY <2>1, <2>2, <2>3, Zenon
<1>. USE <1>0 DEF threadVars, hbVars, nodeVars, histVars
<1>1. ASSUME NEW c \in Clients, Accept(c) PROVE TypeOK'
  BY <1>1, Zenon DEF Accept, TypeOK, PCs
<1>2. ASSUME NEW c \in Clients, Disconnect(c) PROVE TypeOK'
  BY <1>2, Zenon DEF Disconnect, TypeOK, PCs, NoConns
<1>3. ASSUME NEW c \in Clients, AnswerLocally(c) PROVE TypeOK'
  BY <1>3, PlainFacts DEF AnswerLocally, TypeOK, PCs
<1>4. ASSUME NEW c \in Clients, ReadRequest(c) PROVE TypeOK'
  <2>1. PICK r \in Offered[c] :
          /\ req' = [req EXCEPT ![c] = r]
          /\ erased' = IF r.command = "Delete" THEN erased \cup {r.key} ELSE erased
    BY <1>4, Zenon DEF ReadRequest
  <2>2. r \in Request /\ r # None /\ r.key \in Keys
    BY RequestFacts, RouterAssumption
  <2>. QED
    BY <1>4, <2>1, <2>2, Zenon DEF ReadRequest, TypeOK, PCs
<1>5. ASSUME NEW c \in Clients, SkipSuspected(c) PROVE TypeOK'
  BY <1>5 DEF SkipSuspected, TypeOK, PCs
<1>6. ASSUME NEW c \in Clients, TryReplica(c) PROVE TypeOK'
  BY <1>6, Zenon DEF TryReplica, TypeOK, PCs
<1>7. ASSUME NEW c \in Clients, SendOnCached(c) PROVE TypeOK'
  BY <1>7, Zenon DEF SendOnCached, TypeOK, PCs
<1>8. ASSUME NEW c \in Clients, Connect(c) PROVE TypeOK'
  BY <1>8, Zenon DEF Connect, TypeOK, PCs
<1>9. ASSUME NEW c \in Clients, ConnectFails(c) PROVE TypeOK'
  BY <1>9, Zenon DEF ConnectFails, TypeOK, PCs
<1>10. ASSUME NEW c \in Clients, ReceiveRead(c) PROVE TypeOK'
  BY <1>10, Zenon DEF ReceiveRead, TypeOK, PCs
<1>11. ASSUME NEW c \in Clients, ReceiveAck(c) PROVE TypeOK'
  BY <1>11 DEF ReceiveAck, TypeOK, PCs
<1>12. ASSUME NEW c \in Clients, RequestFails(c) PROVE TypeOK'
  BY <1>12, Zenon DEF RequestFails, TypeOK, PCs
<1>13. ASSUME NEW c \in Clients, CatchFailure(c) PROVE TypeOK'
  BY <1>13, TargetIsNode DEF CatchFailure, TypeOK, PCs
<1>14. ASSUME NEW c \in Clients, EndOfList(c) PROVE TypeOK'
  BY <1>14, PlainFacts, Zenon DEF EndOfList, TypeOK, PCs
<1>15. ASSUME NEW c \in Clients, Reply(c) PROVE TypeOK'
  <2>1. result[c] = Plain("Ok") => req[c].key \in Keys
    BY RequestFacts, ZenonT(40) DEF TypeOK, ThreadInv
  <2>. QED
    BY <1>15, <2>1 DEF Reply, TypeOK, PCs
<1>16. ASSUME NEW n \in Nodes, NEW c \in Clients, HandleRequest(n, c) PROVE TypeOK'
  <2>1. req[c] \in Request /\ req[c].key \in Keys
    BY <1>16, TargetIsNode, RequestFacts, Zenon DEF HandleRequest
  <2>2. store[n][req[c].key] \in Values \cup {None}
    BY <2>1 DEF TypeOK
  <2>3. /\ StoreResponse(req[c], store[n][req[c].key]) \in Response
        /\ StoreEffect(req[c], store[n][req[c].key]) \in Values \cup {None}
    BY <2>1, <2>2, StoreResponseFacts, StoreEffectFacts, Zenon
  <2>. QED
    BY <1>16, <2>1, <2>3, ZenonT(40) DEF HandleRequest, TypeOK
<1>17. ASSUME PingOnce PROVE TypeOK'
  BY <1>17, Zenon DEF PingOnce, TypeOK
<1>18. ASSUME MarkPinged PROVE TypeOK'
  BY <1>18, RouterAssumption DEF MarkPinged, TypeOK
<1>19. ASSUME NEW n \in Nodes, Crash(n) PROVE TypeOK'
  BY <1>19, ZenonT(40) DEF Crash, TypeOK
<1>20. ASSUME NEW n \in Nodes, Restart(n) PROVE TypeOK'
  BY <1>20, Zenon DEF Restart, TypeOK
<1>21. ASSUME NEW n \in Nodes, Hang(n) PROVE TypeOK'
  BY <1>21, Zenon DEF Hang, TypeOK
<1>22. ASSUME NEW n \in Nodes, Resume(n) PROVE TypeOK'
  BY <1>22, Zenon DEF Resume, TypeOK
<1>23. ASSUME UNCHANGED vars PROVE TypeOK'
  BY <1>23, Zenon DEF vars, TypeOK
<1>24. ASSUME NEW n \in Nodes, NEW c \in Clients, NEW w \in Write, HandleLate(n, c, w)
      PROVE  TypeOK'
  <2>1. w \in Request /\ w.key \in Keys
    BY RequestFacts, Zenon DEF Write
  <2>2. store[n][w.key] \in Values \cup {None}
    BY <2>1 DEF TypeOK
  <2>3. StoreEffect(w, store[n][w.key]) \in Values \cup {None}
    BY <2>1, <2>2, StoreEffectFacts, Zenon
  <2>. QED
    BY <1>24, <2>1, <2>3, Zenon DEF HandleLate, TypeOK
<1>25. ASSUME RouterEnds PROVE TypeOK'
  <2>1. /\ pc' \in [Clients -> PCs] /\ req' \in [Clients -> Request \cup {None}]
        /\ pos' \in [Clients -> Nat \ {0}]
        /\ result' \in [Clients -> Response \cup {None}]
        /\ resp' \in [Clients -> Response \cup {None}]
        /\ conns' \in [Clients -> [Nodes -> {"none", "open", "broken"}]]
    BY <1>25 DEF RouterEnds, PCs, NoConns
  <2>2. /\ alive' \in [Nodes -> BOOLEAN] /\ done' \in [Clients -> SUBSET Nodes]
        /\ hbPos' \in 1 .. Len(NodeList) /\ hbPc' \in {"ping", "mark"} /\ hbUp' \in BOOLEAN
    BY <1>25, RouterAssumption DEF RouterEnds
  <2>. QED
    BY <1>25, <2>1, <2>2, Zenon DEF RouterEnds, TypeOK
<1>26. ASSUME NEW n \in Nodes, Cut(n) PROVE TypeOK'
  BY <1>26, Zenon DEF Cut, TypeOK
<1>27. ASSUME NEW c \in Clients, GiveUp(c) PROVE TypeOK'
  <2>1. Target(c) \in Nodes
    BY <1>27, TargetIsNode, Zenon DEF GiveUp
  <2>2. /\ conns' \in [Clients -> [Nodes -> {"none", "open", "broken"}]]
        /\ resp' \in [Clients -> Response \cup {None}]
    BY <1>27, <2>1, Zenon DEF GiveUp, TypeOK
  <2>3. done' \in [Clients -> SUBSET Nodes]
    <3>1. done \in [Clients -> SUBSET Nodes] /\ done[c] \cup {Target(c)} \in SUBSET Nodes
      BY <2>1, Zenon DEF TypeOK
    <3>. QED
      BY <1>27, <3>1, GivenUp, Zenon
  <2>. QED
    BY <1>27, <2>2, <2>3, Zenon DEF GiveUp, TypeOK
<1>. QED
  BY <1>1, <1>2, <1>3, <1>4, <1>5, <1>6, <1>7, <1>8, <1>9, <1>10, <1>11, <1>12,
     <1>13, <1>14, <1>15, <1>16, <1>17, <1>18, <1>19, <1>20, <1>21, <1>22, <1>23,
     <1>24, <1>25, <1>26, <1>27
  DEF Next, ClientStep, ThreadStep, Heartbeat, Environment

-----------------------------------------------------------------------------
(* Control points and suspicions.                                          *)

\* Whatever speaks against a node stems from a failure of that node.
FaultInv ==
  /\ \A n \in Nodes : node[n] # "up" => n \in faulty
  /\ \A n \in Nodes : node[n] = "cut" => n \in Cuttable
  /\ \A c \in Clients, n \in Nodes : conns[c][n] = "broken" => n \in faulty
  /\ \A c \in Clients : pc[c] = "failed" => Target(c) \in faulty
  /\ ~hbUp => NodeList[hbPos] \in faulty
  /\ NoFalseSuspicion

\* Every step keeps each thread's locals consistent with its control point.
LEMMA ThreadInvStep ==
  ASSUME TypeOK, ThreadInv, [Next]_vars
  PROVE  ThreadInv'
<1>. USE DEF threadVars, hbVars, nodeVars, histVars
<1>1. ASSUME NEW c \in Clients, Accept(c) PROVE ThreadInv'
  BY <1>1, ZenonT(30) DEF Accept, TypeOK, ThreadInv, Target
<1>2. ASSUME NEW c \in Clients, Disconnect(c) PROVE ThreadInv'
  <2>1. pc'[c] = "closed" /\ \A d \in Clients : d # c => pc'[d] = pc[d] /\ conns'[d] = conns[d]
    BY <1>2 DEF Disconnect, TypeOK
  <2>2. \A d \in Clients : Target(d)' = Target(d)
    BY <1>2, Zenon DEF Disconnect, Target
  <2>. QED
    BY <1>2, <2>1, <2>2, ZenonT(40) DEF Disconnect, ThreadInv
<1>3. ASSUME NEW c \in Clients, AnswerLocally(c) PROVE ThreadInv'
  <2>1. PICK r \in {Plain("Pong"), ErrorResponse} : result' = [result EXCEPT ![c] = r]
    BY <1>3, Zenon DEF AnswerLocally
  <2>2. r # None /\ r # Plain("Ok")
    BY PlainFacts, SMTT(20)
  <2>. QED
    BY <1>3, <2>1, <2>2, ZenonT(30) DEF AnswerLocally, TypeOK, ThreadInv, Target
<1>4. ASSUME NEW c \in Clients, ReadRequest(c) PROVE ThreadInv'
  <2>1. PICK r \in Offered[c] :
          /\ req' = [req EXCEPT ![c] = r]
          /\ erased' = IF r.command = "Delete" THEN erased \cup {r.key} ELSE erased
    BY <1>4, Zenon DEF ReadRequest
  <2>2. r \in Request /\ r # None /\ r.key \in Keys
    BY RequestFacts, RouterAssumption, Zenon
  <2>. QED
    BY <1>4, <2>1, <2>2, ZenonT(40) DEF ReadRequest, TypeOK, ThreadInv, Target
<1>5. ASSUME NEW c \in Clients, SkipSuspected(c) PROVE ThreadInv'
  BY <1>5, ZenonT(30) DEF SkipSuspected, TypeOK, ThreadInv, Target
<1>6. ASSUME NEW c \in Clients, TryReplica(c) PROVE ThreadInv'
  <2>1. req[c] # None /\ req[c] \in Request
    BY <1>6, Zenon DEF TryReplica, TypeOK, ThreadInv
  <2>2. pos[c] \in Nat /\ Len(Pref[req[c].key]) \in Nat
    BY <2>1, RequestFacts, PrefFacts, Zenon DEF TypeOK
  <2>3. pos[c] <= Len(Pref[req[c].key])
    BY <1>6, <2>2, SMTT(20) DEF TryReplica, Exhausted
  <2>. QED
    BY <1>6, <2>1, <2>3, ZenonT(30) DEF TryReplica, TypeOK, ThreadInv, Target
<1>7. ASSUME NEW c \in Clients, SendOnCached(c) PROVE ThreadInv'
  BY <1>7, ZenonT(30) DEF SendOnCached, TypeOK, ThreadInv, Target
<1>8. ASSUME NEW c \in Clients, Connect(c) PROVE ThreadInv'
  <2>1. Target(c) \in Nodes /\ Target(c)' = Target(c)
    BY <1>8, TargetIsNode, Zenon DEF Connect, Target
  <2>2. conns'[c][Target(c)'] = "open"
    BY <1>8, <2>1, Zenon DEF Connect, TypeOK
  <2>3. \A d \in Clients \ {c} : conns'[d] = conns[d] /\ Target(d)' = Target(d)
    BY <1>8, Zenon DEF Connect, TypeOK, Target
  <2>. QED
    BY <1>8, <2>2, <2>3, SMTT(20) DEF Connect, TypeOK, ThreadInv
<1>9. ASSUME NEW c \in Clients, ConnectFails(c) PROVE ThreadInv'
  BY <1>9, ZenonT(30) DEF ConnectFails, TypeOK, ThreadInv, Target
<1>10. ASSUME NEW c \in Clients, ReceiveRead(c) PROVE ThreadInv'
  BY <1>10, ZenonT(30) DEF ReceiveRead, TypeOK, ThreadInv, Target
<1>11. ASSUME NEW c \in Clients, ReceiveAck(c) PROVE ThreadInv'
  BY <1>11, ZenonT(30) DEF ReceiveAck, TypeOK, ThreadInv, Target
<1>12. ASSUME NEW c \in Clients, RequestFails(c) PROVE ThreadInv'
  BY <1>12, ZenonT(30) DEF RequestFails, TypeOK, ThreadInv, Target
<1>13. ASSUME NEW c \in Clients, CatchFailure(c) PROVE ThreadInv'
  <2>1. \A d \in Clients \ {c} : conns'[d] = conns[d] /\ Target(d)' = Target(d)
    BY <1>13, Zenon DEF CatchFailure, TypeOK, Target
  <2>. QED
    BY <1>13, <2>1, SMTT(20) DEF CatchFailure, TypeOK, ThreadInv
<1>14. ASSUME NEW c \in Clients, EndOfList(c) PROVE ThreadInv'
  BY <1>14, PlainFacts, ZenonT(30) DEF EndOfList, TypeOK, ThreadInv, Target
<1>15. ASSUME NEW c \in Clients, Reply(c) PROVE ThreadInv'
  <2>1. /\ pc'[c] = "read" /\ req'[c] = None /\ pos'[c] = 1 /\ result'[c] = None
        /\ done'[c] = {} /\ resp'[c] = None
    BY <1>15, Zenon DEF Reply, TypeOK, ThreadInv
  <2>2. ASSUME NEW d \in Clients, d # c
        PROVE  /\ pc'[d] = pc[d] /\ req'[d] = req[d] /\ pos'[d] = pos[d]
               /\ result'[d] = result[d] /\ done'[d] = done[d] /\ resp'[d] = resp[d]
               /\ conns'[d] = conns[d]
    BY <1>15, <2>2, Zenon DEF Reply, TypeOK
  <2>3. \A d \in Clients : d # c => Target(d)' = Target(d)
    BY <2>2, Zenon DEF Target
  <2>. QED
    BY <2>1, <2>2, <2>3, PlainFacts DEF ThreadInv
<1>16. ASSUME NEW n \in Nodes, NEW c \in Clients, HandleRequest(n, c) PROVE ThreadInv'
  <2>1. req[c] # None
    BY <1>16, Zenon DEF HandleRequest, ThreadInv
  <2>. QED
    BY <1>16, <2>1, ZenonT(40) DEF HandleRequest, TypeOK, ThreadInv, Target
<1>17. ASSUME PingOnce PROVE ThreadInv'
  BY <1>17, Zenon DEF PingOnce, TypeOK, ThreadInv, Target
<1>18. ASSUME MarkPinged PROVE ThreadInv'
  BY <1>18, ZenonT(40) DEF MarkPinged, TypeOK, ThreadInv, Target
<1>19. ASSUME NEW n \in Nodes, Crash(n) PROVE ThreadInv'
  <2>1. \A d \in Clients : pc[d] = "wait" => Target(d) \in Nodes
    BY TargetIsNode, Zenon
  <2>2. \A d \in Clients : Target(d)' = Target(d)
    BY <1>19, Zenon DEF Crash, Target
  <2>3. \A d \in Clients, m \in Nodes : conns[d][m] # "none" => conns'[d][m] # "none"
    BY <1>19, Zenon DEF Crash, TypeOK
  <2>4. \A d \in Clients : done[d] = {} => done'[d] = {}
    <3>1. done' = [d \in Clients |-> done[d] \ {n}]
      BY <1>19, Zenon DEF Crash
    <3> QED BY <3>1, Zenon
  <2>. QED
    BY <1>19, <2>1, <2>2, <2>3, <2>4, ZenonT(40) DEF Crash, ThreadInv
<1>20. ASSUME NEW n \in Nodes, Restart(n) PROVE ThreadInv'
  BY <1>20, Zenon DEF Restart, TypeOK, ThreadInv, Target
<1>21. ASSUME NEW n \in Nodes, Hang(n) PROVE ThreadInv'
  BY <1>21, ZenonT(40) DEF Hang, TypeOK, ThreadInv, Target
<1>22. ASSUME NEW n \in Nodes, Resume(n) PROVE ThreadInv'
  BY <1>22, ZenonT(30) DEF Resume, TypeOK, ThreadInv, Target
<1>23. ASSUME UNCHANGED vars PROVE ThreadInv'
  BY <1>23, Zenon DEF vars, TypeOK, ThreadInv, Target
<1>24. ASSUME NEW n \in Nodes, NEW c \in Clients, NEW w \in Write, HandleLate(n, c, w)
      PROVE  ThreadInv'
  BY <1>24, ZenonT(40) DEF HandleLate, TypeOK, ThreadInv, Target
<1>25. ASSUME RouterEnds PROVE ThreadInv'
  BY <1>25, PlainFacts, Zenon DEF RouterEnds, ThreadInv
<1>26. ASSUME NEW n \in Nodes, Cut(n) PROVE ThreadInv'
  BY <1>26, ZenonT(40) DEF Cut, TypeOK, ThreadInv, Target
<1>27. ASSUME NEW c \in Clients, GiveUp(c) PROVE ThreadInv'
  <2>1. /\ pc' = pc /\ req' = req /\ pos' = pos /\ result' = result
        /\ pc[c] = "wait" /\ req[c] # None
    BY <1>27, Zenon DEF GiveUp, ThreadInv
  <2>2. resp'[c] = None /\ \A d \in Clients : d # c => resp'[d] = resp[d] /\ done'[d] = done[d]
    BY <1>27, Zenon DEF GiveUp, TypeOK
  <2>3. ASSUME NEW d \in Clients, NEW n \in Nodes, conns[d][n] # "none" PROVE conns'[d][n] # "none"
    BY <1>27, <2>3, Zenon DEF GiveUp, TypeOK
  <2>4. ASSUME NEW d \in Clients, pc[d] = "wait" PROVE conns'[d][Target(d)] # "none"
    BY <2>3, <2>4, TargetIsNode, Zenon DEF ThreadInv
  <2>. QED
    BY <2>1, <2>2, <2>4, ZenonT(40) DEF ThreadInv, Target
<1>. QED
  BY Zenon, <1>1, <1>2, <1>3, <1>4, <1>5, <1>6, <1>7, <1>8, <1>9, <1>10, <1>11, <1>12,
     <1>13, <1>14, <1>15, <1>16, <1>17, <1>18, <1>19, <1>20, <1>21, <1>22, <1>23,
     <1>24, <1>25, <1>26, <1>27
  DEF Next, ClientStep, ThreadStep, Heartbeat, Environment

\* Every step that speaks against a node does so after a failure of it.
LEMMA FaultInvStep ==
  ASSUME TypeOK, ThreadInv, FaultInv, [Next]_vars
  PROVE  FaultInv'
<1>. USE DEF threadVars, hbVars, nodeVars, histVars
<1>1. ASSUME NEW c \in Clients, Accept(c) PROVE FaultInv'
  BY <1>1, Zenon DEF Accept, TypeOK, FaultInv, NoFalseSuspicion, Target
<1>2. ASSUME NEW c \in Clients, Disconnect(c) PROVE FaultInv'
  BY <1>2, Zenon DEF Disconnect, TypeOK, FaultInv, NoFalseSuspicion, Target, NoConns
<1>3. ASSUME NEW c \in Clients, AnswerLocally(c) PROVE FaultInv'
  BY <1>3, Zenon DEF AnswerLocally, TypeOK, FaultInv, NoFalseSuspicion, Target
<1>4. ASSUME NEW c \in Clients, ReadRequest(c) PROVE FaultInv'
  BY <1>4, Zenon DEF ReadRequest, TypeOK, FaultInv, NoFalseSuspicion, Target
<1>5. ASSUME NEW c \in Clients, SkipSuspected(c) PROVE FaultInv'
  BY <1>5, Zenon DEF SkipSuspected, TypeOK, FaultInv, NoFalseSuspicion, Target
<1>6. ASSUME NEW c \in Clients, TryReplica(c) PROVE FaultInv'
  BY <1>6, Zenon DEF TryReplica, TypeOK, FaultInv, NoFalseSuspicion, Target
<1>7. ASSUME NEW c \in Clients, SendOnCached(c) PROVE FaultInv'
  BY <1>7, Zenon DEF SendOnCached, TypeOK, FaultInv, NoFalseSuspicion, Target
<1>8. ASSUME NEW c \in Clients, Connect(c) PROVE FaultInv'
  BY <1>8, TargetIsNode, ZenonT(30) DEF Connect, TypeOK, FaultInv, NoFalseSuspicion, Target
<1>9. ASSUME NEW c \in Clients, ConnectFails(c) PROVE FaultInv'
  BY <1>9, TargetIsNode, Zenon DEF ConnectFails, TypeOK, FaultInv, NoFalseSuspicion, Target
<1>10. ASSUME NEW c \in Clients, ReceiveRead(c) PROVE FaultInv'
  BY <1>10, Zenon DEF ReceiveRead, TypeOK, FaultInv, NoFalseSuspicion, Target
<1>11. ASSUME NEW c \in Clients, ReceiveAck(c) PROVE FaultInv'
  BY <1>11, Zenon DEF ReceiveAck, TypeOK, FaultInv, NoFalseSuspicion, Target
<1>12. ASSUME NEW c \in Clients, RequestFails(c) PROVE FaultInv'
  BY <1>12, TargetIsNode, ZenonT(40) DEF RequestFails, TypeOK, FaultInv, NoFalseSuspicion, Target
<1>13. ASSUME NEW c \in Clients, CatchFailure(c) PROVE FaultInv'
  BY <1>13, TargetIsNode, Zenon DEF CatchFailure, TypeOK, FaultInv, NoFalseSuspicion, Target
<1>14. ASSUME NEW c \in Clients, EndOfList(c) PROVE FaultInv'
  BY <1>14, Zenon DEF EndOfList, TypeOK, FaultInv, NoFalseSuspicion, Target
<1>15. ASSUME NEW c \in Clients, Reply(c) PROVE FaultInv'
  BY <1>15, Zenon DEF Reply, TypeOK, FaultInv, NoFalseSuspicion, Target
<1>16. ASSUME NEW n \in Nodes, NEW c \in Clients, HandleRequest(n, c) PROVE FaultInv'
  BY <1>16, Zenon DEF HandleRequest, TypeOK, FaultInv, NoFalseSuspicion, Target
<1>17. ASSUME PingOnce PROVE FaultInv'
  BY <1>17, HeartbeatNode, ZenonT(30) DEF PingOnce, TypeOK, FaultInv, NoFalseSuspicion, Target
<1>18. ASSUME MarkPinged PROVE FaultInv'
  BY <1>18, Zenon DEF MarkPinged, TypeOK, FaultInv, NoFalseSuspicion, Target
<1>19. ASSUME NEW n \in Nodes, Crash(n) PROVE FaultInv'
  BY <1>19, Zenon DEF Crash, TypeOK, FaultInv, NoFalseSuspicion, Target
<1>20. ASSUME NEW n \in Nodes, Restart(n) PROVE FaultInv'
  BY <1>20, Zenon DEF Restart, TypeOK, FaultInv, NoFalseSuspicion, Target
<1>21. ASSUME NEW n \in Nodes, Hang(n) PROVE FaultInv'
  BY <1>21, Zenon DEF Hang, TypeOK, FaultInv, NoFalseSuspicion, Target
<1>22. ASSUME NEW n \in Nodes, Resume(n) PROVE FaultInv'
  BY <1>22, Zenon DEF Resume, TypeOK, FaultInv, NoFalseSuspicion, Target
<1>23. ASSUME UNCHANGED vars PROVE FaultInv'
  BY <1>23, Zenon DEF vars, TypeOK, FaultInv, NoFalseSuspicion, Target
<1>24. ASSUME NEW n \in Nodes, NEW c \in Clients, NEW w \in Write, HandleLate(n, c, w)
      PROVE  FaultInv'
  BY <1>24, Zenon DEF HandleLate, TypeOK, FaultInv, NoFalseSuspicion, Target
<1>25. ASSUME RouterEnds PROVE FaultInv'
  BY <1>25, Zenon DEF RouterEnds, TypeOK, FaultInv, NoFalseSuspicion, NoConns
<1>26. ASSUME NEW n \in Nodes, Cut(n) PROVE FaultInv'
  BY <1>26, Zenon DEF Cut, TypeOK, FaultInv, NoFalseSuspicion, Target
<1>27. ASSUME NEW c \in Clients, GiveUp(c) PROVE FaultInv'
  <2>1. Target(c) \in Nodes /\ Target(c) \in faulty
    BY <1>27, TargetIsNode, Zenon DEF GiveUp, FaultInv
  <2>2. ASSUME NEW d \in Clients, NEW n \in Nodes, conns'[d][n] = "broken" PROVE n \in faulty
    BY <1>27, <2>1, <2>2, Zenon DEF GiveUp, TypeOK, FaultInv
  <2>. QED
    BY <1>27, <2>2, Zenon DEF GiveUp, FaultInv, NoFalseSuspicion, Target
<1>. QED
  BY Zenon, <1>1, <1>2, <1>3, <1>4, <1>5, <1>6, <1>7, <1>8, <1>9, <1>10, <1>11, <1>12,
     <1>13, <1>14, <1>15, <1>16, <1>17, <1>18, <1>19, <1>20, <1>21, <1>22, <1>23,
     <1>24, <1>25, <1>26, <1>27
  DEF Next, ClientStep, ThreadStep, Heartbeat, Environment

-----------------------------------------------------------------------------
(* Progress along the preference list.                                     *)

\* How far a request got: the replicas it went past failed, or executed it.
Progress(c) ==
  /\ \A i \in 1 .. Len(Pref[req[c].key]) :
       i < pos[c] => Pref[req[c].key][i] \in done[c] \cup faulty
  /\ resp[c] # None => Target(c) \in done[c] \cup faulty
  /\ resp[c] # ErrorResponse
  /\ result[c] \in {None, ErrorResponse} =>
       \A n \in done[c] : n \in Cuttable \cap faulty \/ (resp[c] # None /\ n = Target(c))
  /\ pc[c] = "reply" /\ (req[c].command # "Get" \/ result[c] = ErrorResponse)
       => pos[c] > Len(Pref[req[c].key])
  /\ result[c] = ErrorResponse => pc[c] = "reply"

ProgressInv == \A c \in Clients : req[c] # None => Progress(c)

\* A request that leaves a replica which executed it or failed went past one
\* more such replica.
LEMMA OneFurther ==
  ASSUME NEW c \in Clients, req[c].key \in Keys, Progress(c),
         pos[c] \in 1 .. Len(Pref[req[c].key]), Target(c) \in done[c] \cup faulty
  PROVE  \A i \in 1 .. Len(Pref[req[c].key]) :
           i < pos[c] + 1 => Pref[req[c].key][i] \in done[c] \cup faulty
<1>. SUFFICES ASSUME NEW i \in 1 .. Len(Pref[req[c].key]), i < pos[c] + 1
              PROVE  Pref[req[c].key][i] \in done[c] \cup faulty
  BY Zenon
<1>1. Len(Pref[req[c].key]) \in Nat
  BY PrefFacts
<1>2. i < pos[c] \/ i = pos[c]
  BY <1>1
<1>3. CASE i < pos[c]
  BY <1>3, Zenon DEF Progress
<1>4. CASE i = pos[c]
  BY <1>4, Zenon DEF Target
<1>. QED
  BY <1>2, <1>3, <1>4, Zenon

\* A request at the end of the list went past every replica.
LEMMA PastAll ==
  ASSUME NEW c \in Clients, req[c].key \in Keys, Progress(c),
         pos[c] \in Nat, pos[c] > Len(Pref[req[c].key])
  PROVE  /\ \A i \in DOMAIN Pref[req[c].key] : Pref[req[c].key][i] \in done[c] \cup faulty
         /\ Replicas(c) \subseteq done[c] \cup faulty
<1>1. Len(Pref[req[c].key]) \in Nat /\ DOMAIN Pref[req[c].key] = 1 .. Len(Pref[req[c].key])
  BY PrefFacts, Zenon
<1>2. \A i \in 1 .. Len(Pref[req[c].key]) : i < pos[c]
  BY <1>1
<1>3. \A i \in DOMAIN Pref[req[c].key] : Pref[req[c].key][i] \in done[c] \cup faulty
  BY <1>1, <1>2, Zenon DEF Progress
<1>. QED
  BY <1>3, Zenon DEF Replicas

\* Every step keeps the account of the replicas each request went past.
LEMMA ProgressInvStep ==
  ASSUME TypeOK, ThreadInv, FaultInv, ProgressInv, [Next]_vars
  PROVE  ProgressInv'
<1>. USE DEF threadVars, hbVars, nodeVars, histVars
<1>b. ASSUME UNCHANGED <<req, pos, result, resp, done>>, faulty \subseteq faulty',
             \A d \in Clients : pc'[d] = "reply" <=> pc[d] = "reply"
      PROVE  ProgressInv'
  BY <1>b, Zenon DEF ProgressInv, Progress, Target
<1>a. ASSUME NEW d \in Clients, req[d] # None, faulty' = faulty,
              pc'[d] = pc[d], req'[d] = req[d], pos'[d] = pos[d],
              result'[d] = result[d], resp'[d] = resp[d], done'[d] = done[d]
       PROVE  Progress(d)'
  BY <1>a, Zenon DEF ProgressInv, Progress, Target
<1>1. ASSUME NEW c \in Clients, Accept(c) PROVE ProgressInv'
  BY <1>b, <1>1, Zenon DEF Accept, TypeOK
<1>2. ASSUME NEW c \in Clients, Disconnect(c) PROVE ProgressInv'
  BY <1>b, <1>2, Zenon DEF Disconnect, TypeOK
<1>3. ASSUME NEW c \in Clients, AnswerLocally(c) PROVE ProgressInv'
  BY <1>3, ZenonT(40) DEF AnswerLocally, TypeOK, ThreadInv, ProgressInv, Progress, Target
<1>4. ASSUME NEW c \in Clients, ReadRequest(c) PROVE ProgressInv'
  <2>1. PICK r \in Offered[c] :
          /\ req' = [req EXCEPT ![c] = r]
          /\ erased' = IF r.command = "Delete" THEN erased \cup {r.key} ELSE erased
    BY <1>4, Zenon DEF ReadRequest
  <2>2. r \in Request /\ r # None /\ r.key \in Keys
    BY RequestFacts, RouterAssumption
  <2>3. Progress(c)'
    <3>1. pos[c] = 1 /\ resp[c] = None /\ result[c] = None /\ done[c] = {}
      BY <1>4, Zenon DEF ReadRequest, ThreadInv
    <3>2. /\ pos'[c] = 1 /\ resp'[c] = None /\ result'[c] = None /\ done'[c] = {}
          /\ pc'[c] = "check" /\ req'[c] = r
      BY <1>4, <2>1, <3>1, Zenon DEF ReadRequest, TypeOK
    <3>. QED
      BY <2>2, <3>2, PlainFacts, PrefFacts DEF Progress
  <2>4. ASSUME NEW d \in Clients, d # c, req[d] # None PROVE Progress(d)'
    BY <1>a, <1>4, <2>1, <2>4, Zenon DEF ReadRequest, TypeOK
  <2>. QED
    BY <2>1, <2>3, <2>4, Zenon DEF ProgressInv, TypeOK
<1>5. ASSUME NEW c \in Clients, SkipSuspected(c) PROVE ProgressInv'
  <2>1. req[c] \in Request /\ req[c].key \in Keys
    BY <1>5, RequestFacts, ZenonT(40) DEF SkipSuspected, TypeOK, ThreadInv
  <2>2. Progress(c)
    BY <1>5, Zenon DEF SkipSuspected, ThreadInv, ProgressInv
  <2>3. Progress(c)'
    <3>1. pos[c] \in 1 .. Len(Pref[req[c].key])
      <4>1. pos[c] \in Nat \ {0} /\ Len(Pref[req[c].key]) \in Nat
        BY <2>1, PrefFacts, Zenon DEF TypeOK
      <4>. QED
        BY <1>5, <4>1, Positions, Zenon DEF SkipSuspected, Exhausted
    <3>2. Target(c) \in faulty
      BY <1>5, <2>1, <3>1, PrefFacts, Zenon DEF SkipSuspected, FaultInv, NoFalseSuspicion, Target
    <3>3. \A i \in 1 .. Len(Pref[req[c].key]) :
            i < pos[c] + 1 => Pref[req[c].key][i] \in done[c] \cup faulty
      BY <2>1, <2>2, <3>1, <3>2, OneFurther, Zenon
    <3>4. pos'[c] = pos[c] + 1 /\ resp[c] = None
      BY <1>5, Zenon DEF SkipSuspected, TypeOK, ThreadInv
    <3>. QED
      BY <1>5, <2>2, <3>3, <3>4, PlainFacts, Zenon DEF SkipSuspected, Progress
  <2>4. ASSUME NEW d \in Clients, d # c, req[d] # None PROVE Progress(d)'
    BY <1>a, <1>5, <2>4, Zenon DEF SkipSuspected, TypeOK
  <2>. QED
    BY <1>5, <2>3, <2>4, Zenon DEF SkipSuspected, ProgressInv
<1>6. ASSUME NEW c \in Clients, TryReplica(c) PROVE ProgressInv'
  BY <1>b, <1>6, Zenon DEF TryReplica, TypeOK
<1>7. ASSUME NEW c \in Clients, SendOnCached(c) PROVE ProgressInv'
  BY <1>b, <1>7, Zenon DEF SendOnCached, TypeOK
<1>8. ASSUME NEW c \in Clients, Connect(c) PROVE ProgressInv'
  BY <1>b, <1>8, Zenon DEF Connect, TypeOK
<1>9. ASSUME NEW c \in Clients, ConnectFails(c) PROVE ProgressInv'
  BY <1>b, <1>9, Zenon DEF ConnectFails, TypeOK
<1>10. ASSUME NEW c \in Clients, ReceiveRead(c) PROVE ProgressInv'
  <2>1. req[c] \in Request /\ req[c].key \in Keys
    BY <1>10, RequestFacts, ZenonT(40) DEF ReceiveRead, TypeOK, ThreadInv
  <2>2. Progress(c)
    BY <1>10, Zenon DEF ReceiveRead, ThreadInv, ProgressInv
  <2>3. Progress(c)'
    BY <1>10, <2>1, <2>2, PlainFacts, PrefFacts, Zenon
   DEF ReceiveRead, TypeOK, ThreadInv, Progress, Target
  <2>4. ASSUME NEW d \in Clients, d # c, req[d] # None PROVE Progress(d)'
    BY <1>a, <1>10, <2>4, Zenon DEF ReceiveRead, TypeOK
  <2>. QED
    BY <1>10, <2>3, <2>4, Zenon DEF ReceiveRead, ProgressInv
<1>11. ASSUME NEW c \in Clients, ReceiveAck(c) PROVE ProgressInv'
  <2>1. req[c] \in Request /\ req[c].key \in Keys
    BY <1>11, RequestFacts, ZenonT(30) DEF ReceiveAck, TypeOK, ThreadInv
  <2>2. Progress(c)
    BY <1>11, Zenon DEF ReceiveAck, ThreadInv, ProgressInv
  <2>3. Progress(c)'
    <3>1. pos[c] \in 1 .. Len(Pref[req[c].key])
      BY <1>11, TargetIsNode, Zenon DEF ReceiveAck
    <3>2. \A i \in 1 .. Len(Pref[req[c].key]) :
            i < pos[c] + 1 => Pref[req[c].key][i] \in done[c] \cup faulty
      <4>1. Target(c) \in done[c] \cup faulty
        BY <1>11, <2>2, Zenon DEF ReceiveAck, Progress
      <4>. QED
        BY <2>1, <2>2, <3>1, <4>1, OneFurther, Zenon
    <3>3. /\ pos'[c] = pos[c] + 1 /\ resp'[c] = None /\ pc'[c] = "check"
          /\ result'[c] = IF result[c] = None THEN resp[c] ELSE result[c]
      BY <1>11, Zenon DEF ReceiveAck, TypeOK
    <3>4. result'[c] # None /\ result'[c] # ErrorResponse
      BY <1>11, <2>2, <3>3, Zenon DEF ReceiveAck, Progress
    <3>. QED
      BY <1>11, <3>2, <3>3, <3>4, PlainFacts, Zenon DEF ReceiveAck, Progress
  <2>4. ASSUME NEW d \in Clients, d # c, req[d] # None PROVE Progress(d)'
    BY <1>a, <1>11, <2>4, Zenon DEF ReceiveAck, TypeOK
  <2>. QED
    BY <1>11, <2>3, <2>4, Zenon DEF ReceiveAck, ProgressInv
<1>12. ASSUME NEW c \in Clients, RequestFails(c) PROVE ProgressInv'
  BY <1>b, <1>12, Zenon DEF RequestFails, TypeOK
<1>13. ASSUME NEW c \in Clients, CatchFailure(c) PROVE ProgressInv'
  <2>1. req[c] \in Request /\ req[c].key \in Keys /\ pos[c] \in 1 .. Len(Pref[req[c].key])
    BY <1>13, TargetIsNode, RequestFacts, Zenon DEF CatchFailure
  <2>2. Progress(c) /\ Target(c) \in faulty /\ resp[c] = None
    BY <1>13, Zenon DEF CatchFailure, ThreadInv, FaultInv, ProgressInv
  <2>3. \A i \in 1 .. Len(Pref[req[c].key]) :
          i < pos[c] + 1 => Pref[req[c].key][i] \in done[c] \cup faulty
    BY <2>1, <2>2, OneFurther, Zenon
  <2>4. Progress(c)'
    BY <1>13, <2>2, <2>3, PlainFacts, Zenon DEF CatchFailure, TypeOK, Progress
  <2>5. ASSUME NEW d \in Clients, d # c, req[d] # None PROVE Progress(d)'
    BY <1>a, <1>13, <2>5, Zenon DEF CatchFailure, TypeOK
  <2>. QED
    BY <1>13, <2>4, <2>5, Zenon DEF CatchFailure, ProgressInv
<1>14. ASSUME NEW c \in Clients, EndOfList(c) PROVE ProgressInv'
  <2>1. req[c] \in Request /\ req[c].key \in Keys
    BY <1>14, RequestFacts, ZenonT(30) DEF EndOfList, TypeOK, ThreadInv
  <2>2. Progress(c)
    BY <1>14, Zenon DEF EndOfList, ThreadInv, ProgressInv
  <2>3. Progress(c)'
    BY <1>14, <2>1, <2>2, PlainFacts, PrefFacts, Zenon DEF EndOfList, Exhausted, TypeOK, ThreadInv, Progress, Target
  <2>4. ASSUME NEW d \in Clients, d # c, req[d] # None PROVE Progress(d)'
    BY <1>a, <1>14, <2>4, Zenon DEF EndOfList, TypeOK
  <2>. QED
    BY <1>14, <2>3, <2>4, Zenon DEF EndOfList, ProgressInv
<1>15. ASSUME NEW c \in Clients, Reply(c) PROVE ProgressInv'
  BY <1>15, ZenonT(30) DEF Reply, TypeOK, ThreadInv, ProgressInv, Progress, Target
<1>16. ASSUME NEW n \in Nodes, NEW c \in Clients, HandleRequest(n, c) PROVE ProgressInv'
  <2>1. req[c] \in Request /\ store[n][req[c].key] \in Values \cup {None}
    <3>1. req[c] \in Request /\ req[c].key \in Keys
      BY <1>16, TargetIsNode, RequestFacts, Zenon DEF HandleRequest
    <3>. QED
      BY <3>1, ZenonT(40) DEF TypeOK
  <2>2. resp'[c] # None /\ resp'[c] # ErrorResponse /\ n \in done'[c]
    BY <1>16, <2>1, StoreResponseFacts, Zenon DEF HandleRequest, TypeOK
  <2>3. Progress(c)'
    BY <1>16, <2>1, <2>2, ZenonT(40) DEF HandleRequest, TypeOK, ThreadInv, ProgressInv, Progress, Target
  <2>4. ASSUME NEW d \in Clients, d # c, req[d] # None PROVE Progress(d)'
    BY <1>a, <1>16, <2>4, Zenon DEF HandleRequest, TypeOK
  <2>. QED
    BY <1>16, <2>3, <2>4, Zenon DEF HandleRequest, ProgressInv
<1>17. ASSUME PingOnce PROVE ProgressInv'
  BY <1>b, <1>17, Zenon DEF PingOnce
<1>18. ASSUME MarkPinged PROVE ProgressInv'
  BY <1>b, <1>18, SMTT(20) DEF MarkPinged
<1>19. ASSUME NEW n \in Nodes, Crash(n) PROVE ProgressInv'
  BY <1>19, Zenon DEF Crash, TypeOK, ThreadInv, ProgressInv, Progress, Target
<1>20. ASSUME NEW n \in Nodes, Restart(n) PROVE ProgressInv'
  BY <1>b, <1>20 DEF Restart
<1>21. ASSUME NEW n \in Nodes, Hang(n) PROVE ProgressInv'
  BY <1>b, <1>21 DEF Hang
<1>22. ASSUME NEW n \in Nodes, Resume(n) PROVE ProgressInv'
  BY <1>b, <1>22 DEF Resume
<1>23. ASSUME UNCHANGED vars PROVE ProgressInv'
  BY <1>b, <1>23 DEF vars
<1>24. ASSUME NEW n \in Nodes, NEW c \in Clients, NEW w \in Write, HandleLate(n, c, w)
      PROVE  ProgressInv'
  BY <1>b, <1>24 DEF HandleLate
<1>25. ASSUME RouterEnds PROVE ProgressInv'
  BY <1>25 DEF RouterEnds, ProgressInv
<1>26. ASSUME NEW n \in Nodes, Cut(n) PROVE ProgressInv'
  BY <1>b, <1>26 DEF Cut
<1>27. ASSUME NEW c \in Clients, GiveUp(c) PROVE ProgressInv'
  <2>1. /\ pc' = pc /\ req' = req /\ pos' = pos /\ result' = result /\ faulty' = faulty
        /\ resp'[c] = None /\ Target(c)' = Target(c)
    BY <1>27, Zenon DEF GiveUp, TypeOK, Target
  <2>2. Progress(c) /\ Target(c) \in Cuttable \cap faulty
    BY <1>27, TargetIsNode, Zenon DEF GiveUp, ThreadInv, ProgressInv, FaultInv
  <2>3. done[c] \subseteq done'[c] /\ \A n \in done'[c] : n \in done[c] \/ n = Target(c)
    BY <1>27, GivenUp, Zenon
  <2>4. Progress(c)'
    BY <2>1, <2>2, <2>3, PlainFacts, Zenon DEF Progress
  <2>5. ASSUME NEW d \in Clients, d # c, req[d] # None PROVE Progress(d)'
    BY <1>a, <1>27, <2>5, Zenon DEF GiveUp, TypeOK
  <2>. QED
    BY <2>1, <2>4, <2>5, Zenon DEF ProgressInv
<1>. QED
  BY SMTT(20), <1>1, <1>2, <1>3, <1>4, <1>5, <1>6, <1>7, <1>8, <1>9, <1>10, <1>11, <1>12,
     <1>13, <1>14, <1>15, <1>16, <1>17, <1>18, <1>19, <1>20, <1>21, <1>22, <1>23,
     <1>24, <1>25, <1>26, <1>27
  DEF Next, ClientStep, ThreadStep, Heartbeat, Environment

-----------------------------------------------------------------------------
(* Stores and late writes.                                                 *)

\* A store that executed a SET, and whose node did not fail, still holds a value
\* for the key, unless the key is being or was deleted; OK answers a SET and nothing else.
StoreInv ==
  /\ \A c \in Clients : req[c] # None =>
       /\ req[c].command = "Delete" => req[c].key \in erased
       /\ req[c].command = "Set" /\ req[c].key \notin erased
            => \A n \in done[c] \ faulty : store[n][req[c].key] # None
       /\ resp[c] = Plain("Ok") \/ result[c] = Plain("Ok") => req[c].command = "Set"
  /\ AckedSurvives

\* A DELETE that was left behind was once read by the router.
LateInv == \A x \in late : x[3].command = "Delete" => x[3].key \in erased

IInv == TypeOK /\ ThreadInv /\ FaultInv /\ ProgressInv /\ LateInv /\ StoreInv

-----------------------------------------------------------------------------
\* The writes that are left behind are those of the router's threads.
LEMMA LateInvStep ==
  ASSUME IInv, [Next]_vars
  PROVE  LateInv'
<1>1. ASSUME NEW c \in Clients, ReadRequest(c) PROVE LateInv'
  <2>1. erased \subseteq erased' /\ late' = late
    BY <1>1 DEF ReadRequest, nodeVars
  <2>. QED
    BY <2>1, Zenon DEF IInv, LateInv
<1>2. ASSUME RouterEnds \/ \E c \in Clients : GiveUp(c) PROVE LateInv'
  <2>1. ASSUME NEW x \in InFlight, x[3].command = "Delete" PROVE x[3].key \in erased
    <3>1. x[2] \in Clients /\ req[x[2]] = x[3] /\ x[3] \in Write
      BY InFlightFacts
    <3>2. x[3] # None
      BY <3>1, RequestFacts DEF Write
    <3>. QED
      BY <2>1, <3>1, <3>2 DEF IInv, StoreInv
  <2>2. late' \subseteq late \cup InFlight /\ erased' = erased
    BY <1>2, GivenUp, Zenon DEF RouterEnds, GiveUp
  <2>. QED
    BY <2>1, <2>2, Zenon DEF IInv, LateInv
<1>3. ASSUME ~RouterEnds, \A c \in Clients : ~ReadRequest(c) /\ ~GiveUp(c) PROVE LateInv'
  <2>1. ASSUME NEW c \in Clients, ThreadStep(c) \/ ClientStep(c) PROVE erased' = erased
    BY <1>3, <2>1, Zenon DEF ThreadStep, SkipSuspected, TryReplica, SendOnCached, Connect,
       ConnectFails, ReceiveRead, ReceiveAck, RequestFails, CatchFailure, EndOfList,
       Reply, ClientStep, Accept, Disconnect, AnswerLocally, histVars
  <2>2. ASSUME NEW n \in Nodes, Environment(n) PROVE erased' = erased
    BY <2>2, Zenon DEF Environment, Crash, Restart, Hang, Cut, Resume, histVars
  <2>3. ASSUME NEW n \in Nodes, NEW c \in Clients,
               HandleRequest(n, c) \/ \E w \in Write : HandleLate(n, c, w)
        PROVE  erased' = erased
    BY <2>3, Zenon DEF HandleRequest, HandleLate, histVars
  <2>4. ASSUME Heartbeat \/ UNCHANGED vars PROVE erased' = erased
    BY <2>4, Zenon DEF Heartbeat, PingOnce, MarkPinged, vars, histVars
  <2>5. erased' = erased
    BY <1>3, <2>1, <2>2, <2>3, <2>4 DEF Next
  <2>. QED
    BY <1>3, <2>5, LateShrinks, SMTT(20) DEF IInv, LateInv
<1>. QED
  BY <1>1, <1>2, <1>3

\* Every step keeps the values that acknowledged SETs left behind.
LEMMA StoreInvStep ==
  ASSUME IInv, [Next]_vars
  PROVE  StoreInv'
<1>. USE DEF threadVars, hbVars, nodeVars, histVars
<1>1. ASSUME NEW c \in Clients, Accept(c) PROVE StoreInv'
  BY <1>1, Zenon DEF Accept, IInv, TypeOK, ThreadInv, StoreInv, AckedSurvives
<1>2. ASSUME NEW c \in Clients, Disconnect(c) PROVE StoreInv'
  BY <1>2, Zenon DEF Disconnect, IInv, TypeOK, ThreadInv, StoreInv, AckedSurvives
<1>3. ASSUME NEW c \in Clients, AnswerLocally(c) PROVE StoreInv'
  BY <1>3, ZenonT(40) DEF AnswerLocally, IInv, TypeOK, ThreadInv, StoreInv, AckedSurvives
<1>4. ASSUME NEW c \in Clients, ReadRequest(c) PROVE StoreInv'
  <2>1. PICK r \in Offered[c] :
          /\ req' = [req EXCEPT ![c] = r]
          /\ erased' = IF r.command = "Delete" THEN erased \cup {r.key} ELSE erased
    BY <1>4, Zenon DEF ReadRequest
  <2>2. erased \subseteq erased' /\ (r.command = "Delete" => r.key \in erased')
    BY <2>1, Zenon
  <2>3. done[c] = {} /\ resp[c] = None /\ result[c] = None
    BY <1>4, Zenon DEF ReadRequest, IInv, ThreadInv
  <2>4. AckedSurvives'
    BY <1>4, <2>2, Zenon DEF ReadRequest, IInv, StoreInv, AckedSurvives
  <2>. QED
    BY <1>4, <2>1, <2>2, <2>3, <2>4, PlainFacts, ZenonT(40) DEF ReadRequest, IInv, TypeOK, StoreInv
<1>5. ASSUME NEW c \in Clients, SkipSuspected(c) PROVE StoreInv'
  BY <1>5, ZenonT(40) DEF SkipSuspected, IInv, TypeOK, ThreadInv, StoreInv, AckedSurvives
<1>6. ASSUME NEW c \in Clients, TryReplica(c) PROVE StoreInv'
  BY <1>6, ZenonT(30) DEF TryReplica, IInv, TypeOK, ThreadInv, StoreInv, AckedSurvives
<1>7. ASSUME NEW c \in Clients, SendOnCached(c) PROVE StoreInv'
  BY <1>7, ZenonT(40) DEF SendOnCached, IInv, TypeOK, ThreadInv, StoreInv, AckedSurvives
<1>8. ASSUME NEW c \in Clients, Connect(c) PROVE StoreInv'
  BY <1>8, ZenonT(40) DEF Connect, IInv, TypeOK, ThreadInv, StoreInv, AckedSurvives
<1>9. ASSUME NEW c \in Clients, ConnectFails(c) PROVE StoreInv'
  BY <1>9, ZenonT(40) DEF ConnectFails, IInv, TypeOK, ThreadInv, StoreInv, AckedSurvives
<1>10. ASSUME NEW c \in Clients, ReceiveRead(c) PROVE StoreInv'
  BY <1>10, PlainFacts, ZenonT(40) DEF ReceiveRead, IInv, TypeOK, ThreadInv, StoreInv, AckedSurvives
<1>11. ASSUME NEW c \in Clients, ReceiveAck(c) PROVE StoreInv'
  BY <1>11, PlainFacts, ZenonT(30) DEF ReceiveAck, IInv, TypeOK, ThreadInv, StoreInv, AckedSurvives
<1>12. ASSUME NEW c \in Clients, RequestFails(c) PROVE StoreInv'
  BY <1>12, ZenonT(40) DEF RequestFails, IInv, TypeOK, ThreadInv, StoreInv, AckedSurvives
<1>13. ASSUME NEW c \in Clients, CatchFailure(c) PROVE StoreInv'
  BY <1>13, Zenon DEF CatchFailure, IInv, TypeOK, ThreadInv, StoreInv, AckedSurvives
<1>14. ASSUME NEW c \in Clients, EndOfList(c) PROVE StoreInv'
  BY <1>14, PlainFacts, ZenonT(40) DEF EndOfList, IInv, TypeOK, ThreadInv, StoreInv, AckedSurvives
<1>15. ASSUME NEW c \in Clients, Reply(c) PROVE StoreInv'
  <2>1. ASSUME result[c] = Plain("Ok"), req[c].key \notin erased,
               NEW i \in DOMAIN Pref[req[c].key], Pref[req[c].key][i] \notin faulty
        PROVE  store[Pref[req[c].key][i]][req[c].key] # None
    <3>1. req[c] \in Request /\ req[c].key \in Keys /\ req[c].command = "Set"
      <4>1. req[c] # None
        BY <2>1, Zenon DEF IInv, ThreadInv
      <4>2. req[c] \in Request
        BY <4>1, Zenon DEF IInv, TypeOK
      <4>. QED
        BY <2>1, <4>1, <4>2, RequestFacts, Zenon DEF IInv, StoreInv
    <3>2. pos[c] > Len(Pref[req[c].key]) /\ pos[c] \in Nat
      BY <1>15, <3>1, RequestFacts, Zenon DEF Reply, IInv, ProgressInv, Progress, TypeOK
    <3>3. Pref[req[c].key][i] \in done[c]
      <4>1. Progress(c)
        BY <3>1, RequestFacts, Zenon DEF IInv, ProgressInv
      <4>. QED
        BY <2>1, <3>1, <3>2, <4>1, PastAll, Zenon
    <3>. QED
      BY <2>1, <3>1, <3>3, RequestFacts, ZenonT(30) DEF IInv, StoreInv
  <2>2. AckedSurvives'
    BY <1>15, <2>1, Zenon DEF Reply, IInv, StoreInv, AckedSurvives
  <2>. QED
    BY <1>15, <2>2, PlainFacts, Zenon DEF Reply, IInv, TypeOK, StoreInv
<1>16. ASSUME NEW n \in Nodes, NEW c \in Clients, HandleRequest(n, c) PROVE StoreInv'
  <2>1. req[c] \in Request /\ req[c].key \in Keys
    BY <1>16, TargetIsNode, RequestFacts, Zenon DEF HandleRequest, IInv
  <2>2. store[n][req[c].key] \in Values \cup {None}
    <3>1. store \in [Nodes -> [Keys -> Values \cup {None}]]
      BY Zenon DEF IInv, TypeOK
    <3>. QED
      BY <2>1, <3>1, Zenon
  <2>3. req[c].command = "Delete" => req[c].key \in erased
    BY <2>1, RequestFacts, Zenon DEF IInv, StoreInv
  <2>4. ASSUME NEW m \in Nodes, NEW k \in Keys, k \notin erased, store[m][k] # None
        PROVE  store'[m][k] # None
    BY <1>16, <2>1, <2>2, <2>3, <2>4, StoreEffectFacts, ZenonT(30) DEF HandleRequest, IInv, TypeOK
  <2>5. req[c].command = "Set" => store'[n][req[c].key] # None
    BY <1>16, <2>1, <2>2, StoreEffectFacts, Zenon DEF HandleRequest, IInv, TypeOK
  <2>6. resp'[c] = Plain("Ok") => req[c].command = "Set"
    BY <1>16, <2>1, <2>2, StoreResponseFacts, Zenon DEF HandleRequest, IInv, TypeOK
  <2>7. AckedSurvives'
    <3>. SUFFICES ASSUME NEW k \in acked \ erased, NEW i \in DOMAIN Pref[k],
                         Pref[k][i] \notin faulty
                  PROVE  store'[Pref[k][i]][k] # None
      BY <1>16, Zenon DEF HandleRequest, AckedSurvives
    <3>1. k \in Keys /\ Pref[k][i] \in Nodes
      BY PrefFacts, Zenon DEF IInv, TypeOK
    <3>2. store[Pref[k][i]][k] # None
      BY Zenon DEF IInv, StoreInv, AckedSurvives
    <3>. QED
      BY <2>4, <3>1, <3>2, Zenon
  <2>8. ASSUME NEW d \in Clients, req[d] # None, req[d].command = "Set", req[d].key \notin erased,
               NEW m \in done'[d] \ faulty
        PROVE  store'[m][req[d].key] # None
    <3>1. req[d].key \in Keys
      BY <2>8, RequestFacts, Zenon DEF IInv, TypeOK
    <3>2. CASE d = c /\ m = n
      BY <2>5, <2>8, <3>2, Zenon
    <3>3. CASE ~(d = c /\ m = n)
      <4>1. m \in done[d] /\ m \in Nodes
        BY <1>16, <2>8, <3>3, Zenon DEF HandleRequest, IInv, TypeOK
      <4>. QED
        BY <2>4, <2>8, <3>1, <4>1, Zenon DEF IInv, StoreInv
    <3>. QED
      BY <3>2, <3>3, Zenon
  <2>. QED
    <3>1. \A d \in Clients : d # c => resp'[d] = resp[d]
      BY <1>16, Zenon DEF HandleRequest, IInv, TypeOK
    <3>2. /\ req' = req /\ result' = result /\ erased' = erased /\ faulty' = faulty
      BY <1>16, Zenon DEF HandleRequest
    <3>3. \A d \in Clients : req[d] # None =>
            /\ req[d].command = "Delete" => req[d].key \in erased
            /\ resp[d] = Plain("Ok") \/ result[d] = Plain("Ok") => req[d].command = "Set"
      BY Zenon DEF IInv, StoreInv
    <3>. QED
      BY <2>6, <2>7, <2>8, <3>1, <3>2, <3>3, Zenon DEF StoreInv
<1>17. ASSUME PingOnce PROVE StoreInv'
  BY <1>17, Zenon DEF PingOnce, IInv, TypeOK, ThreadInv, StoreInv, AckedSurvives
<1>18. ASSUME MarkPinged PROVE StoreInv'
  BY <1>18, Zenon DEF MarkPinged, IInv, TypeOK, ThreadInv, StoreInv, AckedSurvives
<1>19. ASSUME NEW n \in Nodes, Crash(n) PROVE StoreInv'
  <2>1. \A m \in Nodes : m # n => store'[m] = store[m]
    BY <1>19, Zenon DEF Crash, IInv, TypeOK
  <2>2. \A d \in Clients : done'[d] = done[d] \ {n} /\ done[d] \subseteq Nodes
    BY <1>19, Zenon DEF Crash, IInv, TypeOK
  <2>3. ASSUME NEW k \in acked \ erased, NEW i \in DOMAIN Pref[k],
               Pref[k][i] \notin faulty \cup {n}
        PROVE  store'[Pref[k][i]][k] # None
    <3>1. Pref[k][i] \in Nodes
      BY PrefFacts, Zenon DEF IInv, TypeOK
    <3>. QED
      BY <2>1, <2>3, <3>1, Zenon DEF IInv, StoreInv, AckedSurvives
  <2>4. AckedSurvives'
    BY <1>19, <2>3, Zenon DEF Crash, AckedSurvives
  <2>. QED
    BY <1>19, <2>1, <2>2, <2>4, ZenonT(30) DEF Crash, IInv, StoreInv
<1>20. ASSUME NEW n \in Nodes, Restart(n) PROVE StoreInv'
  BY <1>20, ZenonT(40) DEF Restart, IInv, TypeOK, ThreadInv, StoreInv, AckedSurvives
<1>21. ASSUME NEW n \in Nodes, Hang(n) PROVE StoreInv'
  BY <1>21, Zenon DEF Hang, IInv, TypeOK, ThreadInv, StoreInv, AckedSurvives
<1>22. ASSUME NEW n \in Nodes, Resume(n) PROVE StoreInv'
  BY <1>22, ZenonT(40) DEF Resume, IInv, TypeOK, ThreadInv, StoreInv, AckedSurvives
<1>23. ASSUME UNCHANGED vars PROVE StoreInv'
  BY <1>23, ZenonT(30) DEF vars, IInv, TypeOK, ThreadInv, StoreInv, AckedSurvives
<1>24. ASSUME NEW n \in Nodes, NEW c \in Clients, NEW w \in Write, HandleLate(n, c, w)
      PROVE  StoreInv'
  <2>1. w \in Request /\ w.key \in Keys
    BY RequestFacts DEF Write
  <2>2. store[n][w.key] \in Values \cup {None}
    BY <2>1 DEF IInv, TypeOK
  <2>3. w.command = "Delete" => w.key \in erased
    BY <1>24, SMTT(20) DEF HandleLate, IInv, LateInv
  <2>4. ASSUME NEW m \in Nodes, NEW k \in Keys, k \notin erased, store[m][k] # None
        PROVE  store'[m][k] # None
    BY <1>24, <2>1, <2>2, <2>3, <2>4, StoreEffectFacts, ZenonT(30) DEF HandleLate, IInv, TypeOK
  <2>5. AckedSurvives'
    <3>. SUFFICES ASSUME NEW k \in acked \ erased, NEW i \in DOMAIN Pref[k],
                         Pref[k][i] \notin faulty
                  PROVE  store'[Pref[k][i]][k] # None
      BY <1>24, Zenon DEF HandleLate, AckedSurvives
    <3>1. k \in Keys /\ Pref[k][i] \in Nodes
      BY PrefFacts, Zenon DEF IInv, TypeOK
    <3>2. store[Pref[k][i]][k] # None
      BY Zenon DEF IInv, StoreInv, AckedSurvives
    <3>. QED
      BY <2>4, <3>1, <3>2, Zenon
  <2>6. ASSUME NEW d \in Clients, req[d] # None, req[d].command = "Set", req[d].key \notin erased,
               NEW m \in done[d] \ faulty
        PROVE  store'[m][req[d].key] # None
    <3>1. req[d].key \in Keys /\ m \in Nodes
      BY <2>6, RequestFacts, Zenon DEF IInv, TypeOK
    <3>. QED
      BY <2>4, <2>6, <3>1, Zenon DEF IInv, StoreInv
  <2>. QED
    BY <1>24, <2>5, <2>6, Zenon DEF HandleLate, IInv, StoreInv
<1>25. ASSUME RouterEnds PROVE StoreInv'
  <2>1. AckedSurvives'
    BY <1>25, Zenon DEF RouterEnds, IInv, StoreInv, AckedSurvives
  <2>2. \A c \in Clients : req'[c] = None
    BY <1>25, Zenon DEF RouterEnds
  <2>. QED
    BY <2>1, <2>2, Zenon DEF StoreInv
<1>26. ASSUME NEW n \in Nodes, Cut(n) PROVE StoreInv'
  BY <1>26, Zenon DEF Cut, IInv, TypeOK, ThreadInv, StoreInv, AckedSurvives
<1>27. ASSUME NEW c \in Clients, GiveUp(c) PROVE StoreInv'
  <2>1. /\ req' = req /\ result' = result /\ store' = store /\ faulty' = faulty
        /\ acked' = acked /\ erased' = erased
    BY <1>27, Zenon DEF GiveUp
  <2>2. \A d \in Clients : resp'[d] = resp[d] \/ resp'[d] = None
    BY <1>27, Zenon DEF GiveUp, IInv, TypeOK
  <2>3. Target(c) \in faulty
    BY <1>27, TargetIsNode, Zenon DEF GiveUp, IInv, FaultInv
  <2>4. \A d \in Clients : done'[d] \ faulty = done[d] \ faulty
    BY <1>27, <2>3, GivenUp, Zenon DEF IInv
  <2>. QED
    BY <2>1, <2>2, <2>4, PlainFacts, Zenon DEF IInv, StoreInv, AckedSurvives
<1>. QED
  BY Zenon, <1>1, <1>2, <1>3, <1>4, <1>5, <1>6, <1>7, <1>8, <1>9, <1>10, <1>11, <1>12,
     <1>13, <1>14, <1>15, <1>16, <1>17, <1>18, <1>19, <1>20, <1>21, <1>22, <1>23,
     <1>24, <1>25, <1>26, <1>27
  DEF Next, ClientStep, ThreadStep, Heartbeat, Environment

-----------------------------------------------------------------------------
(* The theorems.                                                           *)

\* The initial state satisfies all the layers.
LEMMA InitIInv == Init => IInv
<1>. SUFFICES ASSUME Init PROVE IInv
  OBVIOUS
<1>1. TypeOK
  BY RouterAssumption DEF Init, TypeOK, LateTypes, PCs, NoConns
<1>2. ThreadInv
  BY PlainFacts, Zenon DEF Init, ThreadInv
<1>3. FaultInv
  BY SMTT(20) DEF Init, FaultInv, NoFalseSuspicion, NoConns
<1>4. ProgressInv /\ StoreInv
  BY PlainFacts, Zenon DEF Init, ProgressInv, StoreInv, AckedSurvives
<1>5. LateInv
  BY Zenon DEF Init, LateInv
<1>. QED
  BY <1>1, <1>2, <1>3, <1>4, <1>5 DEF IInv

\* The layers hold in every reachable state.
THEOREM Invariance == Spec => []IInv
<1>1. IInv /\ [Next]_vars => IInv'
  BY TypeStep, ThreadInvStep, FaultInvStep, ProgressInvStep, LateInvStep, StoreInvStep DEF IInv
<1>. QED
  BY InitIInv, <1>1, PTL DEF Spec

\* Handler threads, heartbeat thread and nodes only ever reach typed states.
THEOREM TypeCorrect == Spec => []TypeOK
<1>1. IInv => TypeOK
  BY DEF IInv
<1>. QED
  BY <1>1, Invariance, PTL

\* FailureDetector never suspects a node that never failed.
THEOREM DetectorAccuracy == Spec => []NoFalseSuspicion
<1>1. IInv => NoFalseSuspicion
  BY Zenon DEF IInv, FaultInv
<1>. QED
  BY <1>1, Invariance, PTL

\* A request that ends with an error went past all its replicas, and only nodes
\* that were cut off executed it and live.
LEMMA ErrorFacts ==
  ASSUME IInv, NEW c \in Clients, pc[c] = "reply", req[c] # None, result[c] = ErrorResponse
  PROVE  Replicas(c) \subseteq faulty /\ done[c] \subseteq Cuttable \cap faulty
<1>1. req[c].key \in Keys
  BY RequestFacts, Zenon DEF IInv, TypeOK
<1>2. Progress(c) /\ pos[c] \in Nat
  BY Zenon DEF IInv, ProgressInv, TypeOK
<1>3. pos[c] > Len(Pref[req[c].key])
  BY <1>2, Zenon DEF Progress
<1>4. resp[c] = None
  BY Zenon DEF IInv, ThreadInv
<1>5. done[c] \subseteq Cuttable \cap faulty
  BY <1>2, <1>4, Zenon DEF Progress
<1>. QED
  BY <1>1, <1>2, <1>3, <1>5, PastAll, Zenon

\* One replica that never fails is enough for route_read and route_write
\* never to answer "no live replica".
THEOREM ErrorsAreHonest == Spec => []ErrorOnlyIfAllReplicasFailed
<1>1. IInv => ErrorOnlyIfAllReplicasFailed
  BY ErrorFacts, Zenon DEF ErrorOnlyIfAllReplicasFailed
<1>. QED
  BY <1>1, Invariance, PTL

\* When route_read or route_write answers "no live replica", no live store has
\* executed the request or has it still to execute, but for those of nodes whose
\* connections broke while they lived.
THEOREM ErrorTracesConfined == Spec => []ErrorTraceOnlyIfCut
<1>1. IInv => ErrorTraceOnlyIfCut
  BY ErrorFacts, Zenon DEF ErrorTraceOnlyIfCut
<1>. QED
  BY <1>1, Invariance, PTL

\* route_write acknowledges a write only after every replica that never
\* failed executed it.
THEOREM AcksAreComplete == Spec => []AckAfterFanOut
<1>1. IInv => AckAfterFanOut
  <2>. SUFFICES ASSUME IInv, NEW c \in Clients, pc[c] = "reply", req[c] # None,
                       req[c].command # "Get"
                PROVE  Replicas(c) \subseteq done[c] \cup faulty
    BY Zenon DEF AckAfterFanOut
  <2>1. req[c].key \in Keys
    BY RequestFacts, Zenon DEF IInv, TypeOK
  <2>2. Progress(c) /\ pos[c] \in Nat
    BY Zenon DEF IInv, ProgressInv, TypeOK
  <2>3. pos[c] > Len(Pref[req[c].key])
    BY <2>2, Zenon DEF Progress
  <2>. QED
    BY <2>1, <2>2, <2>3, PastAll, Zenon
<1>. QED
  BY <1>1, Invariance, PTL

\* A key that was SET with OK and never deleted is present on each of its
\* replicas that never failed.
THEOREM AcknowledgedKeysSurvive == Spec => []AckedSurvives
<1>1. IInv => AckedSurvives
  BY Zenon DEF IInv, StoreInv
<1>. QED
  BY <1>1, Invariance, PTL

-----------------------------------------------------------------------------
(* Router.tla implements RestartableKV.tla until a primary fails.          *)

\* While the primaries are sound, a request is past its primary exactly when
\* it has its response, and a read never gets further.
Settled ==
  \A c \in Clients : req[c] # None =>
    /\ pos[c] > 1 => result[c] # None
    /\ pc[c] # "reply" /\ pos[c] = 1 => result[c] = None
    /\ pc[c] # "reply" /\ req[c].command = "Get" => result[c] = None

PrimaryInv == PrimariesSound => Settled

-----------------------------------------------------------------------------
\* A failure is never forgotten: faulty is a history variable.
LEMMA FaultyGrows == [Next]_vars => faulty \subseteq faulty'
  BY ZenonT(30) DEF Next, ClientStep, ThreadStep, Heartbeat, Environment, Accept, Disconnect,
     AnswerLocally, ReadRequest, SkipSuspected, TryReplica, SendOnCached, Connect,
     ConnectFails, ReceiveRead, ReceiveAck, RequestFails, CatchFailure, EndOfList,
     Reply, HandleRequest, HandleLate, GiveUp, RouterEnds, PingOnce, MarkPinged, Crash, Restart,
     Hang, Cut, Resume, vars, histVars

\* A thread at the first position of the list is at the key's primary, which
\* never failed.
LEMMA PrimaryIsTrusted ==
  ASSUME IInv, PrimariesSound,
         NEW c \in Clients, req[c] # None, pos[c] = 1
  PROVE  Target(c) \in Nodes /\ Target(c) \notin faulty /\ alive[Target(c)]
<1>1. req[c].key \in Keys
  BY RequestFacts, Zenon DEF IInv, TypeOK
<1>2. Target(c) = Pref[req[c].key][1] /\ Target(c) \in Nodes
  BY <1>1, PrimaryIsNode, Zenon DEF Target
<1>. QED
  BY <1>1, <1>2, Zenon DEF PrimariesSound, IInv, FaultInv, NoFalseSuspicion

\* What one thread does leaves the other threads' requests as they were.
LEMMA SettledFrame ==
  ASSUME Settled, NEW c \in Clients,
         \A d \in Clients : d # c => /\ pc'[d] = pc[d] /\ req'[d] = req[d]
                                     /\ pos'[d] = pos[d] /\ result'[d] = result[d],
         req'[c] # None =>
           /\ pos'[c] > 1 => result'[c] # None
           /\ pc'[c] # "reply" /\ pos'[c] = 1 => result'[c] = None
           /\ pc'[c] # "reply" /\ req'[c].command = "Get" => result'[c] = None
  PROVE  Settled'
  BY ZenonT(40) DEF Settled

\* Every step keeps requests at their primary until it answered them.
LEMMA SettledStep ==
  ASSUME IInv, Settled, PrimariesSound, [Next]_vars
  PROVE  Settled'
<1>. USE DEF threadVars, hbVars, nodeVars, histVars
<1>1. ASSUME NEW c \in Clients, Accept(c) PROVE Settled'
  BY <1>1, Zenon DEF Accept, IInv, TypeOK, ThreadInv, Settled
<1>2. ASSUME NEW c \in Clients, Disconnect(c) PROVE Settled'
  BY <1>2, Zenon DEF Disconnect, IInv, TypeOK, ThreadInv, Settled
<1>3. ASSUME NEW c \in Clients, AnswerLocally(c) PROVE Settled'
  BY <1>3, ZenonT(40) DEF AnswerLocally, IInv, TypeOK, ThreadInv, Settled
<1>4. ASSUME NEW c \in Clients, ReadRequest(c) PROVE Settled'
  <2>1. PICK r \in Offered[c] : req' = [req EXCEPT ![c] = r]
    BY <1>4, Zenon DEF ReadRequest
  <2>2. ~(pos'[c] > 1) /\ result'[c] = None
    <3>1. pos'[c] = 1 /\ result'[c] = None
      BY <1>4, Zenon DEF ReadRequest, IInv, ThreadInv
    <3>. QED
      BY <3>1
  <2>. QED
    BY <1>4, <2>1, <2>2, SettledFrame, Zenon DEF ReadRequest, IInv, TypeOK
<1>5. ASSUME NEW c \in Clients, SkipSuspected(c) PROVE Settled'
  <2>1. req[c] # None /\ pos[c] \in Nat \ {0} /\ pos'[c] = pos[c] + 1
    BY <1>5, Zenon DEF SkipSuspected, IInv, TypeOK, ThreadInv
  <2>2. pos[c] # 1
    BY <1>5, <2>1, PrimaryIsTrusted, Zenon DEF SkipSuspected
  <2>3. result[c] # None
    BY <2>1, <2>2, Positions, Zenon DEF Settled
  <2>4. \A d \in Clients : d # c => pos'[d] = pos[d]
    BY <1>5, Zenon DEF SkipSuspected, IInv, TypeOK
  <2>5. pc' = pc /\ req' = req /\ result' = result /\ pc[c] # "reply"
    BY <1>5, Zenon DEF SkipSuspected
  <2>. QED
    BY <2>1, <2>3, <2>4, <2>5, Positions, SettledFrame, ZenonT(40) DEF Settled
<1>6. ASSUME NEW c \in Clients, TryReplica(c) PROVE Settled'
  BY <1>6, ZenonT(40) DEF TryReplica, IInv, TypeOK, ThreadInv, Settled
<1>7. ASSUME NEW c \in Clients, SendOnCached(c) PROVE Settled'
  BY <1>7, Zenon DEF SendOnCached, IInv, TypeOK, ThreadInv, Settled
<1>8. ASSUME NEW c \in Clients, Connect(c) PROVE Settled'
  BY <1>8, Zenon DEF Connect, IInv, TypeOK, ThreadInv, Settled
<1>9. ASSUME NEW c \in Clients, ConnectFails(c) PROVE Settled'
  BY <1>9, Zenon DEF ConnectFails, IInv, TypeOK, ThreadInv, Settled
<1>10. ASSUME NEW c \in Clients, ReceiveRead(c) PROVE Settled'
  BY <1>10, Zenon DEF ReceiveRead, IInv, TypeOK, ThreadInv, Settled
<1>11. ASSUME NEW c \in Clients, ReceiveAck(c) PROVE Settled'
  <2>1. /\ pos[c] \in Nat \ {0} /\ pos'[c] = pos[c] + 1
        /\ result'[c] # None /\ req'[c].command # "Get"
    BY <1>11, Zenon DEF ReceiveAck, IInv, TypeOK
  <2>2. \A d \in Clients : d # c => /\ pc'[d] = pc[d] /\ req'[d] = req[d]
                                    /\ pos'[d] = pos[d] /\ result'[d] = result[d]
    BY <1>11, Zenon DEF ReceiveAck, IInv, TypeOK
  <2>. QED
    BY <2>1, <2>2, Positions, SettledFrame, Zenon
<1>12. ASSUME NEW c \in Clients, RequestFails(c) PROVE Settled'
  BY <1>12, Zenon DEF RequestFails, IInv, TypeOK, ThreadInv, Settled
<1>13. ASSUME NEW c \in Clients, CatchFailure(c) PROVE Settled'
  <2>1. req[c] # None /\ Target(c) \in faulty
    BY <1>13, Zenon DEF CatchFailure, IInv, ThreadInv, FaultInv
  <2>2. pos[c] # 1
    BY <2>1, PrimaryIsTrusted, Zenon
  <2>. QED
    <3>1. pos[c] \in Nat \ {0} /\ pos'[c] = pos[c] + 1
      BY <1>13, Zenon DEF CatchFailure, IInv, TypeOK
    <3>2. result[c] # None
      BY <2>1, <2>2, <3>1, Positions, Zenon DEF Settled
    <3>3. req' = req /\ result' = result /\ pc[c] # "reply"
      BY <1>13, Zenon DEF CatchFailure
    <3>4. \A d \in Clients : d # c => pos'[d] = pos[d] /\ pc'[d] = pc[d]
      BY <1>13, Zenon DEF CatchFailure, IInv, TypeOK
    <3>5. req[c].command # "Get"
      BY <2>1, <3>2, <3>3, Zenon DEF Settled
    <3>6. pos'[c] # 1
      BY <3>1, Positions, Zenon
    <3>. QED
      BY <3>2, <3>3, <3>4, <3>5, <3>6, SettledFrame, Zenon
<1>14. ASSUME NEW c \in Clients, EndOfList(c) PROVE Settled'
  BY <1>14, PrefFacts, RequestFacts, PlainFacts, ZenonT(30) DEF EndOfList, IInv, TypeOK, ThreadInv, Settled, Exhausted
<1>15. ASSUME NEW c \in Clients, Reply(c) PROVE Settled'
  BY <1>15, ZenonT(40) DEF Reply, IInv, TypeOK, ThreadInv, Settled
<1>16. ASSUME NEW n \in Nodes, NEW c \in Clients, HandleRequest(n, c) PROVE Settled'
  BY <1>16, Zenon DEF HandleRequest, IInv, TypeOK, ThreadInv, Settled
<1>17. ASSUME PingOnce PROVE Settled'
  BY <1>17, Zenon DEF PingOnce, IInv, TypeOK, ThreadInv, Settled
<1>18. ASSUME MarkPinged PROVE Settled'
  BY <1>18, Zenon DEF MarkPinged, IInv, TypeOK, ThreadInv, Settled
<1>19. ASSUME NEW n \in Nodes, Crash(n) PROVE Settled'
  BY <1>19, Zenon DEF Crash, IInv, TypeOK, ThreadInv, Settled
<1>20. ASSUME NEW n \in Nodes, Restart(n) PROVE Settled'
  BY <1>20, Zenon DEF Restart, IInv, TypeOK, ThreadInv, Settled
<1>21. ASSUME NEW n \in Nodes, Hang(n) PROVE Settled'
  BY <1>21, Zenon DEF Hang, IInv, TypeOK, ThreadInv, Settled
<1>22. ASSUME NEW n \in Nodes, Resume(n) PROVE Settled'
  BY <1>22, Zenon DEF Resume, IInv, TypeOK, ThreadInv, Settled
<1>23. ASSUME UNCHANGED vars PROVE Settled'
  BY <1>23, Zenon DEF vars, IInv, TypeOK, ThreadInv, Settled
<1>24. ASSUME NEW n \in Nodes, NEW c \in Clients, NEW w \in Write, HandleLate(n, c, w)
       PROVE  Settled'
  BY <1>24, Zenon DEF HandleLate, Settled
<1>25. ASSUME RouterEnds PROVE Settled'
  BY <1>25, Zenon DEF RouterEnds, Settled
<1>26. ASSUME NEW n \in Nodes, Cut(n) PROVE Settled'
  BY <1>26, Zenon DEF Cut, Settled
<1>27. ASSUME NEW c \in Clients, GiveUp(c) PROVE Settled'
  BY <1>27, Zenon DEF GiveUp, Settled
<1>. QED
  BY SMTT(20), <1>1, <1>2, <1>3, <1>4, <1>5, <1>6, <1>7, <1>8, <1>9, <1>10, <1>11, <1>12,
     <1>13, <1>14, <1>15, <1>16, <1>17, <1>18, <1>19, <1>20, <1>21, <1>22, <1>23,
     <1>24, <1>25, <1>26, <1>27
  DEF Next, ClientStep, ThreadStep, Heartbeat, Environment

\* Every step of the router is a step of the atomic map, or none.
LEMMA AtomicStep ==
  ASSUME IInv, Settled, PrimariesSound, PrimariesSound', [Next]_vars
  PROVE  Atomic!NextAll \/ UNCHANGED Atomic!allVars
<1>. USE DEF threadVars, hbVars, nodeVars, histVars
<1>a. ASSUME UNCHANGED <<req, result, resp, store, late>> PROVE UNCHANGED Atomic!allVars
  BY <1>a, Zenon DEF Atomic!allVars, PrimaryMap, PrimaryResponse, PrimaryLate
<1>b. ASSUME late' = late PROVE PrimaryLate' = PrimaryLate
  BY <1>b, Zenon DEF PrimaryLate
<1>c. ASSUME late' = late, \E c \in Clients : Atomic!Invoke(c) \/ Atomic!TakeEffect(c) \/ Atomic!Return(c)
      PROVE  Atomic!NextAll
  BY <1>b, <1>c DEF Atomic!NextAll, Atomic!Next
<1>1. ASSUME NEW c \in Clients, Accept(c) PROVE Atomic!NextAll \/ UNCHANGED Atomic!allVars
  BY <1>a, <1>1, Zenon DEF Accept
<1>2. ASSUME NEW c \in Clients, Disconnect(c) PROVE Atomic!NextAll \/ UNCHANGED Atomic!allVars
  BY <1>a, <1>2, Zenon DEF Disconnect
<1>3. ASSUME NEW c \in Clients, AnswerLocally(c) PROVE Atomic!NextAll \/ UNCHANGED Atomic!allVars
  <2>1. req[c] = None /\ req' = req /\ resp' = resp /\ store' = store /\ late' = late
    BY <1>3, Zenon DEF AnswerLocally, IInv, ThreadInv
  <2>2. \A d \in Clients : d # c => result'[d] = result[d]
    BY <1>3, Zenon DEF AnswerLocally, IInv, TypeOK
  <2>3. PrimaryResponse' = PrimaryResponse
    BY <2>1, <2>2, Zenon DEF PrimaryResponse
  <2>4. PrimaryMap' = PrimaryMap
    BY <2>1, Zenon DEF PrimaryMap
  <2>. QED
    BY <1>b, <2>1, <2>3, <2>4, Zenon DEF Atomic!allVars
<1>4. ASSUME NEW c \in Clients, ReadRequest(c) PROVE Atomic!NextAll \/ UNCHANGED Atomic!allVars
  <2>1. PICK r \in Offered[c] : req' = [req EXCEPT ![c] = r]
    BY <1>4, Zenon DEF ReadRequest
  <2>2. r \in Request /\ r # None
    BY RequestFacts, RouterAssumption
  <2>3. PrimaryMap' = PrimaryMap /\ PrimaryResponse' = PrimaryResponse /\ req[c] = None
    <3>1. req[c] = None /\ result[c] = None /\ resp[c] = None
      BY <1>4, Zenon DEF ReadRequest, IInv, ThreadInv
    <3>2. PrimaryMap' = PrimaryMap
      BY <1>4, Zenon DEF ReadRequest, PrimaryMap
    <3>3. \A d \in Clients : d # c => req'[d] = req[d]
      BY <2>1, Zenon DEF IInv, TypeOK
    <3>. QED
      BY <1>4, <3>1, <3>2, <3>3, Zenon DEF ReadRequest, PrimaryResponse
  <2>4. Atomic!Invoke(c)
    BY <2>1, <2>2, <2>3, Zenon DEF Atomic!Invoke, Atomic!Request, Request
  <2>. QED
    BY <1>c, <1>4, <2>4, Zenon DEF ReadRequest
<1>5. ASSUME NEW c \in Clients, SkipSuspected(c) PROVE Atomic!NextAll \/ UNCHANGED Atomic!allVars
  BY <1>a, <1>5, Zenon DEF SkipSuspected
<1>6. ASSUME NEW c \in Clients, TryReplica(c) PROVE Atomic!NextAll \/ UNCHANGED Atomic!allVars
  BY <1>a, <1>6, Zenon DEF TryReplica
<1>7. ASSUME NEW c \in Clients, SendOnCached(c) PROVE Atomic!NextAll \/ UNCHANGED Atomic!allVars
  BY <1>a, <1>7, Zenon DEF SendOnCached
<1>8. ASSUME NEW c \in Clients, Connect(c) PROVE Atomic!NextAll \/ UNCHANGED Atomic!allVars
  BY <1>a, <1>8, Zenon DEF Connect
<1>9. ASSUME NEW c \in Clients, ConnectFails(c) PROVE Atomic!NextAll \/ UNCHANGED Atomic!allVars
  BY <1>a, <1>9, Zenon DEF ConnectFails
<1>10. ASSUME NEW c \in Clients, ReceiveRead(c) PROVE Atomic!NextAll \/ UNCHANGED Atomic!allVars
  BY <1>b, <1>10, ZenonT(30) DEF ReceiveRead, IInv, TypeOK, ThreadInv, Settled, Atomic!allVars, PrimaryMap, PrimaryResponse
<1>11. ASSUME NEW c \in Clients, ReceiveAck(c) PROVE Atomic!NextAll \/ UNCHANGED Atomic!allVars
  BY <1>b, <1>11, ZenonT(30) DEF ReceiveAck, IInv, TypeOK, ThreadInv, Settled, Atomic!allVars, PrimaryMap, PrimaryResponse
<1>12. ASSUME NEW c \in Clients, RequestFails(c) PROVE Atomic!NextAll \/ UNCHANGED Atomic!allVars
  BY <1>a, <1>12, Zenon DEF RequestFails
<1>13. ASSUME NEW c \in Clients, CatchFailure(c) PROVE Atomic!NextAll \/ UNCHANGED Atomic!allVars
  BY <1>a, <1>13, Zenon DEF CatchFailure
<1>14. ASSUME NEW c \in Clients, EndOfList(c) PROVE Atomic!NextAll \/ UNCHANGED Atomic!allVars
  <2>1. req[c] # None /\ req[c].key \in Keys
    BY <1>14, RequestFacts, ZenonT(30) DEF EndOfList, IInv, TypeOK, ThreadInv
  <2>2. result[c] # None
    <3>1. pos[c] \in Nat \ {0}
      BY Zenon DEF IInv, TypeOK
    <3>2. pos[c] > 1
      BY <1>14, <2>1, <3>1, PrefFacts, Positions, Zenon DEF EndOfList, Exhausted
    <3>. QED
      BY <2>1, <3>2, Zenon DEF Settled
  <2>. QED
    BY <1>b, <1>14, <2>2, Zenon DEF EndOfList, IInv, TypeOK, Atomic!allVars, PrimaryMap, PrimaryResponse
<1>15. ASSUME NEW c \in Clients, Reply(c) PROVE Atomic!NextAll \/ UNCHANGED Atomic!allVars
  <2>1. PrimaryMap' = PrimaryMap
    BY <1>15, Zenon DEF Reply, PrimaryMap
  <2>2. PrimaryResponse' = [PrimaryResponse EXCEPT ![c] = None]
    BY <1>15, Zenon DEF Reply, PrimaryResponse, IInv, TypeOK
  <2>3. CASE req[c] = None
    BY <1>b, <1>15, <2>1, <2>2, <2>3, Zenon DEF Reply, Atomic!allVars, PrimaryResponse, IInv, TypeOK
  <2>4. CASE req[c] # None
    <3>1. PrimaryResponse[c] # None
      BY <1>15, <2>4, Zenon DEF Reply, PrimaryResponse, IInv, ThreadInv
    <3>2. Atomic!Return(c)
      BY <1>15, <2>1, <2>2, <3>1, Zenon DEF Reply, Atomic!Return
    <3>. QED
      BY <1>c, <1>15, <3>2, Zenon DEF Reply
  <2>. QED
    BY <2>3, <2>4, Zenon
<1>16. ASSUME NEW n \in Nodes, NEW c \in Clients, HandleRequest(n, c) PROVE Atomic!NextAll \/ UNCHANGED Atomic!allVars
  <2>. DEFINE r == req[c]
  <2>1. r \in Request /\ r # None /\ r.key \in Keys /\ pos[c] \in 1 .. Len(Pref[r.key])
    BY <1>16, TargetIsNode, RequestFacts, Zenon DEF HandleRequest, IInv
  <2>2. n = Pref[r.key][pos[c]]
    BY <1>16, Zenon DEF HandleRequest, Target
  <2>3. CASE pos[c] = 1
    <3>1. result[c] = None /\ PrimaryResponse[c] = None
      BY <1>16, <2>1, <2>3, Zenon DEF HandleRequest, Settled, PrimaryResponse
    <3>2. PrimaryMap[r.key] = store[n][r.key]
      BY <2>1, <2>2, <2>3, Zenon DEF PrimaryMap
    <3>3. PrimaryResponse'
            = [PrimaryResponse EXCEPT ![c] = StoreResponse(r, PrimaryMap[r.key])]
      BY <1>16, <2>1, <3>1, <3>2, Zenon DEF HandleRequest, PrimaryResponse, IInv, TypeOK
    <3>4. PrimaryMap'
            = [PrimaryMap EXCEPT ![r.key] = StoreEffect(r, PrimaryMap[r.key])]
      <4>1. store' = [store EXCEPT ![n][r.key] = StoreEffect(r, PrimaryMap[r.key])]
        BY <1>16, <3>2, Zenon DEF HandleRequest
      <4>2. ASSUME NEW k \in Keys
            PROVE  store'[Pref[k][1]][k] = IF k = r.key THEN StoreEffect(r, PrimaryMap[r.key])
                                           ELSE store[Pref[k][1]][k]
        <5>1. Pref[k][1] \in Nodes /\ store \in [Nodes -> [Keys -> Values \cup {None}]]
          BY PrimaryIsNode, Zenon DEF IInv, TypeOK
        <5>2. CASE k = r.key
          BY <2>1, <2>2, <2>3, <4>1, <5>1, <5>2, Zenon
        <5>3. CASE k # r.key
          BY <2>1, <4>1, <5>1, <5>3, Zenon
        <5>. QED
          BY <5>2, <5>3, Zenon
      <4>. QED
        BY <2>1, <4>2, Zenon DEF PrimaryMap
    <3>5. Atomic!TakeEffect(c)
      BY <1>16, <2>1, <3>1, <3>3, <3>4, Zenon
      DEF HandleRequest, Atomic!TakeEffect, Atomic!StoreResponse, Atomic!StoreEffect,
          StoreResponse, StoreEffect, Atomic!Plain, Plain
    <3>. QED
      BY <1>c, <1>16, <3>5, Zenon DEF HandleRequest
  <2>4. CASE pos[c] # 1
    <3>1. result[c] # None
      <4>1. pos[c] \in Nat \ {0}
        BY Zenon DEF IInv, TypeOK
      <4>. QED
        BY <2>1, <2>4, <4>1, Positions, Zenon DEF Settled
    <3>2. n # Pref[r.key][1]
      BY <2>1, <2>2, <2>4, ReplicaOnce, PrimaryIsNode, Zenon
    <3>3. PrimaryMap' = PrimaryMap
      <4>1. ASSUME NEW k \in Keys PROVE store'[Pref[k][1]][k] = store[Pref[k][1]][k]
        <5>1. Pref[k][1] \in Nodes /\ store \in [Nodes -> [Keys -> Values \cup {None}]]
          BY PrimaryIsNode, Zenon DEF IInv, TypeOK
        <5>2. store' = [store EXCEPT ![n][r.key] = StoreEffect(r, @)]
          BY <1>16, Zenon DEF HandleRequest
        <5>. QED
          BY <2>1, <3>2, <5>1, <5>2, Zenon
      <4>. QED
        BY <4>1, Zenon DEF PrimaryMap
    <3>4. PrimaryResponse' = PrimaryResponse
      BY <1>16, <3>1, Zenon DEF HandleRequest, PrimaryResponse, IInv, TypeOK
    <3>. QED
      BY <1>b, <1>16, <3>3, <3>4, Zenon DEF HandleRequest, Atomic!allVars
  <2>. QED
    BY <2>3, <2>4
<1>17. ASSUME PingOnce PROVE Atomic!NextAll \/ UNCHANGED Atomic!allVars
  BY <1>a, <1>17, Zenon DEF PingOnce
<1>18. ASSUME MarkPinged PROVE Atomic!NextAll \/ UNCHANGED Atomic!allVars
  BY <1>a, <1>18 DEF MarkPinged
<1>19. ASSUME NEW n \in Nodes, Crash(n) PROVE Atomic!NextAll \/ UNCHANGED Atomic!allVars
  <2>1. \A k \in Keys : Pref[k][1] # n /\ Pref[k][1] \in Nodes
    BY <1>19, PrimaryIsNode, Zenon DEF Crash, PrimariesSound
  <2>2. PrimaryMap' = PrimaryMap
    BY <1>19, <2>1, Zenon DEF Crash, PrimaryMap, IInv, TypeOK
  <2>3. PrimaryLate' = PrimaryLate
    <3>1. ASSUME NEW x \in Clients \X Write
          PROVE  <<Pref[x[2].key][1], x[1], x[2]>> \in late'
                   <=> <<Pref[x[2].key][1], x[1], x[2]>> \in late
      <4>1. x[2].key \in Keys
        BY RequestFacts, Zenon DEF Write
      <4>. QED
        BY <1>19, <2>1, <4>1, Zenon DEF Crash
    <3>. QED
      BY <3>1, Zenon DEF PrimaryLate
  <2>. QED
    BY <1>19, <2>2, <2>3, Zenon DEF Crash, Atomic!allVars, PrimaryResponse
<1>20. ASSUME NEW n \in Nodes, Restart(n) PROVE Atomic!NextAll \/ UNCHANGED Atomic!allVars
  BY <1>a, <1>20, Zenon DEF Restart
<1>21. ASSUME NEW n \in Nodes, Hang(n) PROVE Atomic!NextAll \/ UNCHANGED Atomic!allVars
  BY <1>a, <1>21, Zenon DEF Hang
<1>22. ASSUME NEW n \in Nodes, Resume(n) PROVE Atomic!NextAll \/ UNCHANGED Atomic!allVars
  BY <1>a, <1>22, Zenon DEF Resume
<1>23. ASSUME UNCHANGED vars PROVE Atomic!NextAll \/ UNCHANGED Atomic!allVars
  BY <1>a, <1>23, Zenon DEF vars
<1>24. ASSUME NEW n \in Nodes, NEW c \in Clients, NEW w \in Write, HandleLate(n, c, w)
       PROVE  Atomic!NextAll \/ UNCHANGED Atomic!allVars
  <2>1. w \in Request /\ w.key \in Keys
    BY RequestFacts, Zenon DEF Write
  <2>2. /\ store' = [store EXCEPT ![n][w.key] = StoreEffect(w, store[n][w.key])]
        /\ late' = late \ {<<n, c, w>>} /\ <<n, c, w>> \in late
        /\ req' = req /\ PrimaryResponse' = PrimaryResponse
    BY <1>24, Zenon DEF HandleLate, PrimaryResponse
  <2>3. ASSUME NEW k \in Keys
        PROVE  /\ Pref[k][1] \in Nodes
               /\ store'[Pref[k][1]][k] = IF Pref[k][1] = n /\ k = w.key
                                          THEN StoreEffect(w, store[n][k])
                                          ELSE store[Pref[k][1]][k]
    <3>1. Pref[k][1] \in Nodes /\ store \in [Nodes -> [Keys -> Values \cup {None}]]
      BY PrimaryIsNode, Zenon DEF IInv, TypeOK
    <3>. QED
      BY <2>1, <2>2, <3>1, Zenon
  <2>4. CASE n = Pref[w.key][1]
    <3>1. PrimaryMap'
            = [PrimaryMap EXCEPT ![w.key] = StoreEffect(w, PrimaryMap[w.key])]
      BY <2>1, <2>3, <2>4, ZenonT(30) DEF PrimaryMap
    <3>2. <<c, w>> \in PrimaryLate
      BY <2>2, <2>4, Zenon DEF PrimaryLate
    <3>3. PrimaryLate' = PrimaryLate \ {<<c, w>>}
      <4>1. ASSUME NEW x \in Clients \X Write
            PROVE  x \in PrimaryLate' <=> x \in PrimaryLate /\ x # <<c, w>>
        <5>1. x = <<c, w>> <=> x[1] = c /\ x[2] = w
          BY PairIs
        <5>2. <<Pref[x[2].key][1], x[1], x[2]>> = <<n, c, w>> <=> x[1] = c /\ x[2] = w
          BY <2>4, TripleIs, Zenon
        <5>. QED
          BY <2>2, <5>1, <5>2, Zenon DEF PrimaryLate
      <4>. QED
        BY <4>1, Zenon DEF PrimaryLate
    <3>4. Atomic!LateEffect(c, w)
      BY <2>2, <3>1, <3>2, <3>3, Zenon DEF Atomic!LateEffect, Atomic!StoreEffect, StoreEffect
    <3>. QED
      BY <3>4, Zenon DEF Atomic!NextAll, Atomic!Write, Atomic!Request, Write, Request
  <2>5. CASE n # Pref[w.key][1]
    <3>1. PrimaryMap' = PrimaryMap
      BY <2>3, <2>5, Zenon DEF PrimaryMap
    <3>2. PrimaryLate' = PrimaryLate
      BY <2>2, <2>5, Zenon DEF PrimaryLate
    <3>. QED
      BY <2>2, <3>1, <3>2, Zenon DEF Atomic!allVars
  <2>. QED
    BY <2>4, <2>5, Zenon
<1>25. ASSUME RouterEnds PROVE Atomic!NextAll \/ UNCHANGED Atomic!allVars
  <2>. DEFINE S == {c \in Clients : /\ req[c] \in Write
                                    /\ <<Pref[req[c].key][1], c, req[c]>> \in InFlight}
  <2>1. ASSUME NEW c \in S PROVE PrimaryResponse[c] = None /\ <<c, req[c]>> \notin PrimaryLate
    <3>1. /\ c \in Clients /\ req[c] \in Write /\ pc[c] = "wait" /\ resp[c] = None
          /\ Target(c) = Pref[req[c].key][1]
      BY <2>1, Zenon DEF InFlight
    <3>2. /\ req[c] # None /\ req[c].key \in Keys
          /\ pos[c] \in 1 .. Len(Pref[req[c].key])
      BY <3>1, TargetIsNode, RequestFacts, Zenon DEF IInv
    <3>3. pos[c] = 1
      BY <3>1, <3>2, ReplicaOnce, PrimaryIsNode, Zenon DEF Target
    <3>4. result[c] = None
      BY <3>1, <3>2, <3>3, Zenon DEF Settled
    <3>5. <<Pref[req[c].key][1], c, req[c]>> \notin late
      BY <1>25, <2>1, Zenon DEF RouterEnds
    <3>. QED
      BY <3>1, <3>4, <3>5, Zenon DEF PrimaryResponse, PrimaryLate
  <2>2. PrimaryLate' = PrimaryLate \cup {<<c, req[c]>> : c \in S}
    <3>1. ASSUME NEW x \in Clients \X Write
          PROVE  <<Pref[x[2].key][1], x[1], x[2]>> \in InFlight <=> x[1] \in S /\ x[2] = req[x[1]]
      BY Zenon DEF InFlight
    <3>2. late' = late \cup InFlight
      BY <1>25, Zenon DEF RouterEnds
    <3>3. \A c \in S : <<c, req[c]>> \in Clients \X Write
      BY Zenon
    <3>4. ASSUME NEW x \in PrimaryLate' PROVE x \in PrimaryLate \cup {<<c, req[c]>> : c \in S}
      <4>1. x \in Clients \X Write /\ x = <<x[1], x[2]>>
        <5>1. x \in Clients \X Write
          BY Zenon DEF PrimaryLate
        <5>. QED
          BY <5>1, PairIs, ZenonT(40)
      <4>2. CASE <<Pref[x[2].key][1], x[1], x[2]>> \in late
        BY <4>1, <4>2, Zenon DEF PrimaryLate
      <4>3. CASE <<Pref[x[2].key][1], x[1], x[2]>> \in InFlight
        <5>1. x[1] \in S /\ x = <<x[1], req[x[1]]>>
          BY <3>1, <4>1, <4>3, Zenon
        <5>. QED
          BY <5>1, Zenon
      <4>. QED
        BY <3>2, <4>2, <4>3, Zenon DEF PrimaryLate
    <3>5. ASSUME NEW x \in PrimaryLate PROVE x \in PrimaryLate'
      BY <3>2, Zenon DEF PrimaryLate
    <3>6. ASSUME NEW c \in S PROVE <<c, req[c]>> \in PrimaryLate'
      BY <3>1, <3>2, <3>3, Zenon DEF PrimaryLate
    <3>. QED
      BY <3>4, <3>5, <3>6, ZenonT(30)
  <2>3. /\ PrimaryMap' = PrimaryMap /\ PrimaryResponse' = [c \in Clients |-> None]
        /\ req' = [c \in Clients |-> None]
    BY <1>25, Zenon DEF RouterEnds, PrimaryMap, PrimaryResponse
  <2>4. S \in SUBSET {c \in Clients : req[c] \in Write /\ PrimaryResponse[c] = None}
    BY <2>1, Zenon
  <2>. HIDE DEF S
  <2>5. Atomic!Abandon
    BY <2>1, <2>2, <2>3, <2>4, Zenon DEF Atomic!Abandon, Atomic!Write, Atomic!Request, Write, Request
  <2>. QED
    BY <2>5, SMTT(20) DEF Atomic!NextAll
<1>26. ASSUME NEW n \in Nodes, Cut(n) PROVE Atomic!NextAll \/ UNCHANGED Atomic!allVars
  BY <1>a, <1>26, Zenon DEF Cut
<1>27. ASSUME NEW c \in Clients, GiveUp(c) PROVE Atomic!NextAll \/ UNCHANGED Atomic!allVars
  <2>1. /\ req[c] # None /\ req[c].key \in Keys /\ Target(c) \in faulty
        /\ pos[c] \in 1 .. Len(Pref[req[c].key])
    BY <1>27, TargetIsNode, RequestFacts, Zenon DEF GiveUp, IInv, ThreadInv, FaultInv
  <2>2. pos[c] # 1 /\ Target(c) # Pref[req[c].key][1]
    BY <2>1, PrimaryIsTrusted, Zenon DEF PrimariesSound
  <2>3. result[c] # None
    <3>1. pos[c] > 1
      BY <2>1, <2>2
    <3>. QED
      BY <2>1, <3>1, Zenon DEF Settled
  <2>4. PrimaryResponse' = PrimaryResponse
    BY <1>27, <2>3, Zenon DEF GiveUp, IInv, TypeOK, PrimaryResponse
  <2>5. ASSUME NEW x \in Clients \X Write
        PROVE  <<Pref[x[2].key][1], x[1], x[2]>> \in late' <=> <<Pref[x[2].key][1], x[1], x[2]>> \in late
    <3>1. <<Pref[x[2].key][1], x[1], x[2]>> # <<Target(c), c, req[c]>>
      BY <2>2, TripleIs, Zenon
    <3>. QED
      BY <1>27, <3>1, Zenon DEF GiveUp
  <2>6. PrimaryLate' = PrimaryLate
    BY <2>5, Zenon DEF PrimaryLate
  <2>7. PrimaryMap' = PrimaryMap /\ req' = req
    BY <1>27, Zenon DEF GiveUp, PrimaryMap
  <2>. QED
    BY <2>4, <2>6, <2>7, Zenon DEF Atomic!allVars
<1>. QED
  BY Zenon, <1>1, <1>2, <1>3, <1>4, <1>5, <1>6, <1>7, <1>8, <1>9, <1>10, <1>11, <1>12,
     <1>13, <1>14, <1>15, <1>16, <1>17, <1>18, <1>19, <1>20, <1>21, <1>22, <1>23,
     <1>24, <1>25, <1>26, <1>27
  DEF Next, ClientStep, ThreadStep, Heartbeat, Environment

\* The initial state of the router is one of the atomic map.
LEMMA AtomicInit == Init => Atomic!InitAll
<1>. SUFFICES ASSUME Init PROVE Atomic!InitAll
  OBVIOUS
<1>1. ASSUME NEW k \in Keys PROVE store[Pref[k][1]][k] = None
  <2>1. Pref[k][1] \in Nodes
    BY PrimaryIsNode, Zenon
  <2>. QED
    BY <2>1, Zenon DEF Init
<1>2. PrimaryMap = [k \in Keys |-> None]
  BY <1>1, Zenon DEF PrimaryMap
<1>3. PrimaryResponse = [c \in Clients |-> None]
  BY Zenon DEF Init, PrimaryResponse
<1>4. PrimaryLate = {}
  BY Zenon DEF Init, PrimaryLate
<1>. QED
  BY <1>2, <1>3, <1>4, Zenon DEF Init, Atomic!Init, Atomic!InitAll

\* Until a primary fails, route_read and route_write give clients one atomic
\* map, whatever happens to the other replicas and to the detector, and a write
\* of a router that ended takes effect at most once.
THEOREM RouterLinearizable == Spec => LinearizableAtPrimary
<1>1. Init => PrimaryInv
  BY ZenonT(40) DEF Init, PrimaryInv, Settled
<1>2. ASSUME [Next]_vars, PrimariesSound' PROVE PrimariesSound
  BY <1>2, FaultyGrows, Zenon DEF PrimariesSound
<1>3. IInv /\ PrimaryInv /\ [Next]_vars => PrimaryInv'
  BY <1>2, SettledStep DEF PrimaryInv
<1>4. IInv /\ PrimaryInv /\ [Next]_vars
        => [PrimariesSound' => Atomic!NextAll \/ UNCHANGED Atomic!allVars]_vars
  BY <1>2, AtomicStep DEF PrimaryInv
<1>. QED
  BY <1>1, <1>3, <1>4, AtomicInit, Invariance, PTL DEF Spec, LinearizableAtPrimary

-----------------------------------------------------------------------------
(* Who changes what.                                                       *)

\* A thread is moved by its own steps and by the end of the router only.
LEMMA WhoMoves ==
  ASSUME TypeOK, [Next]_vars, NEW c \in Clients
  PROVE  \/ pc'[c] = pc[c] /\ req'[c] = req[c] /\ pos'[c] = pos[c]
         \/ ClientStep(c) \/ ThreadStep(c) \/ RouterEnds
<1>. DEFINE Same == pc'[c] = pc[c] /\ req'[c] = req[c] /\ pos'[c] = pos[c]
<1>1. ASSUME NEW d \in Clients, d # c, ClientStep(d) PROVE Same
  BY <1>1, Zenon DEF TypeOK, ClientStep, Accept, Disconnect, AnswerLocally, ReadRequest
<1>2. ASSUME NEW d \in Clients, d # c,
             SkipSuspected(d) \/ TryReplica(d) \/ SendOnCached(d) \/ Connect(d) \/ ConnectFails(d)
      PROVE  Same
  BY <1>2, Zenon DEF TypeOK, SkipSuspected, TryReplica, SendOnCached, Connect, ConnectFails
<1>3. ASSUME NEW d \in Clients, d # c,
             \/ ReceiveRead(d) \/ ReceiveAck(d) \/ RequestFails(d) \/ CatchFailure(d)
             \/ EndOfList(d) \/ Reply(d)
      PROVE  Same
  BY <1>3, Zenon DEF TypeOK, ReceiveRead, ReceiveAck, RequestFails, CatchFailure, EndOfList, Reply
<1>4. ASSUME \/ \E n \in Nodes, d \in Clients : HandleRequest(n, d)
             \/ \E n \in Nodes, d \in Clients, w \in Write : HandleLate(n, d, w)
             \/ Heartbeat \/ (\E d \in Clients : GiveUp(d)) \/ \E n \in Nodes : Environment(n)
             \/ UNCHANGED vars
      PROVE  Same
  BY <1>4, Zenon DEF HandleRequest, HandleLate, GiveUp, Heartbeat, PingOnce, MarkPinged, Environment,
     Crash, Restart, Hang, Cut, Resume, vars, threadVars
<1>. QED
  BY <1>1, <1>2, <1>3, <1>4, Zenon DEF Next, ThreadStep

\* Where the detector's table is written: in catch blocks, by the heartbeat
\* thread and at the start of a router.
LEMMA WhoMarks ==
  ASSUME [Next]_vars
  PROVE  alive' = alive \/ (\E c \in Clients : CatchFailure(c)) \/ MarkPinged \/ RouterEnds
<1>. USE DEF threadVars, hbVars, nodeVars, histVars
<1>1. ASSUME NEW c \in Clients, ClientStep(c) PROVE alive' = alive
  BY <1>1, Zenon DEF ClientStep, Accept, Disconnect, AnswerLocally, ReadRequest
<1>2. ASSUME NEW c \in Clients, ThreadStep(c) PROVE alive' = alive \/ CatchFailure(c)
  BY <1>2, Zenon DEF ThreadStep, SkipSuspected, TryReplica, SendOnCached, Connect, ConnectFails,
     ReceiveRead, ReceiveAck, RequestFails, EndOfList, Reply
<1>3. ASSUME \/ \E n \in Nodes, c \in Clients : HandleRequest(n, c)
             \/ \E n \in Nodes, c \in Clients, w \in Write : HandleLate(n, c, w)
             \/ PingOnce \/ (\E c \in Clients : GiveUp(c)) \/ \E n \in Nodes : Environment(n)
             \/ UNCHANGED vars
      PROVE  alive' = alive
  BY <1>3, Zenon DEF HandleRequest, HandleLate, GiveUp, PingOnce, Environment,
     Crash, Restart, Hang, Cut, Resume, vars
<1>. QED
  BY <1>1, <1>2, <1>3, Zenon DEF Next, Heartbeat

\* The heartbeat thread's variables are its own.
LEMMA WhoBeats ==
  ASSUME [Next]_vars
  PROVE  UNCHANGED hbVars \/ Heartbeat \/ RouterEnds
<1>. USE DEF threadVars, nodeVars, histVars
<1>1. ASSUME NEW c \in Clients, ClientStep(c) \/ ThreadStep(c) PROVE UNCHANGED hbVars
  BY <1>1, Zenon DEF ClientStep, Accept, Disconnect, AnswerLocally, ReadRequest,
     ThreadStep, SkipSuspected, TryReplica, SendOnCached, Connect, ConnectFails,
     ReceiveRead, ReceiveAck, RequestFails, CatchFailure, EndOfList, Reply
<1>2. ASSUME \/ \E n \in Nodes, c \in Clients : HandleRequest(n, c)
             \/ \E n \in Nodes, c \in Clients, w \in Write : HandleLate(n, c, w)
             \/ (\E c \in Clients : GiveUp(c)) \/ \E n \in Nodes : Environment(n)
             \/ UNCHANGED vars
      PROVE  UNCHANGED hbVars
  BY <1>2, Zenon DEF HandleRequest, HandleLate, GiveUp, Environment, Crash, Restart, Hang, Cut, Resume, vars
<1>. QED
  BY <1>1, <1>2, Zenon DEF Next

\* A connection is opened by Connect alone, to a node that answers, and broken by
\* the crash of its node or when its node is cut off.
LEMMA WhoConnects ==
  ASSUME TypeOK, ThreadInv, [Next]_vars, NEW c \in Clients, NEW n \in Nodes
  PROVE  /\ conns'[c][n] = "open" =>
              /\ \/ conns[c][n] = "open"
                 \/ node[n] \in {"up", "hung"} /\ node' = node
              /\ ~Crash(n)
         /\ conns'[c][n] = "broken" =>
              conns[c][n] = "broken" \/ Crash(n) \/ (node[n] = "cut" /\ node' = node)
<1>. USE DEF threadVars, hbVars, nodeVars, histVars
<1>. DEFINE P == /\ conns'[c][n] = "open" =>
                      conns[c][n] = "open" \/ (node[n] \in {"up", "hung"} /\ node' = node)
                 /\ conns'[c][n] = "broken" =>
                      conns[c][n] = "broken" \/ Crash(n) \/ (node[n] = "cut" /\ node' = node)
<1>0. conns \in [Clients -> [Nodes -> {"none", "open", "broken"}]]
  BY Zenon DEF TypeOK
<1>1. ASSUME conns' = conns PROVE P
  BY <1>1, Zenon
<1>2. ASSUME NEW d \in Clients, Disconnect(d) PROVE P
  BY <1>0, <1>2, Zenon DEF Disconnect, NoConns
<1>3. ASSUME NEW d \in Clients, Connect(d) PROVE P
  <2>1. Target(d) \in Nodes
    BY <1>3, TargetIsNode, Zenon DEF Connect
  <2>2. /\ conns' = [conns EXCEPT ![d][Target(d)] = "open"]
        /\ node[Target(d)] \in {"up", "hung"} /\ node' = node
    BY <1>3, Zenon DEF Connect
  <2>. QED
    BY <1>0, <2>1, <2>2, Zenon
<1>4. ASSUME NEW d \in Clients, CatchFailure(d) PROVE P
  <2>1. Target(d) \in Nodes
    BY <1>4, TargetIsNode, Zenon DEF CatchFailure
  <2>2. conns' = [conns EXCEPT ![d][Target(d)] = "none"]
    BY <1>4, Zenon DEF CatchFailure
  <2>. QED
    BY <1>0, <2>1, <2>2, Zenon
<1>5. ASSUME RouterEnds PROVE P
  BY <1>5, Zenon DEF RouterEnds, NoConns
<1>6. ASSUME NEW m \in Nodes, Crash(m) PROVE P /\ (conns'[c][m] # "open")
  <2>1. conns'[c] = [conns[c] EXCEPT ![m] = IF @ = "open" THEN "broken" ELSE @]
    BY <1>6, Zenon DEF Crash
  <2>2. conns[c] \in [Nodes -> {"none", "open", "broken"}]
    BY <1>0, Zenon
  <2>3. conns'[c][m] # "open"
    BY <2>1, <2>2, Zenon
  <2>4. CASE n = m
    BY <1>6, <2>3, <2>4, Zenon
  <2>5. CASE n # m
    BY <2>1, <2>2, <2>5, Zenon
  <2>. QED
    BY <2>3, <2>4, <2>5, Zenon
<1>7. ASSUME NEW d \in Clients, ClientStep(d) \/ ThreadStep(d) PROVE P
  <2>1. conns' = conns \/ Disconnect(d) \/ Connect(d) \/ CatchFailure(d)
    BY <1>7, Zenon DEF ClientStep, Accept, AnswerLocally, ReadRequest,
       ThreadStep, SkipSuspected, TryReplica, SendOnCached, ConnectFails,
       ReceiveRead, ReceiveAck, RequestFails, EndOfList, Reply
  <2>. QED
    BY <1>1, <1>2, <1>3, <1>4, <2>1, Zenon
<1>8. ASSUME \/ \E m \in Nodes, d \in Clients : HandleRequest(m, d)
             \/ \E m \in Nodes, d \in Clients, w \in Write : HandleLate(m, d, w)
             \/ Heartbeat \/ UNCHANGED vars
             \/ \E m \in Nodes : Restart(m) \/ Hang(m) \/ Cut(m) \/ Resume(m)
      PROVE  conns' = conns
  BY <1>8, Zenon DEF HandleRequest, HandleLate, Heartbeat, PingOnce, MarkPinged,
     Restart, Hang, Cut, Resume, vars
<1>9. ASSUME NEW d \in Clients, GiveUp(d) PROVE P
  <2>1. Target(d) \in Nodes
    BY <1>9, TargetIsNode, Zenon DEF GiveUp
  <2>2. /\ conns' = [conns EXCEPT ![d][Target(d)] = "broken"]
        /\ node[Target(d)] = "cut" /\ node' = node
    BY <1>9, Zenon DEF GiveUp
  <2>. QED
    BY <1>0, <2>1, <2>2, Zenon
<1>10. P
  BY <1>1, <1>5, <1>6, <1>7, <1>8, <1>9, Zenon DEF Next, Environment
<1>. QED
  BY <1>6, <1>10, Zenon

-----------------------------------------------------------------------------
(* What the liveness properties rest on: EveryRequestAnswered on requests  *)
(* that advance along a bounded list and never wait for a dead peer,       *)
(* CrashedStaysSuspected and RecoveredStaysTrusted on states that only     *)
(* another failure or recovery ends.                                       *)

\* A connection that is open has a process at its other end.
OpenInv ==
  \A c \in Clients, n \in Nodes : conns[c][n] = "open" => node[n] # "down"

\* The loop over the preference list is at an entry of it or just behind it.
PosBound ==
  \A c \in Clients : req[c] # None => pos[c] <= Len(Pref[req[c].key]) + 1

\* A thread that waits in send_request() has a broken connection, on which the
\* read fails, or one to a process that is there and answers, at once or when
\* it resumes: no thread waits for a response that nobody can send.
NeverStranded ==
  \A c \in Clients : pc[c] = "wait" /\ resp[c] = None =>
    conns[c][Target(c)] = "broken" \/ (conns[c][Target(c)] = "open" /\ node[Target(c)] # "down")

\* The order in which a request passes the places of the loop's body.
Stage == [check |-> 0, forward |-> 1, wait |-> 2, failed |-> 3, reply |-> 4]

\* A request goes to a later place for the same replica, on to the next
\* replica, or is answered; nothing but the end of the router takes it back.
RequestAdvances ==
  \A c \in Clients : req[c] # None =>
    \/ RouterEnds
    \/ pc[c] = "reply" /\ pc'[c] = "read" /\ req'[c] = None
    \/ /\ req'[c] = req[c]
       /\ \/ pc'[c] = pc[c] /\ pos'[c] = pos[c]
          \/ pc'[c] = "check" /\ pos'[c] = pos[c] + 1
          \/ Stage[pc'[c]] > Stage[pc[c]] /\ pos'[c] = pos[c]

LEMMA OpenStep ==
  ASSUME IInv, OpenInv, [Next]_vars
  PROVE  OpenInv'
<1>. SUFFICES ASSUME NEW c \in Clients, NEW n \in Nodes, conns'[c][n] = "open"
              PROVE  node'[n] # "down"
  BY Zenon DEF OpenInv
<1>0. TypeOK /\ ThreadInv
  BY Zenon DEF IInv
<1>1. /\ conns[c][n] = "open" \/ (node[n] \in {"up", "hung"} /\ node' = node)
      /\ ~Crash(n)
  BY <1>0, WhoConnects, Zenon
<1>2. node[n] # "down"
  BY <1>1, Zenon DEF OpenInv
<1>3. node \in [Nodes -> {"up", "hung", "cut", "down"}]
  BY <1>0, Zenon DEF TypeOK
<1>4. ASSUME NEW m \in Nodes, Crash(m) PROVE node'[n] = node[n]
  BY <1>1, <1>3, <1>4, Zenon DEF Crash
<1>5. ASSUME NEW m \in Nodes, Restart(m) \/ Hang(m) \/ Cut(m) \/ Resume(m) PROVE node'[n] # "down"
  BY <1>2, <1>3, <1>5, Zenon DEF Restart, Hang, Cut, Resume
<1>6. ASSUME \/ \E d \in Clients : ClientStep(d) \/ ThreadStep(d)
             \/ (\E d \in Clients : GiveUp(d)) \/ RouterEnds \/ UNCHANGED vars
             \/ \E m \in Nodes, d \in Clients : HandleRequest(m, d)
             \/ \E m \in Nodes, d \in Clients, w \in Write : HandleLate(m, d, w)
             \/ Heartbeat
      PROVE  node' = node
  BY <1>6, ZenonT(40) DEF ClientStep, Accept, Disconnect, AnswerLocally, ReadRequest,
     ThreadStep, SkipSuspected, TryReplica, SendOnCached, Connect, ConnectFails,
     ReceiveRead, ReceiveAck, RequestFails, CatchFailure, EndOfList, Reply,
     HandleRequest, HandleLate, Heartbeat, PingOnce, MarkPinged, GiveUp, RouterEnds,
     vars, nodeVars
<1>. QED
  BY <1>2, <1>4, <1>5, <1>6, Zenon DEF Next, Environment

\* The step of the thread that has the request, one action at a time.
LEMMA ThreadAdvances ==
  ASSUME IInv, NEW c \in Clients, req[c] # None, ThreadStep(c)
  PROVE  \/ pc[c] = "reply" /\ pc'[c] = "read" /\ req'[c] = None
         \/ /\ req'[c] = req[c]
            /\ \/ /\ pc'[c] = "check" /\ pos'[c] = pos[c] + 1
                  /\ pos[c] <= Len(Pref[req[c].key])
               \/ Stage[pc'[c]] > Stage[pc[c]] /\ pos'[c] = pos[c]
<1>0. TypeOK /\ ThreadInv
  BY Zenon DEF IInv
<1>1. /\ Stage["forward"] > Stage["check"] /\ Stage["reply"] > Stage["check"]
      /\ Stage["wait"] > Stage["forward"] /\ Stage["failed"] > Stage["forward"]
      /\ Stage["reply"] > Stage["wait"] /\ Stage["failed"] > Stage["wait"]
  BY DEF Stage
<1>2. pc \in [Clients -> PCs] /\ pos \in [Clients -> Nat \ {0}] /\ req \in [Clients -> Request \cup {None}]
  BY <1>0, Zenon DEF TypeOK
<1>3. pc[c] \in {"wait", "failed"} => pos[c] <= Len(Pref[req[c].key])
  BY <1>0, Zenon DEF ThreadInv
<1>4. ~Exhausted(c) => pos[c] <= Len(Pref[req[c].key])
  <2>1. pos[c] \in Nat /\ Len(Pref[req[c].key]) \in Nat
    BY <1>0, <1>2, RequestFacts, PrefFacts, Zenon DEF TypeOK
  <2>. QED
    BY <2>1 DEF Exhausted
<1>5. CASE SkipSuspected(c) \/ ReceiveAck(c) \/ CatchFailure(c)
  BY <1>2, <1>3, <1>4, <1>5, Zenon DEF SkipSuspected, ReceiveAck, CatchFailure
<1>6. CASE TryReplica(c) \/ SendOnCached(c) \/ Connect(c) \/ ConnectFails(c)
  BY <1>1, <1>2, <1>6, Zenon DEF TryReplica, SendOnCached, Connect, ConnectFails
<1>7. CASE ReceiveRead(c) \/ RequestFails(c) \/ EndOfList(c)
  BY <1>1, <1>2, <1>7, Zenon DEF ReceiveRead, RequestFails, EndOfList
<1>8. CASE Reply(c)
  BY <1>2, <1>8, Zenon DEF Reply
<1>. QED
  BY <1>5, <1>6, <1>7, <1>8, Zenon DEF ThreadStep

LEMMA AdvanceStep ==
  ASSUME IInv, [Next]_vars
  PROVE  RequestAdvances /\ (PosBound => PosBound')
<1>0. TypeOK /\ ThreadInv
  BY Zenon DEF IInv
<1>1. ASSUME NEW c \in Clients, ClientStep(c) PROVE req[c] = None /\ pos'[c] = 1
  BY <1>0, <1>1, Zenon DEF ThreadInv, TypeOK, ClientStep, Accept, Disconnect, AnswerLocally,
     ReadRequest
<1>2. RequestAdvances
  BY <1>0, <1>1, WhoMoves, ThreadAdvances, Zenon DEF RequestAdvances
<1>3. ASSUME PosBound, NEW c \in Clients, req'[c] # None
      PROVE  pos'[c] <= Len(Pref[req'[c].key]) + 1
  <2>1. CASE pc'[c] = pc[c] /\ req'[c] = req[c] /\ pos'[c] = pos[c]
    BY <1>3, <2>1, Zenon DEF PosBound
  <2>2. CASE ClientStep(c)
    <3>1. req'[c] \in Request
      BY <1>0, <1>3, TypeStep, ZenonT(40) DEF TypeOK
    <3>2. Len(Pref[req'[c].key]) \in Nat
      BY <3>1, RequestFacts, PrefFacts, Zenon
    <3>. QED
      BY <1>1, <2>2, <3>2
  <2>3. CASE ThreadStep(c)
    <3>1. req[c] # None
      BY <1>0, <1>3, <2>3, Zenon DEF TypeOK, ThreadStep, SkipSuspected, TryReplica, SendOnCached,
         Connect, ConnectFails, ReceiveRead, ReceiveAck, RequestFails, CatchFailure, EndOfList,
         Reply
    <3>2. pos[c] \in Nat /\ Len(Pref[req[c].key]) \in Nat /\ pos[c] <= Len(Pref[req[c].key]) + 1
      BY <1>0, <1>3, <3>1, RequestFacts, PrefFacts, Zenon DEF TypeOK, PosBound
    <3>3. \/ req'[c] = req[c] /\ pos'[c] = pos[c] + 1 /\ pos[c] <= Len(Pref[req[c].key])
          \/ req'[c] = req[c] /\ pos'[c] = pos[c]
      BY <1>3, <2>3, <3>1, ThreadAdvances, Zenon
    <3>. QED
      BY <3>2, <3>3
  <2>4. CASE RouterEnds
    BY <1>3, <2>4, Zenon DEF RouterEnds
  <2>. QED
    BY <1>0, <2>1, <2>2, <2>3, <2>4, WhoMoves, Zenon
<1>. QED
  BY <1>2, <1>3, Zenon DEF PosBound

\* EveryRequestAnswered, but for fairness: every step of a request in the loop
\* of route_read() or route_write() makes a variant smaller (the replicas left,
\* then the places left for this one), the variant is bounded by the length of
\* the preference list, and the only place where the thread waits for others,
\* send_request(), is one where the read fails or a process is there to answer.
THEOREM RequestsAdvance ==
  Spec => [](PosBound /\ NeverStranded) /\ [][RequestAdvances]_vars
<1>1. Init => OpenInv /\ PosBound
  <2>1. ASSUME Init, NEW c \in Clients, NEW n \in Nodes PROVE conns[c][n] # "open"
    BY <2>1, Zenon DEF Init, NoConns
  <2>2. ASSUME Init, NEW c \in Clients PROVE req[c] = None
    BY <2>2 DEF Init
  <2>. QED
    BY <2>1, <2>2, Zenon DEF OpenInv, PosBound
<1>2. IInv /\ OpenInv /\ PosBound /\ [Next]_vars => OpenInv' /\ PosBound' /\ [RequestAdvances]_vars
  BY OpenStep, AdvanceStep, Zenon
<1>3. IInv /\ OpenInv => NeverStranded
  <2>. SUFFICES ASSUME IInv, OpenInv, NEW c \in Clients, pc[c] = "wait"
                PROVE  \/ conns[c][Target(c)] = "broken"
                       \/ conns[c][Target(c)] = "open" /\ node[Target(c)] # "down"
    BY Zenon DEF NeverStranded
  <2>1. Target(c) \in Nodes
    BY TargetIsNode, Zenon DEF IInv
  <2>2. conns[c][Target(c)] \in {"none", "open", "broken"}
    BY <2>1, ZenonT(40) DEF IInv, TypeOK
  <2>3. conns[c][Target(c)] # "none"
    BY Zenon DEF IInv, ThreadInv
  <2>. QED
    BY <2>1, <2>2, <2>3, Zenon DEF OpenInv
<1>. QED
  BY <1>1, <1>2, <1>3, Invariance, PTL DEF Spec

\* A dead node that is suspected, with no answered heartbeat still to be
\* recorded.
Condemned(n) ==
  /\ node[n] = "down" /\ ~alive[n]
  /\ ~(hbPc = "mark" /\ NodeList[hbPos] = n /\ hbUp)

\* A live node that is trusted, with no thread that still has to find out that
\* it was dead: no connection to a previous incarnation, no failure about to be
\* recorded by a catch block or by the heartbeat thread.
Cleared(n) ==
  /\ node[n] = "up" /\ alive[n]
  /\ \A c \in Clients : conns[c][n] # "broken" /\ ~(pc[c] = "failed" /\ Target(c) = n)
  /\ ~(hbPc = "mark" /\ NodeList[hbPos] = n /\ ~hbUp)

\* The two verdicts stand until the node restarts, or fails, or the router,
\* which starts out trusting every node, is started anew.
VerdictStands ==
  \A n \in Nodes :
    /\ Condemned(n) /\ node'[n] = "down" => Condemned(n)' \/ RouterEnds
    /\ Cleared(n) /\ node'[n] = "up" => Cleared(n)'

LEMMA CondemnedStays ==
  ASSUME IInv, [Next]_vars, NEW n \in Nodes, Condemned(n), node'[n] = "down", ~RouterEnds
  PROVE  Condemned(n)'
<1>0. TypeOK /\ ThreadInv
  BY Zenon DEF IInv
<1>1. alive \in [Nodes -> BOOLEAN]
  BY <1>0, Zenon DEF TypeOK
<1>2. ~alive'[n]
  <2>1. ASSUME NEW c \in Clients, CatchFailure(c) PROVE ~alive'[n]
    BY <1>1, <2>1, Zenon DEF CatchFailure, Condemned
  <2>2. ASSUME MarkPinged PROVE ~alive'[n]
    BY <1>1, <2>2, Zenon DEF MarkPinged, Condemned
  <2>. QED
    BY <2>1, <2>2, WhoMarks, Zenon DEF Condemned
<1>3. ~(hbPc = "mark" /\ NodeList[hbPos] = n /\ hbUp)'
  <2>1. ASSUME UNCHANGED hbVars PROVE ~(hbPc = "mark" /\ NodeList[hbPos] = n /\ hbUp)'
    BY <2>1, Zenon DEF Condemned, hbVars
  <2>2. ASSUME PingOnce PROVE ~(hbPc = "mark" /\ NodeList[hbPos] = n /\ hbUp)'
    BY <2>2, Zenon DEF PingOnce, Condemned
  <2>3. ASSUME MarkPinged PROVE ~(hbPc = "mark" /\ NodeList[hbPos] = n /\ hbUp)'
    BY <2>3, Zenon DEF MarkPinged
  <2>. QED
    BY <2>1, <2>2, <2>3, WhoBeats, Zenon DEF Heartbeat
<1>. QED
  BY <1>2, <1>3, Zenon DEF Condemned

LEMMA ClearedStays ==
  ASSUME IInv, [Next]_vars, NEW n \in Nodes, Cleared(n), node'[n] = "up"
  PROVE  Cleared(n)'
<1>0. TypeOK /\ ThreadInv
  BY Zenon DEF IInv
<1>1. alive \in [Nodes -> BOOLEAN] /\ node \in [Nodes -> {"up", "hung", "cut", "down"}]
  BY <1>0, Zenon DEF TypeOK
<1>2. alive'[n]
  <2>1. ASSUME NEW c \in Clients, CatchFailure(c) PROVE alive'[n]
    BY <1>1, <2>1, Zenon DEF CatchFailure, Cleared
  <2>2. ASSUME MarkPinged PROVE alive'[n]
    BY <1>1, <2>2, Zenon DEF MarkPinged, Cleared
  <2>3. ASSUME RouterEnds PROVE alive'[n]
    BY <2>3, Zenon DEF RouterEnds
  <2>. QED
    BY <2>1, <2>2, <2>3, WhoMarks, Zenon DEF Cleared
<1>3. ~(hbPc = "mark" /\ NodeList[hbPos] = n /\ ~hbUp)'
  <2>1. ASSUME UNCHANGED hbVars PROVE ~(hbPc = "mark" /\ NodeList[hbPos] = n /\ ~hbUp)'
    BY <2>1, Zenon DEF Cleared, hbVars
  <2>2. ASSUME PingOnce PROVE ~(hbPc = "mark" /\ NodeList[hbPos] = n /\ ~hbUp)'
    BY <2>2, Zenon DEF PingOnce, Cleared
  <2>3. ASSUME MarkPinged \/ RouterEnds PROVE ~(hbPc = "mark" /\ NodeList[hbPos] = n /\ ~hbUp)'
    BY <2>3, Zenon DEF MarkPinged, RouterEnds
  <2>. QED
    BY <2>1, <2>2, <2>3, WhoBeats, Zenon DEF Heartbeat
<1>4. ASSUME NEW c \in Clients PROVE conns'[c][n] # "broken"
  <2>1. ~Crash(n) /\ ~(node[n] = "cut" /\ node' = node)
    BY <1>1, Zenon DEF Crash
  <2>. QED
    BY <1>0, <2>1, WhoConnects, Zenon DEF Cleared
<1>5. ASSUME NEW c \in Clients, pc'[c] = "failed" PROVE Target(c)' # n
  <2>0. pc \in [Clients -> PCs]
    BY <1>0, Zenon DEF TypeOK
  <2>1. CASE pc'[c] = pc[c] /\ req'[c] = req[c] /\ pos'[c] = pos[c]
    BY <1>5, <2>1, Zenon DEF Cleared, Target
  <2>2. CASE ConnectFails(c)
    <3>1. Target(c) # n
      BY <2>2, Zenon DEF ConnectFails, Cleared
    <3>. QED
      BY <2>2, <3>1, Zenon DEF ConnectFails, Target
  <2>3. CASE RequestFails(c)
    <3>1. Target(c) # n
      BY <2>3, Zenon DEF RequestFails, Cleared
    <3>. QED
      BY <2>3, <3>1, Zenon DEF RequestFails, Target
  <2>4. ASSUME \/ ClientStep(c) \/ RouterEnds
               \/ TryReplica(c) \/ SendOnCached(c) \/ Connect(c) \/ ReceiveRead(c)
               \/ ReceiveAck(c) \/ CatchFailure(c) \/ EndOfList(c) \/ Reply(c)
        PROVE  FALSE
    BY <1>5, <2>0, <2>4, Zenon DEF ClientStep, Accept, Disconnect, AnswerLocally, ReadRequest,
       RouterEnds, TryReplica, SendOnCached, Connect, ReceiveRead, ReceiveAck,
       CatchFailure, EndOfList, Reply
  <2>5. ASSUME SkipSuspected(c) PROVE FALSE
    BY <1>5, <2>0, <2>5, Zenon DEF SkipSuspected
  <2>. QED
    BY <1>0, <2>1, <2>2, <2>3, <2>4, <2>5, WhoMoves, Zenon DEF ThreadStep
<1>. QED
  BY <1>2, <1>3, <1>4, <1>5, Zenon DEF Cleared

\* CrashedStaysSuspected and RecoveredStaysTrusted, but for fairness: once the
\* detector's verdict on a node is right and nothing stale is still on its way
\* to the table, no interleaving of handler threads and heartbeat thread makes
\* it wrong again before the node itself changes.
THEOREM VerdictsStand == Spec => [][VerdictStands]_vars
<1>1. IInv /\ [Next]_vars => [VerdictStands]_vars
  BY CondemnedStays, ClearedStays, Zenon DEF VerdictStands
<1>. QED
  BY <1>1, Invariance, PTL DEF Spec

\* Before the first failure no request that was routed is answered with an
\* error: every key has a replica, and none of them failed.
NoErrorBeforeFault ==
  faulty = {} =>
    \A c \in Clients : pc[c] = "reply" /\ req[c] # None => result[c] # ErrorResponse

\* What kvfailoverbench's baseline phase counts on: errors begin with a failure.
THEOREM ErrorsBeginWithFailures == Spec => []NoErrorBeforeFault
<1>1. IInv => NoErrorBeforeFault
  <2>. SUFFICES ASSUME IInv, faulty = {}, NEW c \in Clients, pc[c] = "reply", req[c] # None,
                       result[c] = ErrorResponse
                PROVE  FALSE
    BY Zenon DEF NoErrorBeforeFault
  <2>1. Replicas(c) \subseteq faulty
    BY ErrorFacts, Zenon
  <2>2. req[c] \in Request
    BY Zenon DEF IInv, TypeOK
  <2>3. 1 \in DOMAIN Pref[req[c].key]
    BY <2>2, RequestFacts, PrefFacts
  <2>. QED
    BY <2>1, <2>3, Zenon DEF Replicas
<1>. QED
  BY <1>1, Invariance, PTL
=============================================================================
