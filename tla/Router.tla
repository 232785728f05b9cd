------------------------------- MODULE Router -------------------------------
(***************************************************************************)
(* The replicating router (src/router/router.cpp), its failure detector    *)
(* (src/router/failure_detector.cpp) and the kvserver processes behind it. *)
(*                                                                         *)
(* Processes: one detached thread per client connection (handle_client),   *)
(* the heartbeat thread, and one process per node.  A node may crash       *)
(* (losing its memory and its connections), restart empty, stop responding *)
(* without crashing, become unreachable, for so long that TCP gives up a   *)
(* connection perhaps, and resume.  The router itself may end and be       *)
(* started again.  A request on a node's store is atomic here; KVStore.tla *)
(* shows that one server process provides that.                            *)
(***************************************************************************)
EXTENDS KVTypes, Naturals, Sequences, FiniteSets

CONSTANTS
  Clients,    \* client connection slots, one handler thread each
  Offered,    \* Offered[c]: the requests client c may send
  NodeList,   \* Router::nodes_ and FailureDetector::nodes_, in order
  Pref,       \* Pref[k]: ring_.get_nodes(k, replication_factor_)
  Crashable,  \* the nodes that may crash
  Hangable,   \* the nodes that may stop responding without crashing
  Cuttable,   \* the nodes that may become unreachable
  MayEnd,     \* whether the router process may end
  MaxLate     \* a bound: writes that the nodes have in late at a time

Nodes == {NodeList[i] : i \in DOMAIN NodeList}

\* HashRing.tla: a preference list is a nonempty list of distinct nodes.
ASSUME RouterAssumption ==
  /\ NodeList \in Seq(Nodes) /\ Len(NodeList) > 0
  /\ Pref \in [Keys -> Seq(Nodes)]
  /\ \A k \in Keys :
       /\ Len(Pref[k]) > 0
       /\ \A i, j \in DOMAIN Pref[k] : Pref[k][i] = Pref[k][j] => i = j
  /\ Crashable \subseteq Nodes /\ Hangable \subseteq Nodes /\ Cuttable \subseteq Nodes
  /\ MayEnd \in BOOLEAN /\ MaxLate \in Nat
  /\ Offered \in [Clients -> SUBSET Request]

VARIABLES
  pc,       \* where each handler thread is
  req,      \* the request it routes; None when it answers by itself
  pos,      \* its position in the preference list
  result,   \* route_read's return value, route_write's first_success
  conns,    \* its cached backend connections (BackendConns)
  resp,     \* the bytes a backend sent it and it has not read yet
  alive,    \* FailureDetector::alive_
  hbPos,    \* the heartbeat thread: its position in nodes_,
  hbPc,     \*   whether it is about to ping or to mark that node,
  hbUp,     \*   and what ping_once returned
  node,     \* each kvserver process: "up", "hung", "cut" (unreachable) or "down",
  store,    \* the content of its KVStore (None: absent),
  late,     \* and <<n, c, w>>: the write w of a thread c that it has not run yet,
            \*   the router's end of the connection being gone
  \* History variables: read by the properties only.
  faulty,   \* the nodes that crashed, hung or were cut off so far
  done,     \* done[c]: nodes that executed req[c], or were left with it when
            \*   the connection was lost, and did not crash since
  acked,    \* keys some SET of which was answered with OK
  erased    \* keys some DELETE of which was read by the router

threadVars == <<pc, req, pos, result, resp>>
hbVars == <<hbPos, hbPc, hbUp>>
nodeVars == <<node, store, late>>
histVars == <<faulty, done, acked, erased>>
vars == <<threadVars, conns, alive, hbVars, nodeVars, histVars>>

\* "closed": no such connection; "read": in read() on the client socket;
\* "check": at the head of the loop over the preference list; "forward":
\* is_alive() was true; "wait": in send_request(); "failed": in the catch
\* block; "reply": about to write the response to the client.
PCs == {"closed", "read", "check", "forward", "wait", "failed", "reply"}

\* No connection to any backend.
NoConns == [n \in Nodes |-> "none"]

Target(c) == Pref[req[c].key][pos[c]]
Exhausted(c) == pos[c] > Len(Pref[req[c].key])

Init ==
  /\ pc = [c \in Clients |-> "closed"]
  /\ req = [c \in Clients |-> None]
  /\ pos = [c \in Clients |-> 1]
  /\ result = [c \in Clients |-> None]
  /\ resp = [c \in Clients |-> None]
  /\ conns = [c \in Clients |-> NoConns]
  /\ alive = [n \in Nodes |-> TRUE]
  /\ hbPos = 1 /\ hbPc = "ping" /\ hbUp = TRUE
  /\ node = [n \in Nodes |-> "up"]
  /\ store = [n \in Nodes |-> [k \in Keys |-> None]]
  /\ late = {} /\ faulty = {} /\ acked = {} /\ erased = {}
  /\ done = [c \in Clients |-> {}]

-----------------------------------------------------------------------------
(* The handler thread of one client connection.                            *)

\* Router::run accepts a connection; its thread starts with no backend
\* connections.
Accept(c) ==
  /\ pc[c] = "closed"
  /\ pc' = [pc EXCEPT ![c] = "read"]
  /\ UNCHANGED <<req, pos, result, resp, conns, alive, hbVars, nodeVars, histVars>>

\* read() returns 0: the thread ends and closes its cached connections.
Disconnect(c) ==
  /\ pc[c] = "read"
  /\ pc' = [pc EXCEPT ![c] = "closed"]
  /\ conns' = [conns EXCEPT ![c] = NoConns]
  /\ UNCHANGED <<req, pos, result, resp, alive, hbVars, nodeVars, histVars>>

\* PING, and a request that does not parse, are answered by the router.
AnswerLocally(c) ==
  /\ pc[c] = "read"
  /\ \E r \in {Plain("Pong"), ErrorResponse} : result' = [result EXCEPT ![c] = r]
  /\ pc' = [pc EXCEPT ![c] = "reply"]
  /\ UNCHANGED <<req, pos, resp, conns, alive, hbVars, nodeVars, histVars>>

\* Mutant: reads are spread to the second replica.
ReadRequestFromBackup(c) ==
  /\ pc[c] = "read"
  /\ \E r \in Offered[c] :
       /\ req' = [req EXCEPT ![c] = r]
       /\ erased' = IF r.command = "Delete" THEN erased \cup {r.key} ELSE erased
       /\ pos' = [pos EXCEPT ![c] = IF r.command = "Get" THEN 2 ELSE 1]
  /\ pc' = [pc EXCEPT ![c] = "check"]
  /\ UNCHANGED <<result, resp, conns, alive, hbVars, nodeVars, faulty, done, acked>>

ReadRequest(c) ==
  /\ pc[c] = "read"
  /\ \E r \in Offered[c] :
       /\ req' = [req EXCEPT ![c] = r]
       /\ erased' = IF r.command = "Delete" THEN erased \cup {r.key} ELSE erased
  /\ pc' = [pc EXCEPT ![c] = "check"]
  /\ UNCHANGED <<pos, result, resp, conns, alive, hbVars, nodeVars, faulty, done, acked>>

\* if (!failure_detector_.is_alive(node_id)) continue;
SkipSuspected(c) ==
  /\ pc[c] = "check"
  /\ ~Exhausted(c)
  /\ ~alive[Target(c)]
  /\ pos' = [pos EXCEPT ![c] = @ + 1]
  /\ UNCHANGED <<pc, req, result, resp, conns, alive, hbVars, nodeVars, histVars>>

TryReplica(c) ==
  /\ pc[c] = "check"
  /\ ~Exhausted(c)
  /\ alive[Target(c)]
  /\ pc' = [pc EXCEPT ![c] = "forward"]
  /\ UNCHANGED <<req, pos, result, resp, conns, alive, hbVars, nodeVars, histVars>>

\* backend_connection() returns the cached connection, whatever happened to
\* the other end since; the request is written to it.
SendOnCached(c) ==
  /\ pc[c] = "forward"
  /\ conns[c][Target(c)] # "none"
  /\ pc' = [pc EXCEPT ![c] = "wait"]
  /\ UNCHANGED <<req, pos, result, resp, conns, alive, hbVars, nodeVars, histVars>>

\* backend_connection() connects.  The kernel of a process that hangs still
\* completes the handshake.
Connect(c) ==
  /\ pc[c] = "forward"
  /\ conns[c][Target(c)] = "none"
  /\ node[Target(c)] \in {"up", "hung"}
  /\ conns' = [conns EXCEPT ![c][Target(c)] = "open"]
  /\ pc' = [pc EXCEPT ![c] = "wait"]
  /\ UNCHANGED <<req, pos, result, resp, alive, hbVars, nodeVars, histVars>>

\* connect() is refused, or times out in the kernel.  (Where connect_to() fails on
\* the router's own side, in getaddrinfo() or socket(), the node counts as cut off.)
ConnectFails(c) ==
  /\ pc[c] = "forward"
  /\ conns[c][Target(c)] = "none"
  /\ node[Target(c)] \in {"down", "cut"}
  /\ pc' = [pc EXCEPT ![c] = "failed"]
  /\ UNCHANGED <<req, pos, result, resp, conns, alive, hbVars, nodeVars, histVars>>

\* send_request() returns the response: the result of a read.
ReceiveRead(c) ==
  /\ pc[c] = "wait"
  /\ resp[c] # None
  /\ req[c].command = "Get"
  /\ resp' = [resp EXCEPT ![c] = None]
  /\ result' = [result EXCEPT ![c] = resp[c]]
  /\ pc' = [pc EXCEPT ![c] = "reply"]
  /\ UNCHANGED <<req, pos, conns, alive, hbVars, nodeVars, histVars>>

\* Mutant: the first acknowledgement ends the write.
ReceiveFirstAck(c) ==
  /\ pc[c] = "wait"
  /\ resp[c] # None
  /\ req[c].command # "Get"
  /\ resp' = [resp EXCEPT ![c] = None]
  /\ result' = [result EXCEPT ![c] = resp[c]]
  /\ pc' = [pc EXCEPT ![c] = "reply"]
  /\ UNCHANGED <<req, pos, conns, alive, hbVars, nodeVars, histVars>>

\* Mutant: any_success is not set.
ReceiveUnnoticedAck(c) ==
  /\ pc[c] = "wait"
  /\ resp[c] # None
  /\ req[c].command # "Get"
  /\ resp' = [resp EXCEPT ![c] = None]
  /\ pc' = [pc EXCEPT ![c] = "check"]
  /\ pos' = [pos EXCEPT ![c] = @ + 1]
  /\ UNCHANGED <<req, result, conns, alive, hbVars, nodeVars, histVars>>

\* A write keeps the first response and goes on to the next replica.
ReceiveAck(c) ==
  /\ pc[c] = "wait"
  /\ resp[c] # None
  /\ req[c].command # "Get"
  /\ resp' = [resp EXCEPT ![c] = None]
  /\ result' = [result EXCEPT ![c] = IF @ = None THEN resp[c] ELSE @]
  /\ pc' = [pc EXCEPT ![c] = "check"]
  /\ pos' = [pos EXCEPT ![c] = @ + 1]
  /\ UNCHANGED <<req, conns, alive, hbVars, nodeVars, histVars>>

\* send_request() throws: the write fails or the read ends without a
\* response.  There is no timeout on these connections, so this takes one whose
\* other end is gone (Crash) or that TCP has given up (GiveUp).
RequestFails(c) ==
  /\ pc[c] = "wait"
  /\ resp[c] = None
  /\ conns[c][Target(c)] = "broken"
  /\ pc' = [pc EXCEPT ![c] = "failed"]
  /\ UNCHANGED <<req, pos, result, resp, conns, alive, hbVars, nodeVars, histVars>>

\* Mutant: the first failure ends the request.
CatchWithoutRetry(c) ==
  /\ pc[c] = "failed"
  /\ alive' = [alive EXCEPT ![Target(c)] = FALSE]
  /\ conns' = [conns EXCEPT ![c][Target(c)] = "none"]
  /\ pos' = [pos EXCEPT ![c] = Len(Pref[req[c].key]) + 1]
  /\ pc' = [pc EXCEPT ![c] = "check"]
  /\ UNCHANGED <<req, result, resp, hbVars, nodeVars, histVars>>

\* Mutant: the same replica is tried again, and not marked down.
CatchAndRepeat(c) ==
  /\ pc[c] = "failed"
  /\ conns' = [conns EXCEPT ![c][Target(c)] = "none"]
  /\ pc' = [pc EXCEPT ![c] = "check"]
  /\ UNCHANGED <<req, pos, result, resp, alive, hbVars, nodeVars, histVars>>

\* Mutant: the failed connection stays in the cache.
CatchKeepingConnection(c) ==
  /\ pc[c] = "failed"
  /\ alive' = [alive EXCEPT ![Target(c)] = FALSE]
  /\ pos' = [pos EXCEPT ![c] = @ + 1]
  /\ pc' = [pc EXCEPT ![c] = "check"]
  /\ UNCHANGED <<req, result, resp, conns, hbVars, nodeVars, histVars>>

\* The catch block of route_read and route_write.
CatchFailure(c) ==
  /\ pc[c] = "failed"
  /\ alive' = [alive EXCEPT ![Target(c)] = FALSE]
  /\ conns' = [conns EXCEPT ![c][Target(c)] = "none"]
  /\ pos' = [pos EXCEPT ![c] = @ + 1]
  /\ pc' = [pc EXCEPT ![c] = "check"]
  /\ UNCHANGED <<req, result, resp, hbVars, nodeVars, histVars>>

\* The loop over the preference list is over.
EndOfList(c) ==
  /\ pc[c] = "check"
  /\ Exhausted(c)
  /\ result' = [result EXCEPT ![c] = IF @ = None THEN ErrorResponse ELSE @]
  /\ pc' = [pc EXCEPT ![c] = "reply"]
  /\ UNCHANGED <<req, pos, resp, conns, alive, hbVars, nodeVars, histVars>>

\* write_all(client_fd, ...), then the next request.
Reply(c) ==
  /\ pc[c] = "reply"
  /\ pc' = [pc EXCEPT ![c] = "read"]
  /\ req' = [req EXCEPT ![c] = None]
  /\ pos' = [pos EXCEPT ![c] = 1]
  /\ result' = [result EXCEPT ![c] = None]
  /\ done' = [done EXCEPT ![c] = {}]
  /\ acked' = IF result[c] = Plain("Ok") THEN acked \cup {req[c].key} ELSE acked
  /\ UNCHANGED <<resp, conns, alive, hbVars, nodeVars, faulty, erased>>

-----------------------------------------------------------------------------
(* The heartbeat thread.                                                   *)

\* ping_once: a fresh connection, a PING, a bounded wait for the PONG.  Only
\* the kernel bounds how long connect() takes when the node is unreachable.
PingOnce ==
  /\ hbPc = "ping"
  /\ hbUp' = (node[NodeList[hbPos]] = "up")
  /\ hbPc' = "mark"
  /\ UNCHANGED <<threadVars, conns, alive, hbPos, nodeVars, histVars>>

\* Mutant: the cycle does not start over.
MarkPingedWithoutWrap ==
  /\ hbPc = "mark"
  /\ alive' = [alive EXCEPT ![NodeList[hbPos]] = hbUp]
  /\ hbPos' = hbPos + 1
  /\ hbPc' = "ping"
  /\ hbUp' = TRUE
  /\ UNCHANGED <<threadVars, conns, nodeVars, histVars>>

\* Mutant: the result is recorded for the next node of the list.
MarkNextNode ==
  /\ hbPc = "mark"
  /\ alive' = [alive EXCEPT ![NodeList[(hbPos % Len(NodeList)) + 1]] = hbUp]
  /\ hbPos' = (hbPos % Len(NodeList)) + 1
  /\ hbPc' = "ping"
  /\ hbUp' = TRUE
  /\ UNCHANGED <<threadVars, conns, nodeVars, histVars>>

\* Mutant: a failed ping does not mark the node down.
MarkUpOnly ==
  /\ hbPc = "mark"
  /\ alive' = [alive EXCEPT ![NodeList[hbPos]] = @ \/ hbUp]
  /\ hbPos' = (hbPos % Len(NodeList)) + 1
  /\ hbPc' = "ping"
  /\ hbUp' = TRUE
  /\ UNCHANGED <<threadVars, conns, nodeVars, histVars>>

\* mark_up or mark_down, then the next node of the cycle.
MarkPinged ==
  /\ hbPc = "mark"
  /\ alive' = [alive EXCEPT ![NodeList[hbPos]] = hbUp]
  /\ hbPos' = (hbPos % Len(NodeList)) + 1
  /\ hbPc' = "ping"
  /\ hbUp' = TRUE   \* a local of the loop body, dead from here on
  /\ UNCHANGED <<threadVars, conns, nodeVars, histVars>>

-----------------------------------------------------------------------------
(* The router's connections, and its process.                              *)

\* The writes that the nodes have, or will have, and did not run yet.
InFlight ==
  {x \in Nodes \X Clients \X Write :
     LET n == x[1]  c == x[2] IN
       /\ pc[c] = "wait" /\ resp[c] = None /\ req[c] = x[3]
       /\ Target(c) = n /\ conns[c][n] = "open"}

\* TCP gives up the connection to an unreachable node on which c waits for a
\* response.  The node lives: it never got the request, or it ran it and the
\* response is lost, or it has it and will run it later.
GiveUp(c) ==
  /\ pc[c] = "wait"
  /\ conns[c][Target(c)] = "open" /\ node[Target(c)] = "cut"
  /\ conns' = [conns EXCEPT ![c][Target(c)] = "broken"]
  /\ resp' = [resp EXCEPT ![c] = None]
  /\ \/ UNCHANGED <<late, done>>
     \/ LET x == <<Target(c), c, req[c]>> IN
          /\ x \in InFlight \ late
          /\ late' = late \cup {x}
          /\ Cardinality(late') <= MaxLate
          /\ done' = [done EXCEPT ![c] = @ \cup {Target(c)}]
  /\ UNCHANGED <<pc, req, pos, result, alive, hbVars, node, store, faulty, acked, erased>>

\* The process is stopped, or write_all() to a client that left ends it: by
\* SIGPIPE, or by an exception that no handler thread catches.  All its threads
\* and connections are gone; it is started again and trusts every node.  A bound:
\* nobody leaves the same write to a node twice before the node runs it.
RouterEnds ==
  /\ MayEnd
  /\ late \cap InFlight = {}
  /\ late' = late \cup InFlight
  /\ Cardinality(late') <= MaxLate
  /\ pc' = [c \in Clients |-> "closed"]
  /\ req' = [c \in Clients |-> None]
  /\ pos' = [c \in Clients |-> 1]
  /\ result' = [c \in Clients |-> None]
  /\ resp' = [c \in Clients |-> None]
  /\ conns' = [c \in Clients |-> NoConns]
  /\ alive' = [n \in Nodes |-> TRUE]
  /\ hbPos' = 1 /\ hbPc' = "ping" /\ hbUp' = TRUE
  /\ done' = [c \in Clients |-> {}]
  /\ UNCHANGED <<node, store, faulty, acked, erased>>

-----------------------------------------------------------------------------
(* The nodes.                                                              *)

\* A reactor thread of node n reads the request of c, runs handle_request
\* on the store and writes the response.
HandleRequest(n, c) ==
  /\ node[n] = "up"
  /\ pc[c] = "wait" /\ Target(c) = n
  /\ conns[c][n] = "open"
  /\ resp[c] = None
  /\ LET r == req[c] IN
       /\ resp' = [resp EXCEPT ![c] = StoreResponse(r, store[n][r.key])]
       /\ store' = [store EXCEPT ![n][r.key] = StoreEffect(r, @)]
  /\ done' = [done EXCEPT ![c] = @ \cup {n}]
  /\ UNCHANGED <<pc, req, pos, result, conns, alive, hbVars, node, late, faulty, acked, erased>>

\* Mutant: the write is run, and run again.
HandleLateAgain(n, c, w) ==
  /\ node[n] = "up"
  /\ <<n, c, w>> \in late
  /\ store' = [store EXCEPT ![n][w.key] = StoreEffect(w, @)]
  /\ UNCHANGED <<threadVars, conns, alive, hbVars, node, late, histVars>>

\* A reactor reads a write that was sent before the router ended, or before its
\* end of the connection was lost; nobody is there for the response.
HandleLate(n, c, w) ==
  /\ node[n] = "up"
  /\ <<n, c, w>> \in late
  /\ late' = late \ {<<n, c, w>>}
  /\ store' = [store EXCEPT ![n][w.key] = StoreEffect(w, @)]
  /\ UNCHANGED <<threadVars, conns, alive, hbVars, node, histVars>>

\* The process dies (SIGKILL): the store, which is in memory, is gone and
\* every connection to it is broken.  Response bytes it wrote still arrive.
Crash(n) ==
  /\ n \in Crashable
  /\ node[n] \in {"up", "hung"}
  /\ node' = [node EXCEPT ![n] = "down"]
  /\ store' = [store EXCEPT ![n] = [k \in Keys |-> None]]
  /\ late' = {x \in late : x[1] # n}
  /\ conns' = [c \in Clients |->
                 [conns[c] EXCEPT ![n] = IF @ = "open" THEN "broken" ELSE @]]
  /\ faulty' = faulty \cup {n}
  /\ done' = [c \in Clients |-> done[c] \ {n}]
  /\ UNCHANGED <<threadVars, alive, hbVars, acked, erased>>

\* A new kvserver process starts on the same address, with an empty store.
Restart(n) ==
  /\ node[n] = "down"
  /\ node' = [node EXCEPT ![n] = "up"]
  /\ UNCHANGED <<threadVars, conns, alive, hbVars, store, late, histVars>>

\* The process stops responding, for longer than the heartbeat timeout if
\* a PING falls in between, and keeps its connections.
Hang(n) ==
  /\ n \in Hangable
  /\ node[n] = "up"
  /\ node' = [node EXCEPT ![n] = "hung"]
  /\ faulty' = faulty \cup {n}
  /\ UNCHANGED <<threadVars, conns, alive, hbVars, store, late, done, acked, erased>>

\* The node's host becomes unreachable: nobody can connect, and what is on its
\* way on a connection that is there waits, or is lost with it (GiveUp).
Cut(n) ==
  /\ n \in Cuttable
  /\ node[n] = "up"
  /\ node' = [node EXCEPT ![n] = "cut"]
  /\ faulty' = faulty \cup {n}
  /\ UNCHANGED <<threadVars, conns, alive, hbVars, store, late, done, acked, erased>>

Resume(n) ==
  /\ node[n] \in {"hung", "cut"}
  /\ node' = [node EXCEPT ![n] = "up"]
  /\ UNCHANGED <<threadVars, conns, alive, hbVars, store, late, histVars>>

-----------------------------------------------------------------------------
\* What a thread does between reading a request and writing its response.
ThreadStep(c) ==
  \/ SkipSuspected(c) \/ TryReplica(c)
  \/ SendOnCached(c) \/ Connect(c) \/ ConnectFails(c)
  \/ ReceiveRead(c) \/ ReceiveAck(c) \/ RequestFails(c) \/ CatchFailure(c)
  \/ EndOfList(c) \/ Reply(c)

ClientStep(c) ==
  Accept(c) \/ Disconnect(c) \/ AnswerLocally(c) \/ ReadRequest(c)

Heartbeat == PingOnce \/ MarkPinged

Environment(n) == Crash(n) \/ Restart(n) \/ Hang(n) \/ Cut(n) \/ Resume(n)

Next ==
  \/ \E c \in Clients : ClientStep(c) \/ ThreadStep(c)
  \/ \E n \in Nodes, c \in Clients : HandleRequest(n, c)
  \/ \E n \in Nodes, c \in Clients, w \in Write : HandleLate(n, c, w)
  \/ Heartbeat
  \/ \E c \in Clients : GiveUp(c)
  \/ RouterEnds
  \/ \E n \in Nodes : Environment(n)

Spec == Init /\ [][Next]_vars

\* Threads that can run are run, a node that does not respond resumes, and a
\* process that responds again and again in between gets to the request it was
\* sent.
Fairness ==
  /\ \A c \in Clients : WF_vars(ThreadStep(c))
  /\ WF_vars(Heartbeat)
  /\ \A n \in Nodes : WF_vars(Resume(n))
  /\ \A n \in Nodes, c \in Clients : SF_vars(HandleRequest(n, c))

FairSpec == Spec /\ Fairness

-----------------------------------------------------------------------------
(* Properties.                                                             *)

Replicas(c) == {Pref[req[c].key][i] : i \in DOMAIN Pref[req[c].key]}

\* The writes that ended routers and lost connections left behind.
LateTypes == late \subseteq Nodes \X Clients \X Write

\* The states of each variable, with the positions and requests that go with
\* each control point of handle_client.
TypeOK ==
  /\ pc \in [Clients -> PCs]
  /\ req \in [Clients -> Request \cup {None}]
  /\ pos \in [Clients -> Nat \ {0}]
  /\ result \in [Clients -> Response \cup {None}]
  /\ resp \in [Clients -> Response \cup {None}]
  /\ conns \in [Clients -> [Nodes -> {"none", "open", "broken"}]]
  /\ alive \in [Nodes -> BOOLEAN]
  /\ hbPos \in 1 .. Len(NodeList)
  /\ hbPc \in {"ping", "mark"}
  /\ hbUp \in BOOLEAN
  /\ node \in [Nodes -> {"up", "hung", "cut", "down"}]
  /\ store \in [Nodes -> [Keys -> Values \cup {None}]]
  /\ LateTypes
  /\ faulty \subseteq Nodes
  /\ done \in [Clients -> SUBSET Nodes]
  /\ acked \subseteq Keys /\ erased \subseteq Keys

\* A node that never crashed nor hung is never suspected, whatever the
\* heartbeat thread and the catch blocks of all threads do to alive_.
NoFalseSuspicion == \A n \in Nodes : ~alive[n] => n \in faulty

\* "ERROR no live replica" reaches a client only if every replica of the key
\* has failed at some time: one replica that never fails is enough for every
\* request to be served.
ErrorOnlyIfAllReplicasFailed ==
  \A c \in Clients :
    pc[c] = "reply" /\ req[c] # None /\ result[c] = ErrorResponse
      => Replicas(c) \subseteq faulty

\* A write is acknowledged only once every replica of the key that never
\* failed has executed it (route_write's fan-out is complete before OK).
AckAfterFanOut ==
  \A c \in Clients :
    /\ pc[c] = "reply" /\ req[c] # None
    /\ req[c].command # "Get" /\ result[c] # ErrorResponse
    => Replicas(c) \subseteq done[c] \cup faulty

\* A write answered with an error took effect, or may still do so, at most on
\* replicas that can be cut off from the router and have failed: an ERROR hides no
\* write that some store keeps unless a connection was lost to a node that lives.
ErrorTraceOnlyIfCut ==
  \A c \in Clients :
    pc[c] = "reply" /\ req[c] # None /\ result[c] = ErrorResponse
      => done[c] \subseteq Cuttable \cap faulty

\* Once a SET of a key was answered with OK, and as long as nobody asked to
\* delete the key, every replica of the key that never failed holds a value
\* for it, whatever else crashed, hung, restarted or was suspected.
AckedSurvives ==
  \A k \in acked \ erased :
    \A i \in DOMAIN Pref[k] : Pref[k][i] \notin faulty => store[Pref[k][i]][k] # None

\* docs/REPLICATION.md: with no failure, every write reaches every live
\* replica before the client sees OK, so any live replica has the latest
\* value.  Stated where it must hold at least: no request is being served.
ReplicasAgreeWhenIdle ==
  (\A c \in Clients : pc[c] \in {"closed", "read"})
    => \A k \in Keys : \A i, j \in DOMAIN Pref[k] :
         store[Pref[k][i]][k] = store[Pref[k][j]][k]

\* Every request that was read is answered, unless the router ends first, as
\* long as nodes that hang or are unreachable resume: the loop over the
\* preference list ends whatever fails meanwhile.
EveryRequestAnswered ==
  \A c \in Clients : pc[c] \notin {"closed", "read"} ~> pc[c] \in {"closed", "read"}

\* A node that stays down ends up suspected for good: a heartbeat answered
\* before the crash can mark it up only once more.
CrashedStaysSuspected ==
  \A n \in Nodes : <>[](node[n] = "down") => <>[](~alive[n])

\* A node that stays up ends up trusted for good: every thread that still
\* caches a connection to its previous incarnation marks it down at most once.
RecoveredStaysTrusted ==
  \A n \in Nodes : <>[](node[n] = "up") => <>[]alive[n]

-----------------------------------------------------------------------------
(* Refinement.  Until a primary fails, what the clients see is one atomic  *)
(* map: the primaries' stores.  A request takes effect when its primary    *)
(* executes it; the copies on the other replicas do not matter.            *)

PrimariesSound == \A k \in Keys : Pref[k][1] \notin faulty

PrimaryMap == [k \in Keys |-> store[Pref[k][1]][k]]

\* The response of a request that took effect: still on its way from the
\* primary, or kept by the thread.
PrimaryResponse ==
  [c \in Clients |-> IF req[c] = None THEN None
                     ELSE IF result[c] # None THEN result[c] ELSE resp[c]]

\* The writes that a router which ended left to the primaries.
PrimaryLate ==
  {x \in Clients \X Write : <<Pref[x[2].key][1], x[1], x[2]>> \in late}

Atomic == INSTANCE RestartableKV
  WITH kv <- PrimaryMap, call <- req, ret <- PrimaryResponse, loose <- PrimaryLate

\* Until some primary fails, every step is one of the atomic map or invisible
\* to clients: reads come from the primary and write responses are its own,
\* whatever happens to the other replicas and to the detector.  A write that
\* was in flight when the router ended takes effect at most once.
LinearizableAtPrimary ==
  /\ Atomic!InitAll
  /\ [][PrimariesSound' => Atomic!NextAll \/ UNCHANGED Atomic!allVars]_vars
=============================================================================
