--------------------------- MODULE FailoverBench ---------------------------
(***************************************************************************)
(* kvfailover (src/tools/failover_bench.cpp): workers send requests one    *)
(* after the other while main() kills a backend, and main() then sorts     *)
(* their outcomes into those before and those after the kill.  The clock   *)
(* is discrete; anything may take any time, except that a worker is not    *)
(* kept from its next clock reading for longer than kTailWindowMs.         *)
(* Only failures are kept, as a set: the report is modelled by which of    *)
(* its error counters are zero, not by their values.                       *)
(***************************************************************************)
EXTENDS Naturals, FiniteSets, FiniteSetsExt

CONSTANTS
  Workers,   \* the worker threads
  Duration,  \* --duration-ms
  KillAt,    \* --kill-at-ms
  Tail,      \* kTailWindowMs
  Horizon,   \* bound: the clock stops here
  None

\* main() refuses --kill-at-ms beyond --duration-ms.
ASSUME BenchAssumption ==
  /\ {Duration, KillAt, Tail, Horizon} \subseteq Nat
  /\ KillAt < Duration /\ Tail <= Duration /\ Duration + Tail <= Horizon

VARIABLES
  now,      \* steady_clock, as time since start
  wpc,      \* where each worker is
  sent,     \* sample.start_ms of its request in flight
  got,      \* the outcome of its last request, and
  gotAt,    \*   when it arrived
  failures, \* the failures with !ok that the workers recorded
  mpc,      \* where main() is
  killTs,   \* kill_ts_ms
  service,  \* the cluster: "ok", "some" keys failing, or "out" altogether
  killedAt, \* when the process died, None while it lives
  report    \* what main() prints

workerVars == <<wpc, sent, got, gotAt, failures>>
mainVars == <<mpc, killTs, report>>
vars == <<now, workerVars, mainVars, service, killedAt>>

Time == 0 .. Horizon

Init ==
  /\ now = 0
  /\ wpc = [w \in Workers |-> "connect"]
  /\ sent = [w \in Workers |-> 0]
  /\ got = [w \in Workers |-> TRUE]
  /\ gotAt = [w \in Workers |-> 0]
  /\ failures = {}
  /\ mpc = "sleep" /\ killTs = 0 /\ report = None
  /\ service = "ok" /\ killedAt = None

\* Time passes; no worker is delayed for longer than the tail window.
Tick ==
  /\ now < Horizon /\ mpc # "reported"
  /\ \A w \in Workers :
       /\ wpc[w] \in {"stamp", "loop"} => now < gotAt[w] + Tail
       /\ wpc[w] = "connect" => now < Tail
  /\ now' = now + 1
  /\ UNCHANGED <<workerVars, mainVars, service, killedAt>>

Connect(w) ==
  /\ wpc[w] = "connect"
  /\ \E pc \in {"loop", "unconnected"} : wpc' = [wpc EXCEPT ![w] = pc]
  /\ gotAt' = [gotAt EXCEPT ![w] = now]
  /\ UNCHANGED <<now, sent, got, failures, mainVars, service, killedAt>>

\* elapsed_ms < duration_ms: the next request is sent.
SendNext(w) ==
  /\ wpc[w] = "loop"
  /\ now < Duration
  /\ sent' = [sent EXCEPT ![w] = now]
  /\ wpc' = [wpc EXCEPT ![w] = "wait"]
  /\ UNCHANGED <<now, got, gotAt, failures, mainVars, service, killedAt>>

Finish(w) ==
  /\ wpc[w] = "loop"
  /\ now >= Duration
  /\ wpc' = [wpc EXCEPT ![w] = "done"]
  /\ UNCHANGED <<now, sent, got, gotAt, failures, mainVars, service, killedAt>>

\* send_request returns or throws.  Requests fail only once the process is
\* dead (Router.tla: ErrorOnlyIfAllReplicasFailed), the ones in flight too.
Outcome(w) ==
  /\ wpc[w] = "wait"
  /\ \E ok \in BOOLEAN :
       /\ ~ok => killedAt # None
       /\ ok => service # "out"
       /\ got' = [got EXCEPT ![w] = ok]
  /\ gotAt' = [gotAt EXCEPT ![w] = now]
  /\ wpc' = [wpc EXCEPT ![w] = "stamp"]
  /\ UNCHANGED <<now, sent, failures, mainVars, service, killedAt>>

\* Mutant: an exception ends the worker.
RecordAndQuit(w) ==
  /\ wpc[w] = "stamp"
  /\ failures' = IF got[w] THEN failures
                 ELSE failures \cup {[start |-> sent[w], end |-> now]}
  /\ sent' = [sent EXCEPT ![w] = 0] /\ got' = [got EXCEPT ![w] = TRUE]
  /\ wpc' = [wpc EXCEPT ![w] = IF got[w] THEN "loop" ELSE "done"]
  /\ UNCHANGED <<now, gotAt, mainVars, service, killedAt>>

\* t1 = now(), out_samples.push_back(sample), on success as in the catch.
Record(w) ==
  /\ wpc[w] = "stamp"
  /\ failures' = IF got[w] THEN failures
                 ELSE failures \cup {[start |-> sent[w], end |-> now]}
  /\ sent' = [sent EXCEPT ![w] = 0] /\ got' = [got EXCEPT ![w] = TRUE]
  /\ wpc' = [wpc EXCEPT ![w] = "loop"]
  /\ UNCHANGED <<now, gotAt, mainVars, service, killedAt>>

-----------------------------------------------------------------------------
\* sleep_for(kill_at_ms), which may oversleep; kill_ts_ms is read next.
Stamp ==
  /\ mpc = "sleep"
  /\ now >= KillAt
  /\ killTs' = now
  /\ mpc' = "kill"
  /\ UNCHANGED <<now, workerVars, report, service, killedAt>>

\* kill(kill_pid, SIGKILL), and what it does to the cluster.
Kill ==
  /\ mpc = "kill"
  /\ \E s \in {"ok", "some", "out"} : service' = s
  /\ killedAt' = now
  /\ mpc' = "join"
  /\ UNCHANGED <<now, workerVars, killTs, report>>

\* kill() fails: main() says so and goes on.
KillFails ==
  /\ mpc = "kill"
  /\ mpc' = "join"
  /\ UNCHANGED <<now, workerVars, killTs, report, service, killedAt>>

\* The failure detector notices: the cluster serves every key again.
Recover ==
  /\ service # "ok"
  /\ service' = "ok"
  /\ UNCHANGED <<now, workerVars, mainVars, killedAt>>

\* Mutant: classification by start_ms.
StartedBefore(s) == s.start < killTs

Before(s) == s.end < killTs

\* Mutant: the window excludes its first instant.
AfterTailStart(s) == s.end > Duration - Tail

InTail(s) == s.end >= Duration - Tail

\* The loops over all samples, once every worker has been joined.
Report ==
  /\ mpc = "join"
  /\ \A w \in Workers : wpc[w] \in {"done", "unconnected"}
  /\ LET late == {s.end : s \in {e \in failures : ~Before(e)}}
     IN  report' = [errorsBefore |-> \E s \in failures : Before(s),
                    errorsAfter  |-> late # {},
                    recovery     |-> Max(late \cup {killTs}) - killTs,
                    errorsAtTail |-> \E s \in failures : InTail(s)]
  /\ mpc' = "reported"
  /\ UNCHANGED <<now, workerVars, killTs, service, killedAt>>

Next ==
  \/ Tick
  \/ \E w \in Workers :
       Connect(w) \/ SendNext(w) \/ Finish(w) \/ Outcome(w) \/ Record(w)
  \/ Stamp \/ Kill \/ KillFails \/ Recover \/ Report

Spec == Init /\ [][Next]_vars

-----------------------------------------------------------------------------
(* Properties.                                                             *)

\* The comment on Sample::end_ms: a failure the kill caused is never counted
\* as one from before it, although the request may have been sent before,
\* and although the outcome, the kill and both clock readings interleave.
NoErrorBeforeKill == report # None => ~report.errorsBefore

\* The comment on kTailWindowMs: an outage of the whole service that lasts
\* until the end of the run is never reported as a bounded recovery, if the
\* kill came before the window and some worker got connected.
OutageFlagged ==
  /\ report # None /\ service = "out"
  /\ killedAt # None /\ killedAt < Duration - Tail
  /\ \E w \in Workers : wpc[w] = "done"
  => report.errorsAfter /\ report.errorsAtTail
=============================================================================
