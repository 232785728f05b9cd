------------------------ MODULE FailoverBenchProofs ------------------------
(***************************************************************************)
(* Proofs about FailoverBench.tla: what kvfailover says of the failures it *)
(* saw, for any number of workers and any times.                           *)
(***************************************************************************)
EXTENDS FailoverBench, TLAPS

Types ==
  /\ now \in Nat /\ killTs \in Nat
  /\ wpc \in [Workers -> {"connect", "loop", "wait", "stamp", "done", "unconnected"}]
  /\ got \in [Workers -> BOOLEAN]
  /\ sent \in [Workers -> Nat] /\ gotAt \in [Workers -> Nat]
  /\ failures \subseteq [start : Nat, end : Nat]
  /\ mpc \in {"sleep", "kill", "join", "reported"}
  /\ service \in {"ok", "some", "out"}
  /\ killedAt \in Nat \cup {None}

\* Nothing fails before kill(), whose time was read before, so that what fails
\* is recorded with a later time.
KillInv ==
  /\ killTs <= now
  /\ mpc \in {"sleep", "kill"} =>
       /\ service = "ok" /\ killedAt = None /\ failures = {}
       /\ \A w \in Workers : got[w]
  /\ \A s \in failures : ~Before(s)
  /\ mpc = "reported" => \A w \in Workers : wpc[w] \in {"done", "unconnected"}
  /\ mpc # "reported" => report = None
  /\ NoErrorBeforeKill

\* A worker recorded a failure when it had its last outcome, or later.
Noted(w) == \E s \in failures : s.end >= gotAt[w]

\* Since the kill no request succeeds, so that each outcome of a worker is a
\* failure.  What it has at the end of the run came in the tail window, since
\* it is never kept for longer.
WorkerFine(w) ==
  /\ gotAt[w] <= now
  /\ wpc[w] = "connect" => now <= Tail
  /\ wpc[w] \in {"stamp", "loop"} => now <= gotAt[w] + Tail
  /\ wpc[w] = "done" => Duration <= gotAt[w] + Tail
  /\ service = "out" /\ killedAt # None /\ gotAt[w] > killedAt =>
       /\ wpc[w] = "stamp" => ~got[w]
       /\ wpc[w] = "loop" => gotAt[w] <= Tail \/ Noted(w)
       /\ wpc[w] = "done" => Noted(w)

WorkerInv == \A w \in Workers : WorkerFine(w)

IInv == Types /\ KillInv /\ WorkerInv /\ OutageFlagged

-----------------------------------------------------------------------------
\* The clock and the workers keep the types; so does main().
LEMMA TypesStep == Types /\ [Next]_vars => Types'
<1> SUFFICES ASSUME Types, [Next]_vars PROVE Types'
  OBVIOUS
<1> USE BenchAssumption DEF Types
<1>1. CASE Tick
  BY <1>1 DEF Tick, workerVars, mainVars
<1>2. ASSUME NEW w \in Workers, Connect(w) PROVE Types'
  BY <1>2 DEF Connect, mainVars
<1>3. ASSUME NEW w \in Workers, SendNext(w) PROVE Types'
  BY <1>3 DEF SendNext, mainVars
<1>4. ASSUME NEW w \in Workers, Finish(w) PROVE Types'
  BY <1>4 DEF Finish, mainVars
<1>5. ASSUME NEW w \in Workers, Outcome(w) PROVE Types'
  BY <1>5 DEF Outcome, mainVars
<1>6. ASSUME NEW w \in Workers, Record(w) PROVE Types'
  <2>1. failures' \subseteq [start : Nat, end : Nat]
    BY <1>6 DEF Record
  <2> QED BY <1>6, <2>1 DEF Record, mainVars
<1>7. CASE Stamp
  BY <1>7 DEF Stamp, workerVars
<1>8. CASE Kill
  BY <1>8 DEF Kill, workerVars
<1>9. CASE KillFails
  BY <1>9 DEF KillFails, workerVars
<1>10. CASE Recover
  BY <1>10 DEF Recover, workerVars, mainVars
<1>11. CASE Report
  BY <1>11 DEF Report, workerVars
<1>12. CASE UNCHANGED vars
  BY <1>12 DEF vars, workerVars, mainVars
<1> QED
  BY <1>1, <1>2, <1>3, <1>4, <1>5, <1>6, <1>7, <1>8, <1>9, <1>10, <1>11, <1>12, Zenon DEF Next

\* A failure needs the kill, and is recorded after it.
LEMMA KillInvStep == Types /\ KillInv /\ [Next]_vars => KillInv'
<1> SUFFICES ASSUME Types, KillInv, [Next]_vars PROVE KillInv'
  OBVIOUS
<1> USE DEF Types, KillInv, NoErrorBeforeKill, Before
<1>1. CASE Tick
  BY <1>1 DEF Tick, workerVars, mainVars
<1>2. ASSUME NEW w \in Workers, Connect(w) PROVE KillInv'
  BY <1>2 DEF Connect, mainVars
<1>3. ASSUME NEW w \in Workers, SendNext(w) PROVE KillInv'
  BY <1>3 DEF SendNext, mainVars
<1>4. ASSUME NEW w \in Workers, Finish(w) PROVE KillInv'
  BY <1>4 DEF Finish, mainVars
<1>5. ASSUME NEW w \in Workers, Outcome(w) PROVE KillInv'
  BY <1>5 DEF Outcome, mainVars
<1>6. ASSUME NEW w \in Workers, Record(w) PROVE KillInv'
  BY <1>6 DEF Record, mainVars
<1>7. CASE Stamp
  BY <1>7 DEF Stamp, workerVars
<1>8. CASE Kill
  BY <1>8 DEF Kill, workerVars
<1>9. CASE KillFails
  BY <1>9 DEF KillFails, workerVars
<1>10. CASE Recover
  BY <1>10 DEF Recover, workerVars, mainVars
<1>11. CASE Report
  BY <1>11 DEF Report, workerVars
<1>12. CASE UNCHANGED vars
  BY <1>12 DEF vars, workerVars, mainVars
<1> QED
  BY <1>1, <1>2, <1>3, <1>4, <1>5, <1>6, <1>7, <1>8, <1>9, <1>10, <1>11, <1>12, Zenon DEF Next

\* The comment on Sample::end_ms: no failure is counted as one from before the
\* kill, however the outcomes, the kill and the clock readings interleave.
THEOREM FailuresFollowKill == Spec => []NoErrorBeforeKill
<1>1. Init => Types /\ KillInv
  BY BenchAssumption DEF Init, Types, KillInv, NoErrorBeforeKill
<1>2. Types /\ KillInv => NoErrorBeforeKill
  BY DEF KillInv
<1> QED
  BY <1>1, <1>2, TypesStep, KillInvStep, PTL DEF Spec

-----------------------------------------------------------------------------
\* A worker that does not move stays as it is while the clock and the service
\* do, whatever failures others record.
LEMMA WorkerStays ==
  ASSUME NEW w \in Workers, WorkerFine(w), failures \subseteq failures',
         wpc'[w] = wpc[w], gotAt'[w] = gotAt[w], got'[w] = got[w],
         now' = now, service' = service, killedAt' = killedAt
  PROVE  WorkerFine(w)'
BY DEF WorkerFine, Noted

\* Each action keeps what is known of each worker; the last one to leave the loop
\* is where the length of the run is needed.
LEMMA WorkerInvStep ==
  ASSUME 2 * Tail < Duration, Types, KillInv, WorkerInv, [Next]_vars
  PROVE  WorkerInv'
<1> SUFFICES ASSUME NEW w \in Workers PROVE WorkerFine(w)'
  BY DEF WorkerInv
<1> USE BenchAssumption
<1>a. WorkerFine(w)
  BY DEF WorkerInv
<1>1. CASE Tick
  BY <1>1, <1>a DEF Tick, workerVars, mainVars, Types, WorkerFine, Noted
<1>2. ASSUME NEW v \in Workers, Connect(v) PROVE WorkerFine(w)'
  <2>1. CASE v = w
    <3>1. now <= Tail /\ gotAt'[w] = now /\ wpc'[w] \in {"loop", "unconnected"} /\ now' = now
      BY <1>2, <2>1, <1>a, Zenon DEF Connect, Types, WorkerFine
    <3> QED BY <3>1 DEF Types, WorkerFine
  <2>2. CASE v # w
    BY <1>2, <2>2, <1>a, WorkerStays DEF Connect, Types
  <2> QED BY <2>1, <2>2
<1>3. ASSUME NEW v \in Workers, SendNext(v) PROVE WorkerFine(w)'
  <2>1. CASE v = w
    BY <1>3, <2>1, <1>a, Zenon DEF SendNext, Types, WorkerFine
  <2>2. CASE v # w
    BY <1>3, <2>2, <1>a, WorkerStays DEF SendNext, Types
  <2> QED BY <2>1, <2>2
<1>4. ASSUME NEW v \in Workers, Finish(v) PROVE WorkerFine(w)'
  <2>1. CASE v = w
    <3>1. /\ wpc[w] = "loop" /\ wpc'[w] = "done" /\ now >= Duration
          /\ UNCHANGED <<now, gotAt, failures, service, killedAt>>
      BY <1>4, <2>1 DEF Finish, Types
    <3>2. Duration <= gotAt[w] + Tail /\ ~(gotAt[w] <= Tail)
      BY <3>1, <1>a DEF WorkerFine, Types
    <3> QED BY <3>1, <3>2, <1>a DEF WorkerFine, Noted
  <2>2. CASE v # w
    BY <1>4, <2>2, <1>a, WorkerStays DEF Finish, Types
  <2> QED BY <2>1, <2>2
<1>5. ASSUME NEW v \in Workers, Outcome(v) PROVE WorkerFine(w)'
  <2>1. CASE v = w
    <3>1. /\ gotAt'[w] = now /\ wpc'[w] = "stamp" /\ now' = now
          /\ service' = "out" => ~got'[w]
      BY <1>5, <2>1 DEF Outcome, Types
    <3> QED BY <3>1 DEF Types, WorkerFine
  <2>2. CASE v # w
    BY <1>5, <2>2, <1>a, WorkerStays DEF Outcome, Types
  <2> QED BY <2>1, <2>2
<1>6. ASSUME NEW v \in Workers, Record(v) PROVE WorkerFine(w)'
  <2>1. CASE v = w
    <3>1. /\ wpc[w] = "stamp" /\ wpc'[w] = "loop"
          /\ ~got[w] => [start |-> sent[w], end |-> now] \in failures'
          /\ UNCHANGED <<now, gotAt, service, killedAt>>
      BY <1>6, <2>1 DEF Record, Types
    <3>2. ~got[w] => Noted(w)'
      BY <3>1, <1>a DEF Noted, WorkerFine
    <3> QED BY <3>1, <3>2, <1>a, Zenon DEF WorkerFine
  <2>2. CASE v # w
    BY <1>6, <2>2, <1>a, WorkerStays, Zenon DEF Record, Types
  <2> QED BY <2>1, <2>2
<1>7. CASE Stamp
  BY <1>7, <1>a, WorkerStays DEF Stamp, workerVars
<1>8. CASE Kill
  BY <1>8, <1>a DEF Kill, workerVars, Types, WorkerFine
<1>9. CASE KillFails
  BY <1>9, <1>a, WorkerStays DEF KillFails, workerVars
<1>10. CASE Recover
  BY <1>10, <1>a, Zenon DEF Recover, workerVars, WorkerFine
<1>11. CASE Report
  BY <1>11, <1>a, WorkerStays, Zenon DEF Report, workerVars
<1>12. CASE UNCHANGED vars
  BY <1>12, <1>a, WorkerStays, Zenon DEF vars, workerVars
<1> QED
  BY <1>1, <1>2, <1>3, <1>4, <1>5, <1>6, <1>7, <1>8, <1>9, <1>10, <1>11, <1>12 DEF Next

\* main() finds the failure that a worker recorded last.
LEMMA OutageStep ==
  ASSUME Types, KillInv, WorkerInv, OutageFlagged, [Next]_vars
  PROVE  OutageFlagged'
<1> USE BenchAssumption
<1>1. CASE Report
  <2> SUFFICES ASSUME service = "out", killedAt # None, killedAt < Duration - Tail,
                      NEW w \in Workers, wpc[w] = "done"
               PROVE  report'.errorsAfter /\ report'.errorsAtTail
    BY <1>1, Zenon DEF OutageFlagged, Report, workerVars
  <2>1. Duration <= gotAt[w] + Tail /\ gotAt[w] > killedAt
    BY DEF WorkerInv, WorkerFine, Types
  <2>2. PICK s \in failures : s.end >= gotAt[w]
    BY <2>1, Zenon DEF WorkerInv, WorkerFine, Noted
  <2>3. InTail(s) /\ ~Before(s)
    BY <2>1, <2>2 DEF InTail, KillInv, Types
  <2> QED BY <1>1, <2>2, <2>3, Zenon DEF Report
<1>2. ASSUME ~Report PROVE OutageFlagged'
  <2>1. UNCHANGED report
    BY <1>2, Zenon DEF Next, Tick, Connect, SendNext, Finish, Outcome, Record, Stamp, Kill, KillFails,
                Recover, vars, mainVars
  <2> SUFFICES ASSUME report # None, service' = "out" PROVE OutageFlagged'
    BY <2>1, Zenon DEF OutageFlagged
  <2>2. mpc = "reported" /\ \A w \in Workers : wpc[w] \in {"done", "unconnected"}
    BY DEF KillInv
  <2>3. UNCHANGED <<wpc, service, killedAt>>
    BY <2>2, <1>2, Zenon DEF Next, Tick, Connect, SendNext, Finish, Outcome, Record, Stamp, Kill, KillFails,
                Recover, vars, workerVars, mainVars
  <2> QED BY <2>1, <2>3 DEF OutageFlagged
<1> QED BY <1>1, <1>2

\* The comment on kTailWindowMs: an outage that lasts until the end of the run is
\* never reported as a recovery, if the run is longer than two tail windows.
THEOREM OutagesAreFlagged ==
  ASSUME 2 * Tail < Duration
  PROVE  Spec => []OutageFlagged
<1>1. Init => IInv
  BY BenchAssumption DEF IInv, Init, Types, KillInv, WorkerInv, WorkerFine, NoErrorBeforeKill, OutageFlagged
<1>2. IInv /\ [Next]_vars => IInv'
  BY TypesStep, KillInvStep, WorkerInvStep, OutageStep DEF IInv
<1>3. IInv => OutageFlagged
  BY DEF IInv
<1> QED
  BY <1>1, <1>2, <1>3, PTL DEF Spec
=============================================================================
