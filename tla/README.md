# A TLA+ model of the distributed key-value store

The repository is a replicated in-memory key-value store in C++: `kvserver`
keeps the data, `kvrouter` spreads keys over several servers and replicates
them, clients talk to either over a line-based protocol. This directory holds
TLA+ modules translated from `src/`, the TLC runs that check them on small
instances, and TLAPS proofs of the main safety properties for instances of any
size. `PROJECT.json` lists the runs, the source lines behind every definition,
the mutated definitions that show each property can fail, and the places in the
code where something hard to test can go wrong.

## The system and its parts

| part | source | module | state of the model |
|---|---|---|---|
| router request path | `router/router.cpp` | `Router` | modelled |
| failure detector | `router/failure_detector.cpp` | `Router` | all but `stop()` |
| store of one server | `server/kv_store.cpp` | `KVStore` | modelled |
| accept loop, reactors | `server/server.cpp`, `server/worker_reactor.cpp` | `KvServer` | modelled |
| hash ring | `common/hash_ring.cpp` | `Ring`, `HashRing` | modelled, for any hash, collisions included |
| protocol, both parsers, `send_request` | `common/protocol.cpp` | `Protocol`, `RequestStream`, `Connection` | modelled |
| sockets | `common/socket_utils.cpp` | `Router` | by outcome |
| `kvclient` | `client/main.cpp` | `Connection` | `build_request` and the request loop |
| `kvfailover` | `tools/failover_bench.cpp` | `FailoverBench` | workers, kill, classification |
| `hash_report` | `tools/hash_report.cpp` | `Ring` | balance and remapping counts |
| `kvbench`, percentiles, workload, argument parsing | | | not modelled |

How they interact. A client sends one request at a time on a connection to the
router. A thread per client looks up the key's preference list on the ring and
forwards the request: a read to the first replica that answers, a write to all
that are not suspected. Threads share the failure detector's `alive_` table with
the heartbeat thread; each has its own cache of backend connections. In a
server, the accept thread hands connections to reactor threads through a queue
and a pipe; the reactors share the sharded store.

The parts are connected by what one promises to the next:

- `KVStore` implements `AtomicKV`, an atomic map, so `Router` executes a request
  on a node in one step.
- `HashRing` returns nonempty lists of distinct nodes that begin with the owner, as
  many as asked for or all there are; the first half is what `Router` assumes of
  `Pref` (`ListsFitRouter`).
- `Connection` shows that `send_request` returns the response to its own
  request, so `Router` has no bytes, only responses.
- `Router` shows that no request fails before a node does
  (`ErrorsBeginWithFailures`), which `FailoverBench`
  assumes of the service.
- `KvServer` keeps connections apart and serves each of them, so `Router` has one
  connection per thread and node and no reactors.
- `Router` itself implements `RestartableKV` (`AtomicKV` with clients that may be
  cut off) until a primary fails.

These connections are by argument, except for the two refinements. What each part
promises is proved for instances of any size, liveness excepted.

## Modules

`KVTypes` has requests, responses and what a request does to a single entry
(`StoreResponse`, `StoreEffect`, from `handle_request` and `KVStore`).
`AtomicKV` is the abstract specification: calls take effect on one map at one
instant between invocation and return. `RestartableKV` extends it: the process
that made the calls may end, and a write it had called may then take effect once
more at any later time, or never.

**`Router`**. Per client connection: `pc` is the place in `handle_client`,
`route_read` or `route_write`, `pos` the loop over the preference list,
`result` is `first_success`, `conns` the thread's `BackendConns`, `resp` the
bytes a backend sent. A connection is `"none"`, `"open"` or `"broken"` (the
process at the other end died; only the next use notices). `alive`, `hbPos`,
`hbPc`, `hbUp` are the failure detector; ping and mark are separate steps, since
nothing holds the mutex in between. `node` and `store` are the servers. A crash
is a SIGKILL: memory is gone, bytes already sent still arrive. A hung process
keeps its connections and answers nothing, not even a PING in time. A node that
is cut off is the same to those connected to it; whoever connects to it waits in
`connect()`, the heartbeat thread too, until it resumes or the attempt fails.
`GiveUp` is TCP giving up a connection to a node that is cut off, under a thread
that waits for a response: `send_request` throws, while the node, which lives,
never got the request, has executed it already, or has it and executes it later.
`RouterEnds` is the end of the router process: `write_all` throws (or raises
SIGPIPE) in a thread whose client left, nothing catches it, and all threads,
connections and the detector's table are gone; the process is then started
again. Writes that were on their way on a connection that is gone stay with the
nodes (`late`), each to be executed once or lost. `faulty`, `done`, `acked` and
`erased` record history for the properties. `RouterAudit` adds a history variable:
the nodes that were up and marked alive when a request was read, and have been ever
since but for what the thread itself made of them in its catch block.

**`KVStore`**. Lock, lookup, use of the iterator, counter update and unlock are
separate steps, so that atomicity comes from the locks. The refinement mapping
lets an insertion or removal take effect when the counter is updated, so that
`size()`, which takes no lock, is exact at every instant.

**`KvServer`**. Input is counted in half requests, so that a request can be cut
by a read, and output in chunks of a response against a send buffer of limited
size. `write_all` takes one step per `write`; it waits for a client that does
not read, gives up on one that left, or is ended by SIGPIPE, which nothing in
the program ignores: then the whole process is gone and somebody starts it
again. The descriptor is closed one step before its entry leaves `poll_fds_`,
because `accept` in the other thread can return the same number in between.
On a connection of `LongLines` the last half request is longer than
`kMaxCommandLineLen` without a line feed. The parser answers with an Error and
keeps it (`RejectLine`), so that the inner loop of `service_client` writes one error
after the other and the reactor comes to nothing else (`Captured`).
`due`, the connections the last `poll` reported and nobody served yet, is
history.

**`Ring`, `HashRing`**. `place` gives each node any set of positions on a small
circle. Virtual nodes may share a position; then the later addition has it, as
in the code's `std::map`, and a removal takes it away. An id may be added twice.
`get_nodes` takes one step per iteration of its loop. `KeyCounts` and
`KeysMoved` are what `hash_report` computes.

**`Protocol`**. Streams are sequences of symbols: a token of a command line, a
line feed, a carriage return or a byte of a value. Since lengths count symbols,
keys that are too long are two symbols of their own: `LongKey` is longer than
`kMaxKeyLen`, `HugeKey` so long that its line is longer than `kMaxCommandLineLen`.
The parsers are functions from a buffer to a status, a request and what is left. `RequestStream` feeds
what clients write, cut anywhere, to the loop that server and router share.
`Connection` puts `kvclient`, whose `build_request` makes requests of typed
tokens and checks neither key nor length, and a server at the ends of two
streams. `IsFrame` says when bytes are one whole message, `WholeFrames` that
clients write only such, `OnlySendable` that nobody types a SET with a key or
value that the server rejects, or a key that makes the line too long; the proofs
assume the two. The instances of the runs `request_stream` and `connection` satisfy
them (`ConnectionRejectedSet.cfg` and `RequestStreamLongLine.cfg` are instances that
do not).

**`FailoverBench`**. The workers and the kill of `kvfailover`, and how it
classifies failures around the kill. The clock is discrete.

## Runs

| run | shows | bounds |
|---|---|---|
| `router` | what answers and acknowledgements mean under faults; refinement of the atomic map until the primary fails; requests are answered; the detector converges | 1 client with GETs and SETs, 2 replicas, 1 key, 1 value; the primary crashes, restarts and hangs, the other replica is cut off and its connections are given up, any number of times; 1 late write at a time |
| `router_restart` | acknowledgements and the refinement when the router itself ends | 1 writer, 1 reader, 2 replicas, 1 key, 1 value; the second replica crashes, the router ends any number of times, 1 late write at a time |
| `kvstore` | race freedom, exact counter, refinement of the atomic map, locks are released | 3 threads, 3 keys in 2 shards, 1 value (an overwrite with another value is left to `StoreAtomic`) |
| `kvserver` | no lost wake-up, one owner per connection, parsers and answers belong together, a scan serves each ready connection once, input is read and hang-ups are closed | 2 reactors, 2 descriptors with reuse, a pipe of 1 byte; a connection with a whole request and one with a line that is too long; responses of 2 chunks, a send buffer of 1 |
| `hash_ring` | lookups, minimal movement of keys and replicas, the remapping count, lookups return | circle of 5, 3 nodes, up to 2 virtual nodes each at any positions, at most 3 additions, up to 3 replicas |
| `request_stream` | the parser finds every request, in order, holds nothing back, and its loop ends | 2 items, every branch of the parser but the one for a line that is too long, all cuts |
| `connection` | every request gets its own response, the connection stays clean | typed lines of every command, some refused, no SET that the server rejects and no line that is too long; keys include a command word, values are empty, a line feed, or a command with a space and a line feed |
| `failover_bench` | failures are put on the right side of the kill, outages are not reported as recoveries | 2 workers, duration 4, tail 1; an outage is one of the whole service, not of some keys |

Why the bounds are enough. Two replicas give each replica a role (primary,
backup) and a request at most one fallback. More clients of the router, longer
preference lists and faults of any node at any time are left to the theorems,
which cover all of `router`'s safety properties. Faults are not counted: the
state spaces are finite without a cap, so runs with any number of crashes are
included. DELETEs are offered in `router_restart` and covered by the theorems.
`MaxLate` does cap the writes that ended routers and lost connections left behind; one is
enough to overtake, and be overtaken by, a write of the next router, and the
theorems hold for any `MaxLate`. Two descriptors are the least with which a
swap-remove moves another entry; a pipe of one byte is always about to be full;
a response of two chunks does not fit into a buffer of one, so `write_all` waits
in every response. Three nodes with two virtual nodes on five positions always
share at least one. Three threads allow two readers and a writer on one shard.
In `RequestStream` the history is cut one outcome past what was written, which
no passing run reaches.

Runs that end in a violation, each of a sentence in the repository:

| run | sentence | what happens instead |
|---|---|---|
| `router_diverge` | without failures, any live replica has the latest value (`REPLICATION.md`, `router.hpp`) | two concurrent SETs reach the replicas in opposite orders |
| `router_stale_connection` | an error only if every replica is down (`REPLICATION.md`) | a connection cached before a restart is used once more, and its node, which was up and marked alive all along, counted as failed; the other replica being down, the client gets the error |
| `request_stream_long_line` | on Error the offending bytes are dropped (`protocol.hpp`) | a line too long that is cut before its line feed drops nothing, and the callers' loop never ends |
| `connection_rejected_set` | one response per SET (`PROTOCOL.md`) | the value of a rejected SET is parsed as further requests |

`docs/REPLICATION.md` also names a gap: a replica that was down misses writes
and serves stale data later. The model has this behaviour (a node restarts
empty and is read from); the properties speak of replicas that never failed, and
the refinement of the time before a primary fails, for that reason.

More behaviours the model shows that are not a run of their own. What
`request_stream_long_line` finds keeps a reactor from all of its other connections,
where `docs/CONCURRENCY.md` has "No connection is ever fully monopolizing anything":
`LongLineCaptures` proves it, and `ConnectionsServed` excepts the connections of such
a reactor. A PONG from
before a crash is recorded after a request has marked the node down, and marks
it up again, so that the next request to it fails too; `CrashedStaysSuspected`
says that this ends. And a node id given
twice to `kvrouter --nodes` counts twice in `nodes_.size()`, so that the loop of
`get_nodes` can look for more distinct nodes than there are and never ends,
where `hash_ring.hpp` says that it "returns however many exist" of fewer than
`count`. `LookupReturns` is stated for lookups that ask for no more nodes than
are on the ring; without that premise TLC finds it violated.

## Fairness

- Threads that can run are run: weak fairness of a client thread's steps between
  request and response, of the heartbeat, of reactors, of store operations. The
  code has no other scheduler than the operating system's.
- `WF(Resume)`: a process that hung or was cut off runs and is reachable again. There is no timeout on backend
  connections, so without it a request can wait forever; this is the assumption
  under which `EveryRequestAnswered` holds.
- `SF(HandleRequest)`: a node that hangs and resumes again and again still gets
  to the request it was sent. The kernel keeps the request, and a reactor serves
  all ready connections in each scan (`ScanServesEachOnce`).
- A mutex here is granted when it is free; `LocksReleased` is about its holders.
  That a waiting writer gets its turn among readers depends on the library and
  is not claimed.
- Clients owe nothing: no fairness on sending, connecting, reading or leaving. A
  client that does not read its responses may hold up its reactor for ever, as a
  comment in `worker_reactor.cpp` says, and one that sends a line that is too long
  does; `ConnectionsServed` promises service to the connections that are not stalled
  in one of these ways for good. A client that sends without ever pausing, which keeps
  its reactor reading, is outside of the model: each connection of it sends a bounded
  number of requests.

## Proofs

| module | theorem | statement |
|---|---|---|
| `RouterProofs` | `TypeCorrect` | `TypeOK` |
| | `DetectorAccuracy` | a node that never failed is never suspected |
| | `ErrorsAreHonest` | an error means that every replica failed at some time |
| | `ErrorTracesConfined` | and that a store that executed the request, or still will, is that of a node that was cut off |
| | `AcksAreComplete` | OK means that every replica that never failed executed the write |
| | `AcknowledgedKeysSurvive` | acknowledged and never deleted: still there on every such replica |
| | `RequestsAdvance` | a routed request moves along its list only, and waits for no process that is gone |
| | `VerdictsStand` | a right verdict on a node, with nothing stale on its way, stands until the node changes |
| | `ErrorsBeginWithFailures` | no error before the first failure |
| | `RouterLinearizable` | until a primary fails, the router implements `RestartableKV` |
| `KVStoreProofs` | `RaceFreedom` | only readers share a shard |
| | `StoreAtomic` | the sharded store implements `AtomicKV` |
| | `SizeIsExact` | the counter is the number of entries at every instant |
| | `TypeCorrect` | `TypeOK` |
| | `LocksAreShort` | a lock is held for a few statements, none of which waits, and who waits for one waits for its holder |
| `KvServerProofs` | `WakeupsAreNotLost` | a queued connection has a wake-up on its way |
| | `ReactorsOwnDisjointly` | an open descriptor is in exactly one queue or poll set, a closed one in none |
| | `ConnectionsKeepApart` | of the half requests a connection sent, each is counted once: in the kernel, in its parser or handled (order and content are `Connection`'s) |
| | `PassesAreComplete` | a pass serves exactly the connections `poll` reported |
| | `WorkIsTakenUp` | a connection with input has a reactor that is awake or being woken, only a client that does not read stops one, and it gets on with its pass unless it met a line that is too long |
| | `LongLineCaptures` | a reactor that met a line that is too long stays with it until the process ends |
| `HashRingProofs` | `RingCorrect` | the ring is that of the nodes present, for any placement |
| | `LookupsInOrder` | `get_nodes` collects distinct nodes clockwise, beginning with `get_node` |
| | `LookupsComplete` | it returns as many as asked for, or all that are on the ring |
| | `ListsFitRouter` | what it returns is what `RouterAssumption` asks of a preference list |
| | `TypeCorrect` | `TypeOK` |
| | `LookupsAdvance` | a lookup whose list can be completed goes round the ring at most once |
| | `KeysStay` | an addition or removal moves only the keys of that node, or at its positions |
| | `RemapShare` | as many keys move to a new node as it owns afterwards |
| | `ReplicasStay` | a new node displaces at most one replica of a key and brings in no other |
| `ProtocolProofs` | `RequestsRoundTrip` | the request parser takes back what was encoded, if its line is not too long, leaves what follows, and waits for less |
| | `ResponsesRoundTrip` | so does the response parser |
| `RequestStreamProofs` | `OutcomesInOrderHolds` | however whole messages are cut, each is handled once and in order |
| | `NothingStuckHolds` | when all is read and the loop waits, all is handled |
| | `BufferStaysShort` | a waiting parser keeps at most a command line, CR and LF, and a value, whatever is written |
| | `RoundsShorten` | each round of the parsing loop but the last shortens the buffer |
| | `PipelinedRequests` | the first two for what `encode_request` makes of any requests with lines that are not too long |
| `ConnectionProofs` | `ResponseIsOwnHolds` | `send_request` returns the response to its own request |
| | `CleanWhenIdleHolds` | nothing of an exchange is left for the next |
| | `NoProtocolErrorHolds` | the client understands whatever a server writes |
| | `ExchangesAdvance` | client and server never both wait, and each step shortens what is left of the exchange |
| `FailoverBenchProofs` | `FailuresFollowKill` | no failure is counted as one from before the kill |
| | `OutagesAreFlagged` | an outage to the end of the run is never reported as a recovery, if the run is longer than two tail windows |

They hold for any number of clients, nodes, keys, replicas, threads, reactors,
descriptors, chunks, positions, workers and messages, under the named assumptions:
preference lists are nonempty and without repetition (`RouterAssumption`), `None` is no key,
value or thread, keys are finitely many and each has one shard
(`StoreAssumption`), there is at least one reactor and room for one byte in the
pipe (`ServerAssumption`), node ids are finitely many (`HashRingAssumption`),
keys are valid, values are at most 8 symbols long (a numeral is one symbol and one
digit) and a line has room for the three tokens of a SET, but perhaps not for a CR
behind them, as `kMaxCommandLineLen` has it (`ProtocolAssumption`), a key that a
client types is one symbol (`LinesAssumption`), and a line that is too long is the
half of a request that is left at the end (`ServerAssumption`).

*Router.* The invariant has layers, because none of the properties is inductive.
`ThreadInv` says what each place in the code implies for the thread's locals, and
`FaultInv` follows suspicion to its source: a broken connection, a failed ping not
yet recorded, a thread in its catch block and a cleared `alive_` entry all stem
from a failure of that very node, and only nodes of `Cuttable` are ever cut off. `ProgressInv` says that every replica a request went past has
executed it or failed, and which of those that failed may still have it, `LateInv` that a late DELETE was asked for, and `StoreInv`
that a store that executed a SET still holds the key unless someone asked to
delete it. Each layer is proved from the ones before, action by action.
`RouterLinearizable` adds that primaries which have not failed are up, trusted
and connected (`Settled`, which holds while `PrimariesSound` does, since the set
`faulty` only grows), so that the first position of a list is never skipped; then
the step in which the primary executes the request is the abstract step, and
every other step stutters or is an invocation, a return or the end of a router.

*Store.* `RaceFreedom` rests on "a thread inside holds its lock" and "a writer
excludes readers". For `StoreAtomic` and `SizeIsExact` the invariant adds that
what a thread found in the map is still so while it holds the lock; the
refinement mapping counts an entry from the moment its counter update happens.

*Server.* First come what the loop operators do (`Current`, `ScanFrom`,
`SwapRemove`), the types, that a reactor at an entry has a marked one (`ScanInv`),
and the wake-up property, which is nearly inductive by itself. "Exactly one
holder" is then replaced by three facts without cardinalities (`OwnInv`): a free
descriptor is nowhere, an open one somewhere, and two places that hold the same
one are the same place. Above these stand that parsers exist exactly for the polled connections (`ParserInv`), accounts for
every half request (`CountInv`), and that the marked entries are the connections
still due (`DueInv`).

*Ring.* The walk of `get_nodes` is described by the positions it has swept
(`WalkInv`): what it collected are the owners of these positions, in order of
distance from the key. That an addition displaces one replica only is a fact
about the two orders, before and after. `LookupsComplete` compares cardinalities:
the nodes collected are distinct and on the ring, those on the ring are present,
and those present are counted in `nodes_.size()` at least once (`CountInv` has the
count that the lookup took of it). On a ring with a position somebody is present,
so the count is not zero and the list not empty (`ListsFitRouter`).

*Protocol.* `ProtocolProofs` has what the parsers do with what the encoders
make: a proper part of a message is waited on (`RequestPart`, `ResponsePart`),
and a buffer that begins with a whole one gives what was encoded and leaves what
follows (`RequestWhole`, `ResponseWhole`); the two theorems put this together.
In `Connection` at most one message is on its way, so the invariant says whether
it is none, the request or the response (`Quiet`, `Asked`, `Answered`), and that
a stream and the buffer behind it, joined, are that message. In `RequestStream`
any number of messages may be on their way. The invariant says that the buffer
and the wire, joined, are whole messages one behind the other (`Chain`, by the
positions where one ends and the next begins, which needs no recursion), and
that what they mean continues `outcomes` to `expected` (`Agree`).
`BufferStaysShort` needs only that a loop that went back to read did so because
the parser had asked for more.

*`kvfailover`.* Nothing fails before the kill (of the router this is
`ErrorsBeginWithFailures`) and its time is read before it (`KillInv`); a worker
whose last outcome came after the kill of a service that stays out has recorded
a failure no earlier than that outcome, and it leaves its loop at most one tail
window after it (`WorkerInv`). The proof needs `2 * Tail < Duration`, which
`main` does not check: in a shorter run a worker may connect and reach the end
of the run without sending anything, and TLC finds `OutageFlagged` violated
(`Duration = 2`, `Tail = 1`, `KillAt = 0`). With `kTailWindowMs` of 200 this
concerns `--duration-ms` up to 400; the default is 6000.

*What liveness rests on.* "Eventually" is out of the prover's reach, and so is
`ENABLED`; the liveness properties stay with TLC. What is proved, for any instance,
is the part of each that does not mention fairness: a variant that every step makes
smaller, a state that nothing but another failure ends, and that nobody waits for
something that cannot happen.

| liveness property (TLC) | what is proved of it |
|---|---|
| `EveryRequestAnswered` | `RequestsAdvance`: the replicas left and the places left for this one get fewer (`RequestAdvances`, `PosBound`), and a thread in `send_request` has a broken connection or a process at the other end (`NeverStranded`, from `OpenInv`) |
| `CrashedStaysSuspected`, `RecoveredStaysTrusted` | `VerdictsStand`: `Condemned` and `Cleared`, which say what else could still write to `alive_`, are left only when the node changes or, for the first, a new router starts |
| `LocksReleased` | `LocksAreShort`: at most four statements to the unlock (`HoldersAdvance`), with no lock taken inside another (`HeldInside`) |
| `ConnectionsServed` | `WorkIsTakenUp`: no input without a reactor that notices it (`WorkIsNoticed`), no reactor without a next step but for a client that does not read (`OnlyReadersBlock`), and each step brings it closer to the end of its pass unless it is captured by a line that is too long (`PassAdvances`) |
| `LookupReturns` | `LookupsAdvance`: the distance from the key grows and is below `RingSize` |
| `ParseLoopEnds` | `RoundsShorten`: the buffer gets shorter |
| `RequestAnswered` | `ExchangesAdvance`: never both waiting (`NeverBothWait`), and what is left gets shorter (`ExchangeAdvances`) |

Every safety property of a passing run is proved under the assumptions above.
`OutcomesInOrder` and `NothingStuck` have the premise `WholeFrames`, and the
theorems of `Connection` the premise `OnlySendable`; what happens without them is
what `request_stream_long_line` and `connection_rejected_set` show.

## Abstractions

- Clients of the router have one request outstanding, as `kvclient`, `kvbench`
  and `kvfailover` do. Pipelining is covered for the parser by `RequestStream`.
- A node fails by crashing, hanging or being cut off. TCP gives up a connection to a
  node that is cut off only, and the router notices; a connection that only the
  node's end has given up, on which the router's `read()` waits for ever, is not
  modelled. `connect_to` failing in the router itself (`getaddrinfo`, `socket`) is
  the node being cut off for a moment.
- A node that hangs counts as failed, however short its pause: what the properties
  promise of nodes that never failed is not promised of one that is slow.
- The first write on a connection whose other end is gone succeeds and the read
  after it fails; in either case `send_request` throws, which is one step.
- A backend never answers a request of the router with an error: the router
  forwards only what it has parsed itself.
- `ping_once` takes one step, at the instant that decides its result; towards a
  host that is cut off it takes as long as `connect()` does.
- A router or server that ended is started again; a `kvserver` that
  ended in `KvServer` comes back with new connections only, and the loss of its
  store is the crash of a node in `Router`.
- Errors of `read` count as the end of the stream, as in the code.
- Numerals have one digit and the limits on lengths are small. A key is one symbol
  also where `build_request` takes the typed token. The limit on a
  response line is not modelled.
- The hash function is any placement of the virtual nodes.
- Clock values in `FailoverBench` are small integers, and a worker is not kept
  from its next clock reading for longer than the tail window.

## Not modelled

- `FailureDetector::stop`, which only a destructor calls; graceful shutdown does
  not exist.
- The exception of lookups on an empty ring (`kvrouter` refuses an empty node
  list): such a lookup does not start.
- Exceptions of `pipe`, `poll`, `fcntl`, `setsockopt` and of thread creation, which
  end the process.
- Argument parsing, formatting, files, the random workload and the statistics of
  the hash function.

## Open

For the model: preference lists of `Router` computed by `HashRing`'s operators
(the ring is fixed once a router runs); a reactor that serves requests through
`KVStore` and `Protocol`, in place of its half requests; the division of
`kvbench`'s requests among its workers, `compute_percentiles` against a definition
of rank, the timeline buckets of `kvfailover`.
