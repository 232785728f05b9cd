------------------------------ MODULE KvServer ------------------------------
(***************************************************************************)
(* The threads and connections of one server process: the accept loop      *)
(* (src/server/server.cpp), which hands connections over to the reactors   *)
(* in turn, and the reactors (src/server/worker_reactor.cpp), each a       *)
(* poll() loop that owns its connections, their parsers, and a pipe that   *)
(* the accept loop writes to when it queued a connection.                  *)
(*                                                                         *)
(* The input of a connection is counted in halves of requests, so that a   *)
(* request may be cut by a read and its first half wait in the parser; its *)
(* output in chunks of a response, which wait in the kernel until the      *)
(* client reads them.  The last half that a client sends may be a line     *)
(* without an end that is too long for the parser.  A client may leave at  *)
(* any time.  Nothing in the program changes what SIGPIPE does, so that a  *)
(* write to a connection that was reset may end the process.               *)
(***************************************************************************)
EXTENDS Integers, Sequences, FiniteSets

CONSTANTS
  NumReactors,  \* num_threads
  Fds,          \* the descriptor numbers accept() may return
  PipeSize,     \* bytes the wakeup pipe holds before write() says EAGAIN
  MaxHalves,    \* MaxHalves[f]: what a client sends on connection f, at most
  LongLines,    \* connections on which the last half is longer than
                \*   kMaxCommandLineLen, and its line feed not there with it
  ResponseSize, \* chunks of a response
  SendBuffer    \* chunks the kernel holds before write() says EAGAIN

ASSUME ServerAssumption ==
  /\ NumReactors \in Nat \ {0}
  /\ Fds \subseteq Nat
  /\ PipeSize \in Nat \ {0}
  /\ MaxHalves \in [Fds -> Nat]
  /\ LongLines \subseteq Fds /\ \A f \in LongLines : MaxHalves[f] % 2 = 1
  /\ ResponseSize \in Nat \ {0}
  /\ SendBuffer \in Nat \ {0}

Reactors == 0 .. NumReactors - 1

VARIABLES
  up,        \* the process runs
  \* The kernel's side of each descriptor.
  sock,      \* "free", "open", "eof" once the client closed it, "reset" once
             \*   the client's host refused what the server sent
  inbox,     \* halves of requests received and not read yet
  outbox,    \* chunks written that the client did not read yet
  sent,      \* halves the client sent on this connection so far
  answered,  \* requests answered on this connection so far
  \* The accept loop.
  apc,       \* "accept" or "wake"
  next,      \* next_reactor_
  \* Each reactor.
  pending,   \* pending_clients_
  pipe,      \* bytes in the wakeup pipe
  rpc,       \* "poll", "drain", "take", "scan", "serve", "write" or "remove"
  polled,    \* poll_fds_ after its first entry: [fd, ready], where
             \*   ready marks the entries this pass has still to serve
  parser,    \* parsers_: halves in the buffer, -1 without a parser
  unsent,    \* chunks that write_all() still has to write
  due        \* history: connections the last poll() reported, not served yet

kernelVars == <<up, sock, inbox, outbox, sent, answered>>
acceptVars == <<apc, next>>
reactorVars == <<pending, pipe, rpc, polled, parser, unsent, due>>
vars == <<kernelVars, acceptVars, reactorVars>>

Nothing == [f \in Fds |-> 0]

Init ==
  /\ up = TRUE
  /\ sock = [f \in Fds |-> "free"]
  /\ inbox = Nothing /\ outbox = Nothing /\ sent = Nothing /\ answered = Nothing
  /\ apc = "accept" /\ next = 0
  /\ pending = [r \in Reactors |-> <<>>]
  /\ pipe = [r \in Reactors |-> 0]
  /\ rpc = [r \in Reactors |-> "poll"]
  /\ polled = [r \in Reactors |-> <<>>]
  /\ parser = [r \in Reactors |-> [f \in Fds |-> -1]]
  /\ unsent = [r \in Reactors |-> 0]
  /\ due = [r \in Reactors |-> {}]

-----------------------------------------------------------------------------
(* Clients.                                                                *)

Send(f) ==
  /\ sock[f] = "open"
  /\ sent[f] < MaxHalves[f]
  /\ inbox' = [inbox EXCEPT ![f] = @ + 1]
  /\ sent' = [sent EXCEPT ![f] = @ + 1]
  /\ UNCHANGED <<up, sock, outbox, answered, acceptVars, reactorVars>>

Receive(f) ==
  /\ sock[f] = "open"
  /\ outbox[f] > 0
  /\ outbox' = [outbox EXCEPT ![f] = @ - 1]
  /\ UNCHANGED <<up, sock, inbox, sent, answered, acceptVars, reactorVars>>

\* close() by the client resets a connection that still has data for it.
Hangup(f) ==
  /\ sock[f] = "open"
  /\ sock' = [sock EXCEPT ![f] = IF outbox[f] = 0 THEN "eof" ELSE "reset"]
  /\ outbox' = [outbox EXCEPT ![f] = 0]
  /\ UNCHANGED <<up, inbox, sent, answered, acceptVars, reactorVars>>

-----------------------------------------------------------------------------
(* The accept loop: KvServer::run and WorkerReactor::enqueue_client.       *)

\* accept() returns the lowest descriptor number that is not in use; the accept
\* loop alone knows it until it is in the queue of the next reactor.
Accept(f) ==
  /\ apc = "accept"
  /\ sock[f] = "free"
  /\ \A g \in Fds : g < f => sock[g] # "free"
  /\ sock' = [sock EXCEPT ![f] = "open"]
  /\ pending' = [pending EXCEPT ![next] = Append(@, f)]
  /\ apc' = "wake"
  /\ UNCHANGED <<up, inbox, outbox, sent, answered, next, pipe, rpc, polled, parser, unsent, due>>

\* write() of one byte; a full pipe refuses it.
Wake ==
  /\ apc = "wake"
  /\ pipe' = [pipe EXCEPT ![next] = IF @ < PipeSize THEN @ + 1 ELSE @]
  /\ next' = (next + 1) % NumReactors
  /\ apc' = "accept"
  /\ UNCHANGED <<kernelVars, pending, rpc, polled, parser, unsent, due>>

-----------------------------------------------------------------------------
(* A reactor: WorkerReactor::run.                                          *)

\* Mutant: a hangup is not an event.
ReadableIgnoringHangup(f) == inbox[f] > 0

\* POLLIN, or POLLHUP or POLLERR once the client left.
Gone(f) == sock[f] \in {"eof", "reset"}
Readable(f) == inbox[f] > 0 \/ Gone(f)
ReadyFds(r) == {f \in Fds : Readable(f) /\ \E i \in DOMAIN polled[r] : polled[r][i].fd = f}

\* poll() returns with the readable descriptors marked; it blocks while
\* there is none.
Poll(r) ==
  /\ rpc[r] = "poll"
  /\ pipe[r] > 0 \/ ReadyFds(r) # {}
  /\ polled' = [polled EXCEPT ![r] =
       [i \in DOMAIN @ |-> [fd |-> @[i].fd, ready |-> Readable(@[i].fd)]]]
  /\ due' = [due EXCEPT ![r] = ReadyFds(r)]
  /\ rpc' = [rpc EXCEPT ![r] = IF pipe[r] > 0 THEN "drain" ELSE "scan"]
  /\ UNCHANGED <<kernelVars, acceptVars, pending, pipe, parser, unsent>>

\* drain_wakeup_pipe()
Drain(r) ==
  /\ rpc[r] = "drain"
  /\ pipe' = [pipe EXCEPT ![r] = 0]
  /\ rpc' = [rpc EXCEPT ![r] = "take"]
  /\ UNCHANGED <<kernelVars, acceptVars, pending, polled, parser, unsent, due>>

\* The loop goes on with the entries s from index i, and back to poll() when
\* none of them is marked.  It never looks back: marks before i are dropped.
ScanFrom(r, s, i) ==
  LET marked == {j \in i .. Len(s) : s[j].ready} IN
    /\ polled' = [polled EXCEPT ![r] =
         [j \in DOMAIN s |-> [fd |-> s[j].fd, ready |-> j \in marked]]]
    /\ rpc' = [rpc EXCEPT ![r] = IF marked = {} THEN "poll" ELSE "scan"]

NewEntries(r) == [i \in DOMAIN pending[r] |-> [fd |-> pending[r][i], ready |-> FALSE]]

\* emplace() leaves a parser that is there alone.
AddParsers(r) ==
  parser' = [parser EXCEPT ![r] =
    [f \in Fds |-> IF parser[r][f] = -1 /\ \E i \in DOMAIN pending[r] : pending[r][i] = f
                   THEN 0 ELSE parser[r][f]]]

\* Mutant: the queue is copied rather than swapped out.
TakeCopy(r) ==
  /\ rpc[r] = "take"
  /\ AddParsers(r)
  /\ ScanFrom(r, polled[r] \o NewEntries(r), 1)
  /\ UNCHANGED <<kernelVars, acceptVars, pending, pipe, unsent, due>>

\* accept_pending_clients()
Take(r) ==
  /\ rpc[r] = "take"
  /\ pending' = [pending EXCEPT ![r] = <<>>]
  /\ AddParsers(r)
  /\ ScanFrom(r, polled[r] \o NewEntries(r), 1)
  /\ UNCHANGED <<kernelVars, acceptVars, pipe, unsent, due>>

\* The loop index i: those with nothing in revents are passed over.
Marked(r) == {j \in DOMAIN polled[r] : polled[r][j].ready}
Current(r) == CHOOSE i \in Marked(r) : \A j \in Marked(r) : i <= j
Entry(r) == polled[r][Current(r)]

(* service_client(i).                                                      *)

\* read() returns data, which is fed to the parser.
ReadInput(r) ==
  /\ rpc[r] = "scan"
  /\ LET f == Entry(r).fd IN
       /\ inbox[f] > 0
       /\ parser' = [parser EXCEPT ![r][f] = @ + inbox[f]]
       /\ inbox' = [inbox EXCEPT ![f] = 0]
  /\ rpc' = [rpc EXCEPT ![r] = "serve"]
  /\ UNCHANGED <<up, sock, outbox, sent, answered, acceptVars, pending, pipe, polled, unsent, due>>

\* The next request in the parser: handle_request() makes its response.
Handle(r) ==
  /\ rpc[r] = "serve"
  /\ parser[r][Entry(r).fd] >= 2
  /\ parser' = [parser EXCEPT ![r][Entry(r).fd] = @ - 2]
  /\ answered' = [answered EXCEPT ![Entry(r).fd] = @ + 1]
  /\ unsent' = [unsent EXCEPT ![r] = ResponseSize]
  /\ rpc' = [rpc EXCEPT ![r] = "write"]
  /\ UNCHANGED <<up, sock, inbox, outbox, sent, acceptVars, pending, pipe, polled, due>>

\* What is left in the parser is a line that is too long.
LineTooLong(r, f) ==
  /\ f \in LongLines /\ sent[f] = MaxHalves[f]
  /\ inbox[f] = 0 /\ parser[r][f] = 1

\* try_parse_request() says Error and leaves the line where it is, to be found
\* again.
RejectLine(r) ==
  /\ rpc[r] = "serve"
  /\ LineTooLong(r, Entry(r).fd)
  /\ unsent' = [unsent EXCEPT ![r] = ResponseSize]
  /\ rpc' = [rpc EXCEPT ![r] = "write"]
  /\ UNCHANGED <<kernelVars, acceptVars, pending, pipe, polled, parser, due>>

\* try_parse_request() says Incomplete.
ParsedAll(r) ==
  /\ rpc[r] = "serve"
  /\ parser[r][Entry(r).fd] < 2
  /\ ~LineTooLong(r, Entry(r).fd)

(* write_all(fd, response): one write() per step.                          *)

Writing(r, f) == rpc[r] = "write" /\ Entry(r).fd = f

\* write_all() returns once there are k chunks left to write and k = 0.
LeaveUnsent(r, k) ==
  /\ unsent' = [unsent EXCEPT ![r] = k]
  /\ rpc' = [rpc EXCEPT ![r] = IF k = 0 THEN "serve" ELSE "write"]
  /\ UNCHANGED <<inbox, sent, answered, acceptVars, pending, pipe, polled, parser, due>>

\* While the send buffer is full, write_all() waits in poll(POLLOUT).
WriteChunk(r, f) ==
  /\ Writing(r, f)
  /\ sock[f] = "open" /\ outbox[f] < SendBuffer
  /\ outbox' = [outbox EXCEPT ![f] = @ + 1]
  /\ LeaveUnsent(r, unsent[r] - 1)
  /\ UNCHANGED <<up, sock>>

\* The kernel takes what is written to a client that left; sooner or later
\* the client's host answers with a reset.
WriteToLeaver(r, f) ==
  /\ Writing(r, f)
  /\ sock[f] = "eof"
  /\ \E s \in {"eof", "reset"} : sock' = [sock EXCEPT ![f] = s]
  /\ LeaveUnsent(r, unsent[r] - 1)
  /\ UNCHANGED <<up, outbox>>

\* write() fails with ECONNRESET and write_all() returns.
WriteFails(r, f) ==
  /\ Writing(r, f)
  /\ sock[f] = "reset"
  /\ LeaveUnsent(r, 0)
  /\ UNCHANGED <<up, sock, outbox>>

\* write() fails with EPIPE, and SIGPIPE ends the process: its memory and all
\* of its connections are gone.
WriteRaisesSignal(r, f) ==
  /\ Writing(r, f)
  /\ sock[f] = "reset"
  /\ up' = FALSE
  /\ sock' = [g \in Fds |-> "free"]
  /\ inbox' = Nothing /\ outbox' = Nothing /\ sent' = Nothing /\ answered' = Nothing
  /\ apc' = "accept" /\ next' = 0
  /\ pending' = [q \in Reactors |-> <<>>]
  /\ pipe' = [q \in Reactors |-> 0]
  /\ rpc' = [q \in Reactors |-> "poll"]
  /\ polled' = [q \in Reactors |-> <<>>]
  /\ parser' = [q \in Reactors |-> [g \in Fds |-> -1]]
  /\ unsent' = [q \in Reactors |-> 0]
  /\ due' = [q \in Reactors |-> {}]

\* Somebody starts the server again.
StartAgain ==
  /\ ~up
  /\ up' = TRUE
  /\ UNCHANGED <<sock, inbox, outbox, sent, answered, acceptVars, reactorVars>>

\* No complete request is left and the read was short: service_client()
\* returns.
EndShortRead(r) ==
  /\ ParsedAll(r)
  /\ ScanFrom(r, polled[r], Current(r) + 1)
  /\ due' = [due EXCEPT ![r] = @ \ {Entry(r).fd}]
  /\ UNCHANGED <<kernelVars, acceptVars, pending, pipe, parser, unsent>>

\* The read filled the buffer: service_client() reads again.
ReadAgain(r) ==
  /\ ParsedAll(r)
  /\ rpc' = [rpc EXCEPT ![r] = "scan"]
  /\ UNCHANGED <<kernelVars, acceptVars, pending, pipe, polled, parser, unsent, due>>

\* read() says EAGAIN.
ReadNothing(r) ==
  /\ rpc[r] = "scan"
  /\ ~Readable(Entry(r).fd)
  /\ ScanFrom(r, polled[r], Current(r) + 1)
  /\ due' = [due EXCEPT ![r] = @ \ {Entry(r).fd}]
  /\ UNCHANGED <<kernelVars, acceptVars, pending, pipe, parser, unsent>>

\* Mutant: close_client() keeps the parser.
CloseKeepingParser(r) ==
  /\ rpc[r] = "scan"
  /\ LET f == Entry(r).fd IN
       /\ Gone(f) /\ inbox[f] = 0
       /\ sock' = [sock EXCEPT ![f] = "free"]
       /\ sent' = [sent EXCEPT ![f] = 0]
       /\ answered' = [answered EXCEPT ![f] = 0]
       /\ due' = [due EXCEPT ![r] = @ \ {f}]
  /\ rpc' = [rpc EXCEPT ![r] = "remove"]
  /\ UNCHANGED <<up, inbox, outbox, acceptVars, pending, pipe, polled, parser, unsent>>

\* read() returns 0 or ECONNRESET; close_client() erases the parser and closes
\* the descriptor: from here on accept() may return the same number again.
Close(r) ==
  /\ rpc[r] = "scan"
  /\ LET f == Entry(r).fd IN
       /\ Gone(f) /\ inbox[f] = 0
       /\ sock' = [sock EXCEPT ![f] = "free"]
       /\ sent' = [sent EXCEPT ![f] = 0]
       /\ answered' = [answered EXCEPT ![f] = 0]
       /\ parser' = [parser EXCEPT ![r][f] = -1]
       /\ due' = [due EXCEPT ![r] = @ \ {f}]
  /\ rpc' = [rpc EXCEPT ![r] = "remove"]
  /\ UNCHANGED <<up, inbox, outbox, acceptVars, pending, pipe, polled, unsent>>

\* poll_fds_[poll_index] = poll_fds_.back(); poll_fds_.pop_back();
SwapRemove(s, i) == [j \in 1 .. Len(s) - 1 |-> IF j = i THEN s[Len(s)] ELSE s[j]]

\* Mutant: the loop moves on past the entry that filled the gap.
RemoveAndAdvance(r) ==
  /\ rpc[r] = "remove"
  /\ ScanFrom(r, SwapRemove(polled[r], Current(r)), Current(r) + 1)
  /\ UNCHANGED <<kernelVars, acceptVars, pending, pipe, parser, unsent, due>>

\* The rest of close_client(); the loop index stays.
Remove(r) ==
  /\ rpc[r] = "remove"
  /\ ScanFrom(r, SwapRemove(polled[r], Current(r)), Current(r))
  /\ UNCHANGED <<kernelVars, acceptVars, pending, pipe, parser, unsent, due>>

-----------------------------------------------------------------------------
Service(r) ==
  \/ ReadInput(r) \/ Handle(r) \/ RejectLine(r)
  \/ EndShortRead(r) \/ ReadAgain(r) \/ ReadNothing(r) \/ Close(r)
  \/ \E f \in Fds : \/ WriteChunk(r, f) \/ WriteToLeaver(r, f)
                    \/ WriteFails(r, f) \/ WriteRaisesSignal(r, f)

Scan(r) == Service(r) \/ Remove(r)

AcceptLoop == (\E f \in Fds : Accept(f)) \/ Wake

\* Mutant: pending connections are taken first and the pipe drained second.
TakeThenDrainStep(r) ==
  \/ /\ rpc[r] = "drain"
     /\ polled' = [polled EXCEPT ![r] = @ \o NewEntries(r)]
     /\ AddParsers(r)
     /\ pending' = [pending EXCEPT ![r] = <<>>]
     /\ rpc' = [rpc EXCEPT ![r] = "take"]
     /\ UNCHANGED <<kernelVars, acceptVars, pipe, unsent, due>>
  \/ /\ rpc[r] = "take"
     /\ pipe' = [pipe EXCEPT ![r] = 0]
     /\ ScanFrom(r, polled[r], 1)
     /\ UNCHANGED <<kernelVars, acceptVars, pending, parser, unsent, due>>
  \/ Poll(r) \/ Scan(r)

ReactorStep(r) == Poll(r) \/ Drain(r) \/ Take(r) \/ Scan(r)

Client(f) == Send(f) \/ Receive(f) \/ Hangup(f)

Next ==
  \/ /\ up
     /\ \/ \E f \in Fds : Client(f)
        \/ AcceptLoop
        \/ \E r \in Reactors : ReactorStep(r)
  \/ StartAgain

Spec == Init /\ [][Next]_vars

\* The operating system runs every thread that can run.
FairSpec ==
  /\ Spec
  /\ WF_vars(up /\ Wake)
  /\ \A r \in Reactors : WF_vars(up /\ ReactorStep(r))

-----------------------------------------------------------------------------
(* Properties.                                                             *)

\* The states of each variable.
TypeOK ==
  /\ up \in BOOLEAN
  /\ sock \in [Fds -> {"free", "open", "eof", "reset"}]
  /\ inbox \in [Fds -> Nat] /\ sent \in [Fds -> Nat]
  /\ outbox \in [Fds -> 0 .. SendBuffer]
  /\ answered \in [Fds -> Nat]
  /\ \A f \in Fds : inbox[f] <= sent[f] /\ sent[f] <= MaxHalves[f]
  /\ apc \in {"accept", "wake"} /\ next \in Reactors
  /\ pending \in [Reactors -> Seq(Fds)]
  /\ pipe \in [Reactors -> 0 .. PipeSize]
  /\ rpc \in [Reactors -> {"poll", "drain", "take", "scan", "serve", "write", "remove"}]
  /\ polled \in [Reactors -> Seq([fd : Fds, ready : BOOLEAN])]
  /\ parser \in [Reactors -> [Fds -> Nat \cup {-1}]]
  /\ unsent \in [Reactors -> 0 .. ResponseSize]
  /\ due \in [Reactors -> SUBSET Fds]

\* A connection waiting in pending_clients_ never has its reactor asleep:
\* there is a byte in the pipe, or the accept loop is about to write one, or
\* the reactor is about to take the connection.
NoLostWakeup ==
  \A r \in Reactors :
    pending[r] # <<>> => pipe[r] > 0 \/ (apc = "wake" /\ next = r) \/ rpc[r] = "take"

\* Where the server holds descriptor f: in a queue or in a poll set, but for
\* the entry that close_client() is removing.
Queued(r, i, f) == i \in DOMAIN pending[r] /\ pending[r][i] = f
Polled(r, i, f) ==
  i \in DOMAIN polled[r] /\ polled[r][i].fd = f /\ ~(rpc[r] = "remove" /\ i = Current(r))
Holders(f) ==
  UNION {{<<"pending", r, i>> : i \in {j \in DOMAIN pending[r] : Queued(r, j, f)}}
           \cup {<<"polled", r, i>> : i \in {j \in DOMAIN polled[r] : Polled(r, j, f)}}
         : r \in Reactors}

\* Reactors own disjoint sets of connections: an open descriptor is held in
\* exactly one place, a closed one in none, however often its number is used.
OwnedOnce ==
  \A f \in Fds : Cardinality(Holders(f)) = IF sock[f] = "free" THEN 0 ELSE 1

\* Every connection gets as many answers as it sent whole requests: what it sent
\* is in the kernel, in its parser or answered, and nothing that a previous
\* connection of the same descriptor number left behind is counted with it.  The
\* errors that a line gets that is too long are on top.
AnswersOwnRequests ==
  \A f \in Fds : sock[f] # "free" =>
    /\ 2 * answered[f] + inbox[f] <= sent[f]
    /\ \A r \in Reactors :
         parser[r][f] # -1 => sent[f] = inbox[f] + parser[r][f] + 2 * answered[f]

\* One pass over poll_fds_ serves each connection poll() reported exactly
\* once, although close_client() moves the last entry into the gap.
ScanServesEachOnce ==
  \A r \in Reactors :
    /\ rpc[r] = "poll" => due[r] = {}
    /\ rpc[r] \in {"scan", "serve", "write"} =>
         due[r] = {polled[r][i].fd : i \in Marked(r)}

\* A reactor waits for a client that does not read.
Blocked(r) ==
  \E f \in Fds : Writing(r, f) /\ sock[f] = "open" /\ outbox[f] = SendBuffer

\* A reactor writes one error after the other about a line that is too long.
Captured(r) == rpc[r] \in {"serve", "write"} /\ LineTooLong(r, Entry(r).fd)

\* The reactor that has connection f does either.
Stalled(f) ==
  \E r \in Reactors :
    /\ Blocked(r) \/ Captured(r)
    /\ \/ \E i \in DOMAIN pending[r] : pending[r][i] = f
       \/ \E i \in DOMAIN polled[r] : polled[r][i].fd = f

\* What a client sent is read, and once it left its connection is closed, from
\* whatever moment that happens: while the connection is queued, taken over or
\* polled.  A client that does not read its responses delays the connections of
\* its own reactor only, and only until it reads or leaves; one that sends a line
\* that is too long keeps that reactor, and no other, for good.
ConnectionsServed ==
  \A f \in Fds : []<>(~Stalled(f)) =>
    (inbox[f] > 0 \/ Gone(f) ~> (inbox[f] = 0 /\ ~Gone(f)) \/ ~up)
=============================================================================
