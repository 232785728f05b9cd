--------------------------- MODULE RequestStream ---------------------------
(***************************************************************************)
(* One direction of a connection: what a client writes, cut anywhere by    *)
(* the network, fed to an IncrementalParser by the loop that the server    *)
(* (WorkerReactor::service_client) and the router (Router::handle_client)  *)
(* share.  The client does not wait for responses.                         *)
(***************************************************************************)
EXTENDS Protocol

CONSTANTS
  Items,     \* what a client may write: [bytes, outcome], the outcome being
             \*   the request they encode, or None if they are malformed
  MaxItems   \* the number of them

ASSUME StreamAssumption == \A i \in Items : i.bytes \in Text

VARIABLES
  wire,      \* written and not read yet
  buffer,    \* IncrementalParser::buffer_
  pc,        \* "read", or "parse" in the inner loop
  outcomes,  \* what the loop handled: a request, or None for an error
  expected   \* what the client wrote

\* One whole message: a line that is not too long and, behind the line of a SET,
\* as many symbols as it announces and one more.
IsFrame(bytes) ==
  LET end == LineEnd(bytes)
      line == strip_trailing_cr(SubSeq(bytes, 1, end - 1))
      length == IF Len(line) = 3 THEN parse_length(line[3]) ELSE -1
  IN  /\ end # 0 /\ ~LineTooLong(SubSeq(bytes, 1, end - 1))
      /\ Len(bytes) = IF length # -1 /\ line[1] = "SET" /\ is_valid_key(line[2])
                      THEN end + length + 1 ELSE end

\* A client writes whole messages, and expects of each what it gets when it is
\* the only one.
WholeFrames == \A i \in Items : IsFrame(i.bytes) /\ i.outcome = try_parse_request(i.bytes).parsed

vars == <<wire, buffer, pc, outcomes, expected>>

Init == wire = <<>> /\ buffer = <<>> /\ pc = "read" /\ outcomes = <<>> /\ expected = <<>>

ClientWrite ==
  /\ Len(expected) < MaxItems
  /\ \E i \in Items :
       /\ wire' = wire \o i.bytes
       /\ expected' = Append(expected, i.outcome)
  /\ UNCHANGED <<buffer, pc, outcomes>>

\* read() and feed(): any part of what is there.
ReadAndFeed ==
  /\ pc = "read"
  /\ \E n \in 1 .. Len(wire) :
       /\ buffer' = buffer \o SubSeq(wire, 1, n)
       /\ wire' = Dropped(wire, n)
  /\ pc' = "parse"
  /\ UNCHANGED <<outcomes, expected>>

\* The history stops one outcome past the expected ones, which bounds the
\* states of a loop that does not end.
Logged(x) == IF Len(outcomes) > Len(expected) THEN outcomes ELSE Append(outcomes, x)

\* One round of while (try_parse_request() != Incomplete).
Parse ==
  /\ pc = "parse"
  /\ LET p == try_parse_request(buffer) IN
       IF p.status = "Incomplete"
       THEN pc' = "read" /\ UNCHANGED <<buffer, outcomes>>
       ELSE /\ buffer' = p.rest
            /\ outcomes' = Logged(p.parsed)
            /\ UNCHANGED pc
  /\ UNCHANGED <<wire, expected>>

Next == ClientWrite \/ ReadAndFeed \/ Parse

Spec == Init /\ [][Next]_vars

FairSpec == Spec /\ WF_vars(ReadAndFeed) /\ WF_vars(Parse)

-----------------------------------------------------------------------------
(* Properties.                                                             *)

\* However the stream is cut, the loop handles exactly the requests that
\* were written, in order, values with line feeds or commands in them and
\* malformed requests in between included.
OutcomesInOrder == IsPrefix(outcomes, expected)

\* A request is handled as soon as its last byte was read: nothing complete
\* waits in the buffer for more input.
NothingStuck == pc = "read" /\ wire = <<>> => outcomes = expected

\* docs/PROTOCOL.md, Bounds: what waits for more input is at most a command
\* line, or a SET line and its value.  kMaxCommandLineLen counts neither the line
\* feed nor a carriage return before it, and a line that arrives with its line
\* feed is not measured at all: both may be there on top.
BufferBounded == pc = "read" => Len(buffer) <= MaxLineLen + 2 + MaxValueLen

\* The inner loop ends: an Error drops the offending bytes (protocol.hpp),
\* and so gets nearer to Incomplete.
ParseLoopEnds == pc = "parse" ~> pc = "read"
=============================================================================
