----------------------------- MODULE Connection -----------------------------
(***************************************************************************)
(* kvclient (src/client/main.cpp) in protocol::send_request, and a server  *)
(* in WorkerReactor::service_client, at the two ends of one connection     *)
(* whose two streams are cut anywhere.  kvbench, kvfailover, the router    *)
(* and the heartbeat call send_request with requests kvclient sends too.   *)
(***************************************************************************)
EXTENDS Protocol

\* What is typed at kvclient: lists of tokens, each a sequence of symbols.
\* The arguments of a process may hold any bytes, or none.
CONSTANT Lines

\* A key is one symbol, whatever its length (SP for an empty one).
ASSUME LinesAssumption == \A line \in Lines : Len(line) >= 2 => Len(line[2]) = 1

VARIABLES
  cpc,       \* the client: "idle", or "wait" in send_request
  creq,      \* its last request
  cbuf,      \* the buffer of its ResponseParser, one per request
  got,       \* the response send_request returned, None before
  toServer,  \* bytes on their way to the server
  toClient,  \* and back
  spc,       \* the server: "read", or "parse" in the inner loop
  sbuf,      \* the buffer of its IncrementalParser
  store,     \* the content of the store, which no other client uses
  due        \* history: the response creq is to get

clientVars == <<cpc, creq, cbuf, got, due>>
serverVars == <<spc, sbuf, store>>
vars == <<clientVars, toServer, toClient, serverVars>>

Init ==
  /\ cpc = "idle" /\ creq = None /\ cbuf = <<>> /\ got = None /\ due = None
  /\ toServer = <<>> /\ toClient = <<>>
  /\ spc = "read" /\ sbuf = <<>>
  /\ store = [k \in Keys |-> None]

\* handle_request()
Answer(r) == IF r.command = "Ping" THEN Plain("Pong") ELSE StoreResponse(r, store[r.key])

\* The tokens of a value, with a space between them.  (Instances have no value
\* with a word right behind the space: as a command line it would be split.)
Joined(tokens) == FoldLeft(LAMBDA text, t : text \o <<SP>> \o t, Head(tokens), Tail(tokens))

\* The words build_request() knows; either case will do.
CommandOf == [GET |-> "Get", get |-> "Get", DELETE |-> "Delete", delete |-> "Delete",
              SET |-> "Set", set |-> "Set", PING |-> "Ping", ping |-> "Ping"]

\* The request a line asks for, None where the code returns false.  Neither
\* the key nor the length of the value is looked at.
build_request(tokens) ==
  LET n == Len(tokens)
      known == n > 0 /\ tokens[1] \in {<<w>> : w \in DOMAIN CommandOf}
      command == IF known THEN CommandOf[tokens[1][1]] ELSE None
  IN  IF command = "Ping" /\ n = 1 THEN Ping
      ELSE IF command \in {"Get", "Delete"} /\ n = 2
      THEN [command |-> command, key |-> tokens[2][1], value |-> None]
      ELSE IF command = "Set" /\ n >= 3
      THEN [command |-> command, key |-> tokens[2][1], value |-> Joined(Dropped(tokens, 2))]
      ELSE None

\* Nobody types a SET that the server rejects, or a key that makes a line too long.
OnlySendable == \A line \in Lines : build_request(line) \in Sendable \cup {None}

\* send_request() up to its loop.
Send(r) ==
  /\ creq' = r
  /\ toServer' = toServer \o encode_request(r)
  /\ due' = IF Acceptable(r) THEN Answer(r) ELSE ErrorResponse
  /\ cbuf' = <<>> /\ got' = None
  /\ cpc' = "wait"
  /\ UNCHANGED <<toClient, serverVars>>

\* The loop of kvclient.  A line that is no request is refused with a message
\* and nothing is sent.
Ask ==
  /\ cpc = "idle"
  /\ \E line \in Lines : build_request(line) # None /\ Send(build_request(line))

ClientRead ==
  /\ cpc = "wait"
  /\ try_parse_response(cbuf).status = "Incomplete"
  /\ \E n \in 1 .. Len(toClient) :
       /\ cbuf' = cbuf \o SubSeq(toClient, 1, n)
       /\ toClient' = Dropped(toClient, n)
  /\ UNCHANGED <<cpc, creq, got, due, toServer, serverVars>>

\* The parser is a local of send_request(): what is left in it is lost.
ClientReturn ==
  /\ cpc = "wait"
  /\ LET p == try_parse_response(cbuf) IN p.status = "Complete" /\ got' = p.parsed
  /\ cbuf' = <<>>
  /\ cpc' = "idle"
  /\ UNCHANGED <<creq, due, toServer, toClient, serverVars>>

ServerRead ==
  /\ spc = "read"
  /\ \E n \in 1 .. Len(toServer) :
       /\ sbuf' = sbuf \o SubSeq(toServer, 1, n)
       /\ toServer' = Dropped(toServer, n)
  /\ spc' = "parse"
  /\ UNCHANGED <<clientVars, toClient, store>>

\* try_parse_request() returns Incomplete.
ServerWait ==
  /\ spc = "parse"
  /\ try_parse_request(sbuf).status = "Incomplete"
  /\ spc' = "read"
  /\ UNCHANGED <<clientVars, toServer, toClient, sbuf, store>>

\* It returns Complete: handle_request() and write_all().
ServerAnswer ==
  /\ spc = "parse"
  /\ LET p == try_parse_request(sbuf) IN
       /\ p.status = "Complete"
       /\ sbuf' = p.rest
       /\ toClient' = toClient \o encode_response(Answer(p.parsed))
       /\ store' = IF p.parsed.command = "Ping" THEN store
                   ELSE [store EXCEPT ![p.parsed.key] = StoreEffect(p.parsed, @)]
  /\ UNCHANGED <<clientVars, toServer, spc>>

\* It returns Error.
ServerReject ==
  /\ spc = "parse"
  /\ LET p == try_parse_request(sbuf) IN p.status = "Error" /\ sbuf' = p.rest
  /\ toClient' = toClient \o encode_response(ErrorResponse)
  /\ UNCHANGED <<clientVars, toServer, spc, store>>

ClientStep == ClientRead \/ ClientReturn
ServerStep == ServerRead \/ ServerWait \/ ServerAnswer \/ ServerReject

Next == Ask \/ ClientStep \/ ServerStep

Spec == Init /\ [][Next]_vars

FairSpec == Spec /\ WF_vars(ClientStep) /\ WF_vars(ServerStep)

-----------------------------------------------------------------------------
(* Properties.                                                             *)

\* The response send_request returns is the one to its own request, with the
\* very value that was stored, however the two streams were cut.  Here and below
\* the premise is OnlySendable: behind a rejected SET comes its value, and a line
\* that is too long is answered with errors without end (ParseLoopEnds).
ResponseIsOwn == cpc = "idle" => got = due

\* Between two requests the connection is clean: nothing of an exchange is
\* left in a stream or a buffer for the next one to find.
CleanWhenIdle == cpc = "idle" => toServer = <<>> /\ toClient = <<>> /\ sbuf = <<>>

\* send_request never throws "protocol error": its parser understands
\* whatever a server writes.
NoProtocolError == try_parse_response(cbuf).status # "Error"

\* Every request gets its response.
RequestAnswered == cpc = "wait" ~> cpc = "idle"
=============================================================================
