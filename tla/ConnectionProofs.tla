-------------------------- MODULE ConnectionProofs --------------------------
(***************************************************************************)
(* Proofs about Connection.tla, for any keys and values and any cut of the *)
(* two streams, as long as nobody types a SET that the server rejects or a *)
(* key that makes a line too long (OnlySendable).                          *)
(***************************************************************************)
EXTENDS Connection, ProtocolProofs

-----------------------------------------------------------------------------
(* One exchange at a time.                                                 *)

\* Nothing is under way, and the last request has had its response.
Quiet == sbuf = <<>> /\ toServer = <<>> /\ cbuf = <<>> /\ toClient = <<>> /\ got = due

\* The request is under way: what the server has of it and what is still to
\* come make it up.
Asked ==
  /\ creq \in Sendable /\ sbuf \o toServer = encode_request(creq)
  /\ cbuf = <<>> /\ toClient = <<>>
  /\ due = IF Acceptable(creq) THEN Answer(creq) ELSE ErrorResponse

\* The response is under way.
Answered ==
  /\ sbuf = <<>> /\ toServer = <<>>
  /\ due \in Response /\ cbuf \o toClient = encode_response(due)

BufferType == cbuf \in Text /\ toClient \in Text /\ sbuf \in Text /\ toServer \in Text

\* The inductive invariant.
IInv ==
  /\ BufferType
  /\ store \in [Keys -> Values \cup {None}]
  /\ \/ cpc = "idle" /\ Quiet
     \/ cpc = "wait" /\ (Asked \/ Answered)

\* A message and nothing else.
LEMMA NothingFollows ==
  ASSUME NEW e \in Text
  PROVE  Begins(e, e, <<>>)
<1>1. <<>> \in Text /\ e \o <<>> = e
  BY DEF Text
<1>2. Begins(e \o <<>>, e, <<>>)
  BY <1>1, FrontOf, Zenon
<1> QED BY <1>1, <1>2, Zenon

\* The part of a request that has arrived is not parsed before it is the whole.
LEMMA RequestParsed ==
  ASSUME NEW r \in Sendable, NEW buf \in Text, NEW rest \in Text, buf \o rest = encode_request(r)
  PROVE  /\ rest # <<>> => try_parse_request(buf).status = "Incomplete"
         /\ rest = <<>> => try_parse_request(buf) = IF Acceptable(r) THEN Complete(r, <<>>)
                                                   ELSE Failure(<<>>)
<1>1. ASSUME rest = <<>> PROVE Begins(buf, encode_request(r), <<>>)
  <2>1. buf \o <<>> = buf
    BY DEF Text
  <2>2. buf = encode_request(r)
    BY <1>1, <2>1, Zenon
  <2> QED BY <2>2, NothingFollows, Zenon
<1>2. rest # <<>> => try_parse_request(buf).status = "Incomplete"
  BY RequestPart, Zenon
<1> QED BY <1>1, <1>2, RequestWhole, Zenon

\* Nor is the part of a response.
LEMMA ResponseParsed ==
  ASSUME NEW d \in Response, NEW buf \in Text, NEW rest \in Text, buf \o rest = encode_response(d)
  PROVE  /\ rest # <<>> => try_parse_response(buf).status = "Incomplete"
         /\ rest = <<>> => try_parse_response(buf) = Complete(d, <<>>)
<1>1. ASSUME rest = <<>> PROVE Begins(buf, encode_response(d), <<>>)
  <2>1. buf \o <<>> = buf
    BY DEF Text
  <2>2. buf = encode_response(d)
    BY <1>1, <2>1, Zenon
  <2> QED BY <2>2, NothingFollows, Zenon
<1>2. rest # <<>> => try_parse_response(buf).status = "Incomplete"
  BY ResponsePart, Zenon
<1> QED BY <1>1, <1>2, ResponseWhole, Zenon

\* What the store answers is a response, and it keeps a value for each key.
LEMMA AnswerIs ==
  ASSUME NEW r \in Sendable, Acceptable(r), store \in [Keys -> Values \cup {None}]
  PROVE  /\ Answer(r) \in Response
         /\ r.command # "Ping" =>
              [store EXCEPT ![r.key] = StoreEffect(r, @)] \in [Keys -> Values \cup {None}]
<1>1. CASE r = Ping
  BY <1>1, Zenon DEF Answer, Ping, Plain, Response
<1>2. CASE r # Ping
  <2>1. r.command # "Ping" /\ r.key \in Keys /\ (r.command = "Set" => r.value \in Values)
    BY <1>2, Zenon DEF Sendable, Acceptable, is_valid_key
  <2>2. store[r.key] \in Values \cup {None}
    BY <2>1
  <2>3. Answer(r) \in Response
    BY <2>1, <2>2 DEF Answer, StoreResponse, Plain, Response
  <2>4. StoreEffect(r, store[r.key]) \in Values \cup {None}
    BY <2>1, <2>2 DEF StoreEffect
  <2> QED BY <2>3, <2>4, Zenon
<1> QED BY <1>1, <1>2

\* A connection starts with nothing asked and nothing sent.
LEMMA InitIInv == Init => IInv
<1> SUFFICES ASSUME Init PROVE IInv
  BY Zenon
<1>1. <<>> \in Text
  BY DEF Text
<1>2. BufferType
  BY <1>1 DEF Init, BufferType
<1>3. cpc = "idle" /\ Quiet
  BY DEF Init, Quiet
<1>4. store \in [Keys -> Values \cup {None}]
  BY DEF Init
<1> QED BY <1>2, <1>3, <1>4, Zenon DEF IInv

\* A request of the client's own is all there is on the way.
LEMMA AskStep == OnlySendable /\ IInv /\ Ask => IInv'
<1> SUFFICES ASSUME OnlySendable, IInv, Ask PROVE IInv'
  BY Zenon
<1>1. PICK line \in Lines : build_request(line) # None /\ Send(build_request(line))
  BY DEF Ask
<1> DEFINE r == build_request(line)
<1>2. r \in Sendable
  BY <1>1 DEF OnlySendable
<1>3. Send(r)
  BY <1>1
<1> HIDE DEF r
<1>4. cpc = "idle" /\ Quiet
  BY DEF IInv, Ask
<1>5. encode_request(r) \in Text
  BY <1>2, RequestText, Zenon
<1>6. PICK e \in Text : e = encode_request(r)
  BY <1>5, Zenon
<1>7. /\ creq' = r /\ toServer' = <<>> \o e /\ sbuf' = <<>> /\ cbuf' = <<>> /\ toClient' = <<>>
      /\ cpc' = "wait" /\ store' = store
      /\ due' = IF Acceptable(r) THEN Answer(r) ELSE ErrorResponse
  BY <1>3, <1>4, <1>6 DEF Send, Quiet, serverVars
<1>8. <<>> \in Text /\ <<>> \o e = e
  BY DEF Text
<1>9. BufferType'
  BY <1>7, <1>8 DEF BufferType
<1>10. Asked'
  <2>1. sbuf' \o toServer' = e
    BY <1>7, <1>8, Zenon
  <2>2. due' = IF Acceptable(creq') THEN Answer(creq)' ELSE ErrorResponse
    BY <1>7, Zenon DEF Answer
  <2> QED BY <1>2, <1>6, <1>7, <2>1, <2>2, Zenon DEF Asked
<1>11. store' \in [Keys -> Values \cup {None}]
  BY <1>7 DEF IInv
<1> QED BY <1>7, <1>9, <1>10, <1>11, Zenon DEF IInv

\* The client reads a part of the response, and only of a response.
LEMMA ClientReadStep == IInv /\ ClientRead => IInv'
<1> SUFFICES ASSUME IInv, ClientRead PROVE IInv'
  BY Zenon
<1>1. PICK n \in 1 .. Len(toClient) : cbuf' = cbuf \o SubSeq(toClient, 1, n) /\ toClient' = Dropped(toClient, n)
  BY Zenon DEF ClientRead
<1>2. cpc = "wait" /\ cpc' = "wait" /\ UNCHANGED <<creq, due, toServer, sbuf, store>>
  BY Zenon DEF ClientRead, serverVars
<1>3. BufferType
  BY DEF IInv
<1>4. cbuf' \in Text /\ toClient' \in Text /\ cbuf' \o toClient' = cbuf \o toClient
  <2>1. cbuf \in Text /\ toClient \in Text
    BY <1>3, Zenon DEF BufferType
  <2> QED BY <1>1, <2>1, Moved, Zenon
<1>5. Answered
  <2>1. toClient # <<>>
    BY <1>1
  <2> QED BY <1>2, <2>1 DEF IInv, Asked
<1>6. Answered'
  BY <1>2, <1>4, <1>5, Zenon DEF Answered
<1>7. BufferType'
  BY <1>2, <1>3, <1>4, Zenon DEF BufferType
<1>8. store' \in [Keys -> Values \cup {None}]
  BY <1>2, Zenon DEF IInv
<1> QED BY <1>2, <1>6, <1>7, <1>8, Zenon DEF IInv

\* send_request() returns the whole response, and so nothing is left of it.
LEMMA ClientReturnStep == IInv /\ ClientReturn => IInv'
<1> SUFFICES ASSUME IInv, ClientReturn PROVE IInv'
  BY Zenon
<1>1. /\ cpc = "wait" /\ cpc' = "idle" /\ cbuf' = <<>>
      /\ UNCHANGED <<creq, due, toServer, toClient, sbuf, store>>
      /\ try_parse_response(cbuf).status = "Complete" /\ got' = try_parse_response(cbuf).parsed
  BY DEF ClientReturn, serverVars
<1>2. BufferType
  BY DEF IInv
<1>3. Answered
  <2>1. cbuf # <<>>
    BY <1>1, NothingParsed, Zenon
  <2> QED BY <1>1, <2>1 DEF IInv, Asked
<1>4. /\ toClient # <<>> => try_parse_response(cbuf).status = "Incomplete"
      /\ toClient = <<>> => try_parse_response(cbuf) = Complete(due, <<>>)
  BY <1>2, <1>3, ResponseParsed, Zenon DEF BufferType, Answered
<1>5. toClient = <<>> /\ got' = due
  BY <1>1, <1>4 DEF Complete
<1>6. Quiet'
  BY <1>1, <1>3, <1>5, Zenon DEF Quiet, Answered
<1>7. BufferType'
  <2>1. <<>> \in Text
    BY DEF Text
  <2> QED BY <1>1, <1>2, <2>1 DEF BufferType
<1>8. store' \in [Keys -> Values \cup {None}]
  BY <1>1 DEF IInv
<1> QED BY <1>1, <1>6, <1>7, <1>8, Zenon DEF IInv

\* The server reads a part of the request, and only of a request.
LEMMA ServerReadStep == IInv /\ ServerRead => IInv'
<1> SUFFICES ASSUME IInv, ServerRead PROVE IInv'
  BY Zenon
<1>1. PICK n \in 1 .. Len(toServer) : sbuf' = sbuf \o SubSeq(toServer, 1, n) /\ toServer' = Dropped(toServer, n)
  BY Zenon DEF ServerRead
<1>2. UNCHANGED <<cpc, creq, cbuf, due, toClient, store>>
  BY DEF ServerRead, clientVars
<1>3. BufferType
  BY DEF IInv
<1>4. sbuf' \in Text /\ toServer' \in Text /\ sbuf' \o toServer' = sbuf \o toServer
  <2>1. sbuf \in Text /\ toServer \in Text
    BY <1>3, Zenon DEF BufferType
  <2> QED BY <1>1, <2>1, Moved, Zenon
<1>5. cpc = "wait" /\ Asked
  <2>1. toServer # <<>>
    BY <1>1
  <2> QED BY <2>1 DEF IInv, Quiet, Answered
<1>6. Asked'
  <2>1. Answer(creq)' = Answer(creq)
    BY <1>2, Zenon DEF Answer
  <2> QED BY <1>2, <1>4, <1>5, <2>1, Zenon DEF Asked
<1>7. BufferType'
  BY <1>2, <1>3, <1>4, Zenon DEF BufferType
<1>8. store' \in [Keys -> Values \cup {None}]
  BY <1>2, Zenon DEF IInv
<1> QED BY <1>2, <1>5, <1>6, <1>7, <1>8, Zenon DEF IInv

\* A request is parsed only when the whole of it has arrived.
LEMMA WholeRequest ==
  ASSUME IInv, try_parse_request(sbuf).status # "Incomplete"
  PROVE  /\ cpc = "wait" /\ Asked /\ toServer = <<>>
         /\ try_parse_request(sbuf) = IF Acceptable(creq) THEN Complete(creq, <<>>)
                                      ELSE Failure(<<>>)
<1>1. sbuf # <<>>
  BY NothingParsed, Zenon
<1>2. cpc = "wait" /\ Asked
  BY <1>1 DEF IInv, Quiet, Answered
<1>3. BufferType
  BY DEF IInv
<1>4. /\ toServer # <<>> => try_parse_request(sbuf).status = "Incomplete"
      /\ toServer = <<>> => try_parse_request(sbuf) = IF Acceptable(creq) THEN Complete(creq, <<>>)
                                                      ELSE Failure(<<>>)
  BY <1>2, <1>3, RequestParsed, Zenon DEF BufferType, Asked
<1> QED BY <1>2, <1>4

\* The server writes the response d to a request that is all it had.
LEMMA ResponseWritten ==
  ASSUME IInv, Asked, toServer = <<>>, cpc = "wait", UNCHANGED <<cpc, cbuf, due, toServer>>,
         NEW d \in Response, due = d, sbuf' = <<>>, toClient' = toClient \o encode_response(d),
         store' \in [Keys -> Values \cup {None}]
  PROVE  IInv'
<1>1. PICK e \in Text : e = encode_response(d)
  BY ResponseText, Zenon
<1>2. toClient' = <<>> \o e /\ cbuf' = <<>>
  BY <1>1, Zenon DEF Asked
<1>3. <<>> \in Text /\ <<>> \o e = e
  BY DEF Text
<1>4. BufferType'
  BY <1>2, <1>3 DEF BufferType
<1>5. cbuf' \o toClient' = e
  BY <1>2, <1>3, Zenon
<1>6. Answered'
  BY <1>1, <1>5, Zenon DEF Answered
<1> QED BY <1>4, <1>6, Zenon DEF IInv

\* It answers the request it was sent.
LEMMA ServerAnswerStep == IInv /\ ServerAnswer => IInv'
<1> SUFFICES ASSUME IInv, ServerAnswer PROVE IInv'
  BY Zenon
<1> DEFINE p == try_parse_request(sbuf)
<1>1. /\ p.status = "Complete" /\ sbuf' = p.rest
      /\ toClient' = toClient \o encode_response(Answer(p.parsed))
      /\ store' = IF p.parsed.command = "Ping" THEN store
                  ELSE [store EXCEPT ![p.parsed.key] = StoreEffect(p.parsed, @)]
      /\ UNCHANGED <<cpc, cbuf, due, toServer>>
  BY Zenon DEF ServerAnswer, clientVars
<1> HIDE DEF p
<1>2. /\ cpc = "wait" /\ Asked /\ toServer = <<>>
      /\ p = IF Acceptable(creq) THEN Complete(creq, <<>>) ELSE Failure(<<>>)
  <2>1. try_parse_request(sbuf).status # "Incomplete"
    BY <1>1, Zenon DEF p
  <2> QED BY <2>1, WholeRequest, Zenon DEF p
<1>3. Acceptable(creq) /\ p.parsed = creq /\ p.rest = <<>>
  BY <1>1, <1>2, Zenon DEF Complete, Failure
<1>4. store \in [Keys -> Values \cup {None}]
  BY Zenon DEF IInv
<1>5. due = Answer(creq) /\ creq \in Sendable
  BY <1>2, <1>3, Zenon DEF Asked
<1>6. /\ Answer(creq) \in Response
      /\ creq.command # "Ping" =>
           [store EXCEPT ![creq.key] = StoreEffect(creq, @)] \in [Keys -> Values \cup {None}]
  BY <1>3, <1>4, <1>5, AnswerIs, Zenon
<1>7. store' \in [Keys -> Values \cup {None}]
  <2>1. store' = IF creq.command = "Ping" THEN store
                 ELSE [store EXCEPT ![creq.key] = StoreEffect(creq, @)]
    BY <1>1, <1>3, Zenon
  <2> QED BY <1>4, <1>6, <2>1, Zenon
<1>8. sbuf' = <<>> /\ toClient' = toClient \o encode_response(Answer(creq))
  BY <1>1, <1>3, Zenon
<1> QED BY <1>1, <1>2, <1>5, <1>6, <1>7, <1>8, ResponseWritten, Zenon

\* It rejects a request that is not acceptable.
LEMMA ServerRejectStep == IInv /\ ServerReject => IInv'
<1> SUFFICES ASSUME IInv, ServerReject PROVE IInv'
  BY Zenon
<1> DEFINE p == try_parse_request(sbuf)
<1>1. /\ p.status = "Error" /\ sbuf' = p.rest
      /\ toClient' = toClient \o encode_response(ErrorResponse)
      /\ UNCHANGED <<cpc, cbuf, due, toServer, store>>
  BY Zenon DEF ServerReject, clientVars
<1> HIDE DEF p
<1>2. /\ cpc = "wait" /\ Asked /\ toServer = <<>>
      /\ p = IF Acceptable(creq) THEN Complete(creq, <<>>) ELSE Failure(<<>>)
  <2>1. try_parse_request(sbuf).status # "Incomplete"
    BY <1>1, Zenon DEF p
  <2> QED BY <2>1, WholeRequest, Zenon DEF p
<1>3. ~Acceptable(creq) /\ p.rest = <<>>
  BY <1>1, <1>2, Zenon DEF Complete, Failure
<1>4. due = ErrorResponse
  BY <1>2, <1>3, Zenon DEF Asked
<1>5. ErrorResponse \in Response
  BY Zenon DEF ErrorResponse, Plain, Response
<1>6. store' \in [Keys -> Values \cup {None}]
  BY <1>1 DEF IInv
<1>7. sbuf' = <<>>
  BY <1>1, <1>3, Zenon
<1> QED BY <1>1, <1>2, <1>4, <1>5, <1>6, <1>7, ResponseWritten, Zenon

\* Every step keeps the inductive invariant.
LEMMA NextIInv == OnlySendable /\ IInv /\ [Next]_vars => IInv'
<1> SUFFICES ASSUME OnlySendable, IInv, [Next]_vars PROVE IInv'
  BY Zenon
<1>1. CASE ServerWait \/ UNCHANGED vars
  <2>1. UNCHANGED <<cpc, creq, cbuf, got, due, toServer, toClient, sbuf, store>>
    BY <1>1, Zenon DEF ServerWait, vars, clientVars, serverVars
  <2>2. Answer(creq)' = Answer(creq)
    BY <2>1 DEF Answer
  <2>3. (Quiet' <=> Quiet) /\ (Asked' <=> Asked) /\ (Answered' <=> Answered)
    BY <2>1, <2>2, Zenon DEF Quiet, Asked, Answered
  <2> QED BY <2>1, <2>3, Zenon DEF IInv, BufferType
<1> QED BY <1>1, AskStep, ClientReadStep, ClientReturnStep, ServerReadStep,
           ServerAnswerStep, ServerRejectStep, Zenon DEF Next, ClientStep, ServerStep

\* The invariant holds in every reachable state.
LEMMA Invariance ==
  ASSUME OnlySendable
  PROVE  Spec => []IInv
<1>1. OnlySendable
  BY Zenon
<1> QED BY <1>1, InitIInv, NextIInv, PTL DEF Spec

\* The response send_request() returns is the one to its own request, with the
\* very value that was stored, however the two streams were cut, as long as every
\* request typed is one that the server answers once.
THEOREM ResponseIsOwnHolds ==
  ASSUME OnlySendable
  PROVE  Spec => []ResponseIsOwn
<1>1. IInv => ResponseIsOwn
  BY Zenon DEF IInv, Quiet, ResponseIsOwn
<1> QED BY <1>1, Invariance, PTL

\* Nothing of an exchange is left in a stream or a buffer when send_request()
\* has returned, so that the next one starts clean, as long as every request typed
\* is one that the server answers once.
THEOREM CleanWhenIdleHolds ==
  ASSUME OnlySendable
  PROVE  Spec => []CleanWhenIdle
<1>1. IInv => CleanWhenIdle
  BY Zenon DEF IInv, Quiet, CleanWhenIdle
<1> QED BY <1>1, Invariance, PTL

\* ResponseParser understands whatever part of a response has arrived:
\* send_request() never throws "protocol error", under the same premise.
THEOREM NoProtocolErrorHolds ==
  ASSUME OnlySendable
  PROVE  Spec => []NoProtocolError
<1>1. IInv => NoProtocolError
  <2> SUFFICES ASSUME IInv PROVE NoProtocolError
    BY Zenon
  <2>1. CASE cbuf = <<>>
    BY <2>1, NothingParsed DEF NoProtocolError
  <2>2. CASE Answered
    <3>1. /\ toClient # <<>> => try_parse_response(cbuf).status = "Incomplete"
          /\ toClient = <<>> => try_parse_response(cbuf) = Complete(due, <<>>)
      BY <2>2, ResponseParsed, Zenon DEF IInv, BufferType, Answered
    <3> QED BY <3>1 DEF NoProtocolError, Complete
  <2> QED BY <2>1, <2>2, Zenon DEF IInv, Quiet, Asked
<1> QED BY <1>1, Invariance, PTL

-----------------------------------------------------------------------------
(* What RequestAnswered rests on.                                          *)

\* The server goes to read only when it can do nothing with what it has.
ReadsInNeed == spc \in {"read", "parse"} /\ (spc = "read" => try_parse_request(sbuf).status = "Incomplete")

\* While send_request() waits, there is a part of the request to read, or the
\* whole of it to be answered and the server is about to parse it, or a part of
\* the response to read, or the whole of it to return: client and server never
\* both wait for the other's bytes.
NeverBothWait ==
  cpc = "wait" =>
    \/ toServer # <<>> /\ try_parse_request(sbuf).status = "Incomplete"
    \/ spc = "parse" /\ try_parse_request(sbuf).status # "Incomplete"
    \/ toClient # <<>> /\ try_parse_response(cbuf).status = "Incomplete"
    \/ try_parse_response(cbuf).status = "Complete"

\* Each step of an exchange takes bytes off the request, or ends a look at a
\* part of it, or answers the whole of it, or takes bytes off the response, or
\* returns: none is ever undone.
ExchangeAdvances ==
  cpc = "wait" =>
    \/ cpc' = "idle"
    \/ Len(toServer') < Len(toServer)
    \/ toServer' = toServer /\ sbuf # <<>> /\ sbuf' = <<>>
    \/ UNCHANGED <<toServer, sbuf>> /\ Len(toClient') < Len(toClient)
    \/ UNCHANGED <<toServer, sbuf, toClient>> /\ spc = "parse" /\ spc' = "read"

LEMMA NeedStep ==
  ASSUME ReadsInNeed, [Next]_vars
  PROVE  ReadsInNeed'
<1>1. CASE UNCHANGED <<spc, sbuf>>
  BY <1>1, Zenon DEF ReadsInNeed
<1>2. CASE ServerStep
  BY <1>2, Zenon DEF ReadsInNeed, ServerStep, ServerRead, ServerWait, ServerAnswer, ServerReject
<1>3. CASE Ask \/ ClientStep \/ UNCHANGED vars
  <2>1. UNCHANGED serverVars
    BY <1>3, Zenon DEF Ask, Send, ClientStep, ClientRead, ClientReturn, vars
  <2> QED BY <1>1, <2>1, Zenon DEF serverVars
<1> QED BY <1>2, <1>3, Zenon DEF Next

LEMMA NoneWaits ==
  ASSUME IInv, ReadsInNeed
  PROVE  NeverBothWait
<1> SUFFICES ASSUME cpc = "wait" PROVE NeverBothWait
  BY Zenon DEF NeverBothWait
<1>1. BufferType
  BY Zenon DEF IInv
<1>2. CASE Asked
  <2>1. /\ toServer # <<>> => try_parse_request(sbuf).status = "Incomplete"
        /\ toServer = <<>> => try_parse_request(sbuf) = IF Acceptable(creq) THEN Complete(creq, <<>>)
                                                        ELSE Failure(<<>>)
    BY <1>1, <1>2, RequestParsed, Zenon DEF BufferType, Asked
  <2>2. toServer = <<>> => try_parse_request(sbuf).status # "Incomplete"
    BY <2>1 DEF Complete, Failure
  <2> QED BY <2>1, <2>2, Zenon DEF NeverBothWait, ReadsInNeed
<1>3. CASE Answered
  <2>1. /\ toClient # <<>> => try_parse_response(cbuf).status = "Incomplete"
        /\ toClient = <<>> => try_parse_response(cbuf) = Complete(due, <<>>)
    BY <1>1, <1>3, ResponseParsed, Zenon DEF BufferType, Answered
  <2>2. toClient = <<>> => try_parse_response(cbuf).status = "Complete"
    BY <2>1 DEF Complete
  <2> QED BY <2>1, <2>2, Zenon DEF NeverBothWait
<1> QED BY <1>2, <1>3, Zenon DEF IInv

\* What is left of bytes of which some were read.
LEMMA DroppedShorter ==
  ASSUME NEW b \in Text, NEW n \in 1 .. Len(b)
  PROVE  Len(Dropped(b, n)) < Len(b)
  BY DEF Text, Dropped

LEMMA ExchangeStep ==
  ASSUME IInv, Next
  PROVE  ExchangeAdvances
<1> SUFFICES ASSUME cpc = "wait" PROVE ExchangeAdvances
  BY Zenon DEF ExchangeAdvances
<1>1. BufferType
  BY Zenon DEF IInv
<1>2. CASE Ask
  BY <1>2, Zenon DEF Ask
<1>3. CASE ClientReturn
  BY <1>3, Zenon DEF ClientReturn, ExchangeAdvances
<1>4. CASE ServerWait
  BY <1>4, Zenon DEF ServerWait, ExchangeAdvances
<1>5. CASE ClientRead
  <2>1. UNCHANGED <<toServer, sbuf>> /\ \E n \in 1 .. Len(toClient) : toClient' = Dropped(toClient, n)
    BY <1>5, Zenon DEF ClientRead, serverVars
  <2>2. Len(toClient') < Len(toClient)
    BY <1>1, <2>1, DroppedShorter, Zenon DEF BufferType
  <2> QED BY <2>1, <2>2, Zenon DEF ExchangeAdvances
<1>6. CASE ServerRead
  <2>1. \E n \in 1 .. Len(toServer) : toServer' = Dropped(toServer, n)
    BY <1>6, Zenon DEF ServerRead
  <2>2. Len(toServer') < Len(toServer)
    BY <1>1, <2>1, DroppedShorter, Zenon DEF BufferType
  <2> QED BY <2>2, Zenon DEF ExchangeAdvances
<1>7. CASE ServerAnswer \/ ServerReject
  <2>1. /\ try_parse_request(sbuf).status \in {"Complete", "Error"}
        /\ sbuf' = try_parse_request(sbuf).rest /\ toServer' = toServer
    BY <1>7, Zenon DEF ServerAnswer, ServerReject
  <2>2. try_parse_request(sbuf).status # "Incomplete"
    BY <2>1
  <2>3. sbuf # <<>>
    BY <2>2, NothingParsed, Zenon
  <2>4. try_parse_request(sbuf) = IF Acceptable(creq) THEN Complete(creq, <<>>) ELSE Failure(<<>>)
    BY <2>2, WholeRequest, Zenon
  <2>5. try_parse_request(sbuf).rest = <<>>
    BY <2>4 DEF Complete, Failure
  <2> QED BY <2>1, <2>3, <2>5, Zenon DEF ExchangeAdvances
<1> QED BY <1>2, <1>3, <1>4, <1>5, <1>6, <1>7, Zenon DEF Next, ClientStep, ServerStep

\* RequestAnswered, but for fairness: however the streams are cut, an exchange
\* never reaches a state where client and server wait for each other, and each
\* of its steps makes what is left of it smaller.  (On a line that is too long a
\* step of the server would drop nothing; OnlySendable has none typed.)
THEOREM ExchangesAdvance ==
  ASSUME OnlySendable
  PROVE  Spec => []NeverBothWait /\ [][ExchangeAdvances]_vars
<1>1. Init => ReadsInNeed
  <2>1. Init => spc = "read" /\ sbuf = <<>>
    BY Zenon DEF Init
  <2> QED BY <2>1, NothingParsed, Zenon DEF ReadsInNeed
<1>2. ReadsInNeed /\ [Next]_vars => ReadsInNeed'
  BY NeedStep, Zenon
<1>3. IInv /\ ReadsInNeed => NeverBothWait
  BY NoneWaits, Zenon
<1>4. IInv /\ [Next]_vars => [ExchangeAdvances]_vars
  BY ExchangeStep, Zenon
<1> QED BY <1>1, <1>2, <1>3, <1>4, Invariance, PTL DEF Spec
=============================================================================
