------------------------------ MODULE Protocol ------------------------------
(***************************************************************************)
(* The wire protocol (src/common/protocol.cpp).  A stream is a sequence of *)
(* symbols: one for each space-separated token of a command line, one for  *)
(* each line feed or carriage return, one for each byte of a value, which  *)
(* may be any symbol.  Lengths count symbols.                              *)
(***************************************************************************)
EXTENDS KVTypes, Integers, Sequences, SequencesExt

CONSTANTS
  MaxValueLen,  \* kMaxValueLen
  MaxLineLen    \* kMaxCommandLineLen

LF == "LF"
CR == "CR"
\* A space at the end of a line or of a token, next to which split_spaces()
\* finds an empty token.
SP == "SP"

\* A key longer than kMaxKeyLen, on a line that is still no longer than
\* kMaxCommandLineLen.
LongKey == "LongKey"

\* A key so long that the line it is on is longer than that too.
HugeKey == "HugeKey"

Ping == [command |-> "Ping", key |-> None, value |-> None]

\* std::to_string
Numeral(n) == <<"0", "1", "2", "3", "4", "5", "6", "7", "8", "9">>[n + 1]

is_valid_key(token) == token \notin {CR, SP, LongKey, HugeKey}

\* A token that means nothing.
Other == "Other"

\* What a stream is made of: the tokens of the protocol, keys, and the bytes of
\* values.
Symbol ==
  {LF, CR, SP, LongKey, HugeKey, Other, "SET", "GET", "DELETE", "PING", "VALUE", "ERROR",
   "message", "OK", "DELETED", "NOT_FOUND", "PONG", "0", "1", "2", "3", "4", "5", "6", "7", "8", "9"}
    \cup Keys \cup UNION {{v[i] : i \in DOMAIN v} : v \in Values}

Text == Seq(Symbol)

\* A numeral has one digit here, and the store holds what the protocol can
\* carry.  A line has room for the three tokens of a SET, which is what
\* kMaxCommandLineLen is made of, but perhaps not for a CR behind them.
ASSUME ProtocolAssumption ==
  /\ MaxValueLen \in 0 .. 8 /\ MaxLineLen \in Nat /\ MaxLineLen >= 3
  /\ \A k \in Keys : is_valid_key(k) /\ k # LF
  /\ \A v \in Values : v \in Text /\ Len(v) <= MaxValueLen

\* Mutant: any numeral is a length.
parse_length_unbounded(token) ==
  IF \E n \in 0 .. 9 : token = Numeral(n) THEN CHOOSE n \in 0 .. 9 : token = Numeral(n) ELSE -1

\* The number, or -1 where the code returns false.
parse_length(token) ==
  IF \E n \in 0 .. MaxValueLen : token = Numeral(n)
  THEN CHOOSE n \in 0 .. MaxValueLen : token = Numeral(n) ELSE -1

strip_trailing_cr(line) == IF line # <<>> /\ Last(line) = CR THEN Front(line) ELSE line

\* Where the first line of a buffer ends, 0 if it does not.
LineEnd(buf) == SelectInSeq(buf, LAMBDA x : x = LF)

\* buffer_.size() > kMaxCommandLineLen
LineTooLong(buf) == Len(buf) > MaxLineLen \/ \E i \in 1 .. Len(buf) : buf[i] = HugeKey

\* buffer_.erase(0, n)
Dropped(buf, n) == SubSeq(buf, n + 1, Len(buf))

-----------------------------------------------------------------------------
\* The requests that have an encoding a parser accepts.
Acceptable(r) == r = Ping \/ (is_valid_key(r.key) /\ (r.value # None => Len(r.value) <= MaxValueLen))

\* The requests a server answers once, however they are cut: the SETs it accepts,
\* and whatever else has a line that is not too long.
Sendable ==
  {Ping} \cup [command : {"Get", "Delete"}, key : {CR, SP, LongKey} \cup Keys, value : {None}]
         \cup [command : {"Set"}, key : Keys, value : Values]

encode_request(r) ==
  IF r.command = "Set"
  THEN <<"SET", r.key, Numeral(Len(r.value)), LF>> \o r.value \o <<LF>>
  ELSE IF r.command = "Ping" THEN <<"PING", LF>>
  ELSE <<IF r.command = "Get" THEN "GET" ELSE "DELETE", r.key, LF>>

\* Mutant: a PING is echoed.
encode_response_echo(r) ==
  IF r.type = "Value" THEN <<"VALUE", Numeral(Len(r.value)), LF>> \o r.value \o <<LF>>
  ELSE IF r.type = "Error" THEN <<"ERROR", "message", LF>>
  ELSE <<[Ok |-> "OK", Deleted |-> "DELETED", NotFound |-> "NOT_FOUND", Pong |-> "PING"][r.type], LF>>

\* encode_value_response and its siblings; the message of an error is text
\* without a line feed.
encode_response(r) ==
  IF r.type = "Value" THEN <<"VALUE", Numeral(Len(r.value)), LF>> \o r.value \o <<LF>>
  ELSE IF r.type = "Error" THEN <<"ERROR", "message", LF>>
  ELSE <<[Ok |-> "OK", Deleted |-> "DELETED", NotFound |-> "NOT_FOUND", Pong |-> "PONG"][r.type], LF>>

-----------------------------------------------------------------------------
(* What one call of a parser returns: its status, what it parsed, and the  *)
(* buffer it leaves.                                                       *)

Complete(x, rest) == [status |-> "Complete", parsed |-> x, rest |-> rest]
Failure(rest) == [status |-> "Error", parsed |-> None, rest |-> rest]
Incomplete(buf) == [status |-> "Incomplete", parsed |-> None, rest |-> buf]

\* Mutant: the value ends at the next line feed.
ParseValueToNewline(buf, start, n) ==
  LET end == LineEnd(Dropped(buf, start))
  IN  IF end = 0 THEN Incomplete(buf)
      ELSE Complete(SubSeq(buf, start + 1, start + end - 1), Dropped(buf, start + end))

\* Mutant: one more symbol is waited for.
ParseValueLate(buf, start, n) ==
  LET needed == start + n + 1
  IN  IF Len(buf) <= needed THEN Incomplete(buf)
      ELSE IF buf[needed] # LF THEN Failure(Dropped(buf, needed))
      ELSE Complete(SubSeq(buf, start + 1, start + n), Dropped(buf, needed))

\* Mutant: a value without its line feed is not dropped.
ParseValueKeepingBytes(buf, start, n) ==
  LET needed == start + n + 1
  IN  IF Len(buf) < needed THEN Incomplete(buf)
      ELSE IF buf[needed] # LF THEN Failure(buf)
      ELSE Complete(SubSeq(buf, start + 1, start + n), Dropped(buf, needed))

\* Mutant: the line feed after the value stays.
ParseValueLeavingNewline(buf, start, n) ==
  LET needed == start + n + 1
  IN  IF Len(buf) < needed THEN Incomplete(buf)
      ELSE IF buf[needed] # LF THEN Failure(Dropped(buf, needed))
      ELSE Complete(SubSeq(buf, start + 1, start + n), Dropped(buf, start + n))

\* The part of both parsers that takes a value of n symbols and the line feed
\* after it, behind a line that ends at start.
ParseValue(buf, start, n) ==
  LET needed == start + n + 1
  IN  IF Len(buf) < needed THEN Incomplete(buf)
      ELSE IF buf[needed] # LF THEN Failure(Dropped(buf, needed))
      ELSE Complete(SubSeq(buf, start + 1, start + n), Dropped(buf, needed))

\* A line without a value: every malformed one is dropped.
ParseLine(line, rest) ==
  IF line = <<"PING">> THEN Complete(Ping, rest)
  ELSE IF Len(line) = 2 /\ line[1] \in {"GET", "DELETE"} /\ is_valid_key(line[2])
  THEN Complete([command |-> IF line[1] = "GET" THEN "Get" ELSE "Delete",
                 key |-> line[2], value |-> None], rest)
  ELSE Failure(rest)

try_parse_request(buf) ==
  LET end == LineEnd(buf)
      line == strip_trailing_cr(SubSeq(buf, 1, end - 1))
      length == IF Len(line) = 3 THEN parse_length(line[3]) ELSE -1
  IN  IF end = 0
      THEN IF LineTooLong(buf) THEN Failure(buf) ELSE Incomplete(buf)
      ELSE IF length # -1 /\ line[1] = "SET" /\ is_valid_key(line[2])
      THEN LET v == ParseValue(buf, end, length)
           IN  [v EXCEPT !.parsed = IF v.status = "Complete"
                                    THEN [command |-> "Set", key |-> line[2], value |-> @]
                                    ELSE None]
      ELSE ParseLine(line, Dropped(buf, end))

\* Its own limit on a line, kMaxResponseLineLen, is out of reach of any line
\* a server writes but an error's.
try_parse_response(buf) ==
  LET end == LineEnd(buf)
      line == strip_trailing_cr(SubSeq(buf, 1, end - 1))
      rest == Dropped(buf, end)
      length == IF Len(line) = 2 /\ line[1] = "VALUE" THEN parse_length(line[2]) ELSE -1
      plain == [OK |-> "Ok", DELETED |-> "Deleted", NOT_FOUND |-> "NotFound", PONG |-> "Pong"]
  IN  IF end = 0 THEN Incomplete(buf)
      ELSE IF Len(line) = 1 /\ line[1] \in DOMAIN plain
      THEN Complete(Plain(plain[line[1]]), rest)
      ELSE IF line # <<>> /\ line[1] = "ERROR" THEN Complete(ErrorResponse, rest)
      ELSE IF length # -1
      THEN LET v == ParseValue(buf, end, length)
           IN  [v EXCEPT !.parsed = IF v.status = "Complete"
                                    THEN [type |-> "Value", value |-> @] ELSE None]
      ELSE Failure(rest)
=============================================================================
