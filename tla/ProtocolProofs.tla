--------------------------- MODULE ProtocolProofs ---------------------------
(***************************************************************************)
(* Proofs about the two parsers of Protocol.tla: cut anywhere, a message   *)
(* is waited for until the whole of it is there, and then understood as    *)
(* what was encoded, whatever follows it.                                  *)
(***************************************************************************)
EXTENDS Protocol, SequenceTheorems, TLAPS

-----------------------------------------------------------------------------
(* The operators of the protocol.                                          *)

\* A length is a number of one digit.
LEMMA OneDigit ==
  ASSUME NEW n \in Nat, n <= MaxValueLen
  PROVE  n \in 0 .. MaxValueLen /\ n \in 0 .. 8
BY ProtocolAssumption

\* std::to_string of a length gives ten distinct tokens, none a line end
\* or a key that is too long.
LEMMA NumeralIs ==
  /\ \A n \in 0 .. 8 : Numeral(n) \in Symbol /\ Numeral(n) \notin {LF, CR, HugeKey}
  /\ \A n, m \in 0 .. 8 : Numeral(n) = Numeral(m) => n = m
<1>1. /\ Numeral(0) = "0" /\ Numeral(1) = "1" /\ Numeral(2) = "2" /\ Numeral(3) = "3"
      /\ Numeral(4) = "4" /\ Numeral(5) = "5" /\ Numeral(6) = "6" /\ Numeral(7) = "7"
      /\ Numeral(8) = "8"
  BY DEF Numeral
<1>2. \A n \in 0 .. 8 : n \in {0, 1, 2, 3, 4, 5, 6, 7, 8}
  OBVIOUS
<1>3. \A n \in 0 .. 8 : Numeral(n) \in Symbol /\ Numeral(n) \notin {LF, CR, HugeKey}
  <2> TAKE n \in 0 .. 8
  <2>1. Numeral(n) \in {"0", "1", "2", "3", "4", "5", "6", "7", "8"}
    BY <1>1, <1>2
  <2> QED BY <2>1 DEF LF, CR, HugeKey, Symbol
<1>4. \A n, m \in 0 .. 8 : Numeral(n) = Numeral(m) => n = m
  <2> TAKE n, m \in 0 .. 8
  <2> QED BY <1>1, <1>2
<1> QED BY <1>3, <1>4

\* parse_length() reads the length std::to_string() wrote.
LEMMA LengthIs ==
  ASSUME NEW n \in 0 .. MaxValueLen
  PROVE  parse_length(Numeral(n)) = n
<1>1. \A m \in 0 .. MaxValueLen : Numeral(n) = Numeral(m) <=> m = n
  BY NumeralIs, ProtocolAssumption
<1> QED
  BY <1>1 DEF parse_length

\* The first line of a buffer ends at the first line feed.
LEMMA LineEndIs ==
  ASSUME NEW buf \in Text, NEW k \in 1 .. Len(buf), buf[k] = LF, \A j \in 1 .. k - 1 : buf[j] # LF
  PROVE  LineEnd(buf) = k
<1> DEFINE I == {i \in 1 .. Len(buf) : buf[i] = LF}
<1>1. LineEnd(buf) = IF I # {} THEN Min(I) ELSE 0
  BY DEF LineEnd, SelectInSeq
<1>2. k \in I /\ \A i \in I : k <= i
  BY DEF Text
<1>3. Min(I) = k
  <2>1. I \subseteq Nat
    BY DEF Text
  <2> HIDE DEF I
  <2>2. k \in I /\ \A y \in I : k <= y
    BY <1>2
  <2>3. \A x \in I : (\A y \in I : x <= y) => x = k
    BY <2>1, <2>2
  <2> QED BY <2>2, <2>3, Zenon DEF Min
<1> HIDE DEF I
<1> QED BY <1>1, <1>2, <1>3

\* A buffer without a line feed has no line.
LEMMA NoLineEnd ==
  ASSUME NEW buf \in Text, \A j \in 1 .. Len(buf) : buf[j] # LF
  PROVE  LineEnd(buf) = 0
BY DEF LineEnd, SelectInSeq, Text

-----------------------------------------------------------------------------
(* A buffer that holds the beginning of a message.                         *)

\* What has been received, and what is still to come.
LEMMA StartOf ==
  ASSUME NEW e \in Text, NEW buf \in Text, NEW rest \in Text, buf \o rest = e
  PROVE  /\ Len(buf) \in Nat /\ Len(buf) <= Len(e) /\ \A i \in 1 .. Len(buf) : buf[i] = e[i]
         /\ rest # <<>> => Len(buf) < Len(e)
         /\ rest = <<>> => buf = e
<1>1. buf \in Seq(Symbol) /\ rest \in Seq(Symbol) /\ Len(buf) \in Nat /\ Len(rest) \in Nat
  BY DEF Text
<1>2. Len(e) = Len(buf) + Len(rest)
  BY <1>1
<1>3. ASSUME NEW i \in 1 .. Len(buf) PROVE buf[i] = e[i]
  BY <1>1
<1>4. rest # <<>> => Len(rest) # 0
  BY <1>1
<1>5. rest = <<>> => buf = e
  BY <1>1
<1>6. Len(buf) <= Len(e) /\ (rest # <<>> => Len(buf) < Len(e))
  BY <1>1, <1>2, <1>4
<1> QED BY <1>1, <1>3, <1>5, <1>6, Zenon

\* Its first tokens, as a line.
LEMMA LineOf ==
  ASSUME NEW buf \in Text, NEW n \in Nat, n <= Len(buf), NEW line, line = SubSeq(buf, 1, n)
  PROVE  line \in Text /\ Len(line) = n /\ \A i \in 1 .. n : line[i] = buf[i]
BY DEF Text

\* A line of one token.
LEMMA OneToken ==
  ASSUME NEW line \in Text, Len(line) = 1, NEW t \in Symbol, line[1] = t
  PROVE  line = <<t>>
BY SeqEqual DEF Text

\* A buffer that holds a whole message, and what follows it.
Begins(buf, e, tail) ==
  /\ buf \in Text /\ e \in Text /\ Len(buf) \in Nat /\ Len(e) \in Nat /\ Len(e) <= Len(buf)
  /\ Dropped(buf, Len(e)) = tail
  /\ \A i \in 1 .. Len(e) : buf[i] = e[i]

\* A message and what follows it.
LEMMA FrontOf ==
  ASSUME NEW e \in Text, NEW tail \in Text
  PROVE  Begins(e \o tail, e, tail)
<1> DEFINE buf == e \o tail
<1>1. /\ buf \in Text /\ Len(e) \in Nat /\ Len(tail) \in Nat /\ Len(buf) = Len(e) + Len(tail)
      /\ \A i \in 1 .. Len(e) : buf[i] = e[i]
      /\ \A i \in 1 .. Len(tail) : buf[Len(e) + i] = tail[i]
  BY DEF Text
<1> HIDE DEF buf
<1>2. Dropped(buf, Len(e)) = tail
  <2> DEFINE d == Dropped(buf, Len(e))
  <2>1. d \in Seq(Symbol) /\ Len(d) = Len(tail) /\ \A i \in 1 .. Len(d) : d[i] = buf[Len(e) + i]
    BY <1>1 DEF Text, Dropped
  <2> HIDE DEF d
  <2>2. \A i \in 1 .. Len(d) : d[i] = tail[i]
    BY <1>1, <2>1
  <2>3. d = tail
    BY <2>1, <2>2, SeqEqual, Zenon DEF Text
  <2> QED BY <2>3 DEF d
<1>3. Begins(buf, e, tail)
  BY <1>1, <1>2 DEF Begins
<1> QED BY <1>3 DEF buf

\* Three parts are joined in either order.
LEMMA JoinAssociative ==
  ASSUME NEW a \in Text, NEW b \in Text, NEW c \in Text
  PROVE  (a \o b) \o c = a \o (b \o c)
BY ConcatAssociative, SMTT(30) DEF Text

\* A read moves the cut between what has arrived and what has not.
LEMMA Moved ==
  ASSUME NEW a \in Text, NEW b \in Text, NEW n \in 1 .. Len(b)
  PROVE  /\ a \o SubSeq(b, 1, n) \in Text /\ Dropped(b, n) \in Text
         /\ (a \o SubSeq(b, 1, n)) \o Dropped(b, n) = a \o b
<1>1. SubSeq(b, 1, n) \in Text /\ Dropped(b, n) \in Text /\ SubSeq(b, 1, n) \o Dropped(b, n) = b
  BY DEF Text, Dropped
<1>2. PICK x \in Text, d \in Text : x = SubSeq(b, 1, n) /\ d = Dropped(b, n) /\ x \o d = b
  BY <1>1, Zenon
<1>3. a \o x \in Text
  BY DEF Text
<1>4. (a \o x) \o d = a \o (x \o d)
  BY JoinAssociative, ZenonT(30)
<1> QED BY <1>1, <1>2, <1>3, <1>4, Zenon

\* A sequence with a length is not empty.
LEMMA NotEmpty ==
  ASSUME NEW s, Len(s) = 1 \/ Len(s) = 2 \/ Len(s) = 3
  PROVE  s # <<>>
OBVIOUS

\* Only a carriage return is stripped.
LEMMA StripIs ==
  ASSUME NEW line \in Text, line # <<>>
  PROVE  /\ line[Len(line)] # CR => strip_trailing_cr(line) = line
         /\ line[Len(line)] = CR => strip_trailing_cr(line) = SubSeq(line, 1, Len(line) - 1)
BY DEF strip_trailing_cr, Last, Front

\* A message with a value: its line, the value, and a line feed.
LEMMA Framed ==
  ASSUME NEW h \in Text, NEW v \in Text
  PROVE  /\ h \o v \o <<LF>> \in Text
         /\ Len(h \o v \o <<LF>>) = Len(h) + Len(v) + 1
         /\ \A i \in 1 .. Len(h) : (h \o v \o <<LF>>)[i] = h[i]
         /\ \A i \in 1 .. Len(v) : (h \o v \o <<LF>>)[Len(h) + i] = v[i]
         /\ (h \o v \o <<LF>>)[Len(h) + Len(v) + 1] = LF
<1>1. LF \in Symbol
  BY DEF Symbol
<1> QED BY <1>1 DEF Text

-----------------------------------------------------------------------------
(* The request parser.                                                     *)

\* No line feed yet: it waits.
LEMMA RequestWaits ==
  ASSUME NEW buf \in Text, Len(buf) <= MaxLineLen,
         \A j \in 1 .. Len(buf) : buf[j] \notin {LF, HugeKey}
  PROVE  try_parse_request(buf).status = "Incomplete"
<1>1. LineEnd(buf) = 0
  BY NoLineEnd
<1>2. ~LineTooLong(buf)
  <2>1. Len(buf) \in Nat /\ ~(Len(buf) > MaxLineLen)
    BY ProtocolAssumption DEF Text
  <2> QED BY <2>1, Zenon DEF LineTooLong
<1>3. try_parse_request(buf) = Incomplete(buf)
  BY <1>1, <1>2 DEF try_parse_request
<1> QED BY <1>3 DEF Incomplete

\* A line that is not that of a SET is all there is to a request.
LEMMA RequestLine ==
  ASSUME NEW buf, NEW end \in Nat \ {0}, LineEnd(buf) = end, NEW line,
         line = strip_trailing_cr(SubSeq(buf, 1, end - 1)), Len(line) # 3
  PROVE  try_parse_request(buf) = ParseLine(line, Dropped(buf, end))
BY Zenon DEF try_parse_request

\* The line of a SET, and its value.
LEMMA RequestSet ==
  ASSUME NEW buf \in Text, LineEnd(buf) = 4, Len(buf) >= 4, NEW n \in 0 .. MaxValueLen,
         buf[1] = "SET", is_valid_key(buf[2]), buf[3] = Numeral(n), NEW v, v = ParseValue(buf, 4, n)
  PROVE  try_parse_request(buf) =
           [v EXCEPT !.parsed = IF v.status = "Complete"
                                THEN [command |-> "Set", key |-> buf[2], value |-> @]
                                ELSE None]
<1> DEFINE line == SubSeq(buf, 1, 3)
<1>0. 3 \in Nat /\ 3 <= Len(buf) /\ n \in 0 .. 8
  BY ProtocolAssumption DEF Text
<1>1. line \in Text /\ Len(line) = 3 /\ \A i \in 1 .. 3 : line[i] = buf[i]
  BY <1>0, LineOf, ZenonT(40)
<1>2. strip_trailing_cr(line) = line
  <2>1. line[Len(line)] # CR
    BY <1>0, <1>1, NumeralIs
  <2>2. line # <<>>
    BY <1>1
  <2> QED BY <1>1, <2>1, <2>2, StripIs, Zenon
<1>3. parse_length(line[3]) = n /\ n # -1
  BY <1>1, LengthIs
<1> HIDE DEF line
<1>4. line = strip_trailing_cr(SubSeq(buf, 1, 4 - 1))
  BY <1>2 DEF line
<1> QED
  BY <1>1, <1>3, <1>4 DEF try_parse_request

\* What send_request() writes.
LEMMA RequestText ==
  ASSUME NEW r \in Sendable, NEW e, e = encode_request(r)
  PROVE  /\ e \in Text
         /\ r = Ping => Len(e) = 2 /\ e[1] = "PING" /\ e[2] = LF
         /\ r.command \in {"Get", "Delete"} =>
              /\ Len(e) = 3 /\ e[1] = (IF r.command = "Get" THEN "GET" ELSE "DELETE")
              /\ e[2] = r.key /\ e[3] = LF
         /\ r.command = "Set" =>
              /\ Len(e) = Len(r.value) + 5 /\ e[1] = "SET" /\ e[2] = r.key
              /\ e[3] = Numeral(Len(r.value)) /\ e[4] = LF /\ e[Len(r.value) + 5] = LF
              /\ \A i \in 1 .. Len(r.value) : e[4 + i] = r.value[i]
<1>1. CASE r = Ping
  <2>1. e = <<"PING", LF>> /\ r.command = "Ping"
    BY <1>1 DEF encode_request, Ping
  <2>2. "PING" \in Symbol /\ LF \in Symbol
    BY Zenon DEF Symbol
  <2>3. e \in Text /\ Len(e) = 2 /\ e[1] = "PING" /\ e[2] = LF
    BY <2>1, <2>2 DEF Text
  <2> QED BY <2>1, <2>3
<1>2. CASE r \in [command : {"Get", "Delete"}, key : {CR, SP, LongKey} \cup Keys, value : {None}]
  <2>1. r.command \in {"Get", "Delete"} /\ r.key \in Symbol
    BY <1>2, Zenon DEF Symbol
  <2>2. "GET" \in Symbol /\ "DELETE" \in Symbol /\ LF \in Symbol
    BY Zenon DEF Symbol
  <2>3. PICK w \in Symbol : w = IF r.command = "Get" THEN "GET" ELSE "DELETE"
    BY <2>2
  <2>4. e = <<w, r.key, LF>>
    BY <2>1, <2>3, Zenon DEF encode_request
  <2>5. r # Ping
    BY <2>1 DEF Ping
  <2> QED BY <2>1, <2>2, <2>3, <2>4, <2>5 DEF Text
<1>3. CASE r \in [command : {"Set"}, key : Keys, value : Values]
  <2>1. /\ r.command = "Set" /\ r.key \in Symbol /\ r.value \in Text
        /\ Len(r.value) \in Nat /\ Len(r.value) <= MaxValueLen
    <3>1. r.command = "Set" /\ r.key \in Keys /\ r.value \in Values
      BY <1>3, Zenon
    <3>2. r.value \in Text /\ Len(r.value) <= MaxValueLen /\ r.key \in Symbol
      BY <3>1, ProtocolAssumption DEF Symbol
    <3>3. Len(r.value) \in Nat
      BY <3>2 DEF Text
    <3> QED BY <3>1, <3>2, <3>3
  <2>2. "SET" \in Symbol /\ LF \in Symbol /\ Numeral(Len(r.value)) \in Symbol
    <3>1. Len(r.value) \in 0 .. 8
      BY <2>1, OneDigit, Zenon
    <3>2. Numeral(Len(r.value)) \in Symbol
      BY <3>1, NumeralIs, Zenon
    <3> QED BY <3>2 DEF Symbol
  <2>3. PICK m \in Symbol : m = Numeral(Len(r.value))
    BY <2>2
  <2>4. e = <<"SET", r.key, m, LF>> \o r.value \o <<LF>>
    BY <2>1, <2>3 DEF encode_request
  <2>5. r # Ping
    BY <2>1 DEF Ping
  <2> DEFINE n == Len(r.value)
             h == <<"SET", r.key, m, LF>>
  <2>6. /\ h \in Text /\ Len(h) = 4
        /\ h[1] = "SET" /\ h[2] = r.key /\ h[3] = m /\ h[4] = LF
    BY <2>1, <2>2 DEF Text
  <2>7. e = h \o r.value \o <<LF>> /\ LF \in Symbol
    BY <2>2, <2>4, Zenon
  <2> HIDE DEF h
  <2>8. /\ e \in Text /\ Len(e) = 4 + n + 1 /\ \A i \in 1 .. 4 : e[i] = h[i]
        /\ e[4 + n + 1] = LF /\ \A i \in 1 .. n : e[4 + i] = r.value[i]
    <3>1. /\ e \in Text /\ Len(e) = Len(h) + n + 1 /\ \A i \in 1 .. Len(h) : e[i] = h[i]
          /\ e[Len(h) + n + 1] = LF /\ \A i \in 1 .. n : e[Len(h) + i] = r.value[i]
      <4> DEFINE f == h \o r.value \o <<LF>>
      <4>1. /\ f \in Text /\ Len(f) = Len(h) + n + 1 /\ \A i \in 1 .. Len(h) : f[i] = h[i]
            /\ f[Len(h) + n + 1] = LF /\ \A i \in 1 .. n : f[Len(h) + i] = r.value[i]
        BY <2>1, <2>6, Framed, Zenon
      <4>2. e = f
        BY <2>7, Zenon
      <4> HIDE DEF f
      <4> QED BY <4>1, <4>2, Zenon
    <3>2. Len(h) = 4
      BY <2>6
    <3> QED BY <3>1, <3>2, Zenon
  <2>9. n \in Nat
    BY <2>1, Zenon
  <2> QED BY <2>1, <2>3, <2>5, <2>6, <2>8, <2>9
<1> QED BY <1>1, <1>2, <1>3 DEF Sendable

\* A message e is a line of h symbols, the value v and a line feed.
HasValue(e, h, v) ==
  /\ e \in Text /\ v \in Text /\ h \in Nat
  /\ Len(e) = h + Len(v) + 1 /\ e[h + Len(v) + 1] = LF
  /\ \A i \in 1 .. Len(v) : e[h + i] = v[i]

\* ParseValue waits on a part of such a message.
LEMMA ValueWaits ==
  ASSUME NEW h, NEW v, NEW e, HasValue(e, h, v),
         NEW buf \in Text, NEW rest \in Text, buf \o rest = e, rest # <<>>
  PROVE  ParseValue(buf, h, Len(v)) = Incomplete(buf)
<1>1. Len(buf) < h + Len(v) + 1
  BY StartOf DEF HasValue
<1> QED BY <1>1 DEF ParseValue

\* A part of a buffer.
LEMMA PartOf ==
  ASSUME NEW buf \in Text, NEW h \in Nat, NEW n \in Nat, h + n <= Len(buf)
  PROVE  /\ SubSeq(buf, h + 1, h + n) \in Text /\ Len(SubSeq(buf, h + 1, h + n)) = n
         /\ \A i \in 1 .. n : SubSeq(buf, h + 1, h + n)[i] = buf[h + i]
BY DEF Text

\* It finds the value in the whole of it, and leaves what follows.
LEMMA ValueIs ==
  ASSUME NEW h, NEW v, NEW e, HasValue(e, h, v), NEW tail, NEW buf, Begins(buf, e, tail)
  PROVE  ParseValue(buf, h, Len(v)) = Complete(v, tail)
<1>0. /\ e \in Text /\ v \in Text /\ h \in Nat /\ Len(e) = h + Len(v) + 1
      /\ e[h + Len(v) + 1] = LF /\ \A i \in 1 .. Len(v) : e[h + i] = v[i]
  BY Zenon DEF HasValue
<1>1. Len(v) \in Nat
  BY <1>0 DEF Text
<1>2. /\ buf \in Text /\ Len(buf) \in Nat /\ Len(e) <= Len(buf)
      /\ Dropped(buf, Len(e)) = tail
      /\ \A i \in 1 .. Len(e) : buf[i] = e[i]
  BY Zenon DEF Begins
<1>3. Dropped(buf, h + Len(v) + 1) = tail
  BY <1>0, <1>2, Zenon
<1>4. ~(Len(buf) < h + Len(v) + 1) /\ buf[h + Len(v) + 1] = LF
  BY <1>0, <1>1, <1>2
<1>5. SubSeq(buf, h + 1, h + Len(v)) = v
  <2> DEFINE w == SubSeq(buf, h + 1, h + Len(v))
  <2>1. w \in Seq(Symbol) /\ Len(w) = Len(v) /\ \A i \in 1 .. Len(v) : w[i] = buf[h + i]
    <3>1. h \in Nat /\ Len(v) \in Nat /\ buf \in Text /\ h + Len(v) <= Len(buf)
      BY <1>0, <1>1, <1>2
    <3>2. w \in Text /\ Len(w) = Len(v) /\ \A i \in 1 .. Len(v) : w[i] = buf[h + i]
      BY <3>1, PartOf, Zenon
    <3> QED BY <3>2, Zenon DEF Text
  <2> HIDE DEF w
  <2>2. \A i \in 1 .. Len(w) : w[i] = v[i]
    BY <1>0, <1>1, <1>2, <2>1
  <2>3. w = v
    <3>1. v \in Seq(Symbol)
      BY <1>0, Zenon DEF Text
    <3> QED BY <2>1, <2>2, <3>1, SeqEqual, Zenon
  <2> QED BY <2>3, Zenon DEF w
<1> QED BY <1>3, <1>4, <1>5, Zenon DEF ParseValue

\* What is known of a SET.
LEMMA SetFacts ==
  ASSUME NEW r, r \in [command : {"Set"}, key : Keys, value : Values]
  PROVE  /\ r.value \in Text /\ Len(r.value) \in Nat
         /\ Len(r.value) \in 0 .. 8 /\ Len(r.value) \in 0 .. MaxValueLen
         /\ r.key # LF /\ is_valid_key(r.key)
<1>1. r.key \in Keys /\ r.value \in Values
  BY Zenon
<1>2. r.value \in Text /\ Len(r.value) <= MaxValueLen /\ r.key # LF /\ is_valid_key(r.key)
  BY <1>1, ProtocolAssumption, Zenon
<1>3. Len(r.value) \in Nat
  BY <1>2 DEF Text
<1> QED BY <1>2, <1>3, OneDigit, Zenon

\* Fed a part of what send_request() writes, the request parser waits.
LEMMA RequestPart ==
  ASSUME NEW r \in Sendable, NEW buf \in Text, NEW rest \in Text, buf \o rest = encode_request(r),
         rest # <<>>
  PROVE  try_parse_request(buf).status = "Incomplete"
<1> DEFINE e == encode_request(r)
<1>0. e \in Text /\ Len(buf) \in Nat /\ Len(buf) < Len(e) /\ \A i \in 1 .. Len(buf) : buf[i] = e[i]
  <2>1. e \in Text /\ buf \o rest = e
    BY RequestText, Zenon
  <2> HIDE DEF e
  <2> QED BY <2>1, StartOf
<1>m. MaxLineLen \in Nat /\ MaxLineLen >= 3
  BY ProtocolAssumption
<1>1. CASE r = Ping
  <2>1. Len(e) = 2 /\ e[1] = "PING" /\ e[2] = LF
    BY <1>1, RequestText, Zenon
  <2> HIDE DEF e
  <2>2. Len(buf) <= MaxLineLen /\ \A j \in 1 .. Len(buf) : buf[j] \notin {LF, HugeKey}
    BY <1>0, <1>m, <2>1 DEF LF, HugeKey
  <2> QED BY <2>2, RequestWaits
<1>2. CASE r \in [command : {"Get", "Delete"}, key : {CR, SP, LongKey} \cup Keys, value : {None}]
  <2> DEFINE w == IF r.command = "Get" THEN "GET" ELSE "DELETE"
  <2>1. Len(e) = 3 /\ e[1] = w /\ e[2] = r.key /\ e[3] = LF
    BY <1>2, RequestText, Zenon
  <2> HIDE DEF e
  <2>2. r.key \notin {LF, HugeKey} /\ w \notin {LF, HugeKey}
    BY <1>2, ProtocolAssumption, Zenon DEF LF, CR, SP, LongKey, HugeKey, is_valid_key
  <2> HIDE DEF w
  <2>3. Len(buf) <= MaxLineLen /\ \A j \in 1 .. Len(buf) : buf[j] \notin {LF, HugeKey}
    BY <1>0, <1>m, <2>1, <2>2
  <2> QED BY <2>3, RequestWaits
<1>3. CASE r \in [command : {"Set"}, key : Keys, value : Values]
  <2> DEFINE n == Len(r.value)
  <2>1. /\ r.value \in Text /\ n \in Nat /\ n \in 0 .. 8 /\ n \in 0 .. MaxValueLen
        /\ r.key # LF /\ is_valid_key(r.key)
    BY <1>3, SetFacts, Zenon
  <2>2. /\ Len(e) = n + 5 /\ e[1] = "SET" /\ e[2] = r.key /\ e[3] = Numeral(n) /\ e[4] = LF
        /\ e[n + 5] = LF /\ \A i \in 1 .. n : e[4 + i] = r.value[i]
    BY <1>3, RequestText, Zenon
  <2> HIDE DEF e, n
  <2>3. \A j \in 1 .. 3 : e[j] \notin {LF, HugeKey}
    <3>1. Numeral(n) \notin {LF, HugeKey}
      BY <2>1, NumeralIs, Zenon
    <3>2. r.key \notin {LF, HugeKey}
      BY <2>1, Zenon DEF is_valid_key
    <3> QED BY <2>2, <3>1, <3>2 DEF LF, HugeKey
  <2>4. CASE Len(buf) < 4
    <3>1. Len(buf) <= MaxLineLen
      BY <1>0, <1>m, <2>4
    <3>2. \A j \in 1 .. Len(buf) : j \in 1 .. 3
      BY <1>0, <2>4
    <3>3. \A j \in 1 .. Len(buf) : buf[j] \notin {LF, HugeKey}
      BY <1>0, <2>3, <3>2, Zenon
    <3> QED BY <3>1, <3>3, RequestWaits, Zenon
  <2>5. CASE Len(buf) >= 4
    <3>1. /\ buf[1] = "SET" /\ buf[2] = r.key /\ buf[3] = Numeral(n) /\ buf[4] = LF
          /\ 4 \in 1 .. Len(buf) /\ \A j \in 1 .. 4 - 1 : buf[j] # LF
      <4>1. Len(buf) \in Nat /\ \A i \in 1 .. Len(buf) : buf[i] = e[i]
        BY <1>0, Zenon
      <4>2. 1 \in 1 .. Len(buf) /\ 2 \in 1 .. Len(buf) /\ 3 \in 1 .. Len(buf) /\ 4 \in 1 .. Len(buf)
        BY <2>5, <4>1
      <4>3. \A j \in 1 .. 4 - 1 : j \in 1 .. 3 /\ j \in 1 .. Len(buf)
        BY <2>5, <4>1
      <4> QED BY <2>2, <2>3, <4>1, <4>2, <4>3, Zenon
    <3>2. LineEnd(buf) = 4
      BY <3>1, LineEndIs, Zenon
    <3>3. HasValue(e, 4, r.value)
      BY <1>0, <2>1, <2>2 DEF n, HasValue
    <3>4. ParseValue(buf, 4, n) = Incomplete(buf)
      BY <3>3, ValueWaits, Zenon DEF e, n
    <3>5. PICK v : v = ParseValue(buf, 4, n)
      BY Zenon
    <3>6. try_parse_request(buf) = [v EXCEPT !.parsed = IF v.status = "Complete"
                                 THEN [command |-> "Set", key |-> buf[2], value |-> @]
                                 ELSE None]
      BY <2>1, <2>5, <3>1, <3>2, <3>5, RequestSet
    <3> QED BY <3>4, <3>5, <3>6 DEF Incomplete
  <2> QED BY <1>0, <2>4, <2>5
<1> QED BY <1>1, <1>2, <1>3 DEF Sendable

\* Fed all of it, it has the request, or an error if the key is not valid, and
\* leaves what follows.
LEMMA RequestWhole ==
  ASSUME NEW r \in Sendable, NEW tail, NEW buf, Begins(buf, encode_request(r), tail)
  PROVE  try_parse_request(buf) = IF Acceptable(r) THEN Complete(r, tail) ELSE Failure(tail)
<1> DEFINE e == encode_request(r)
<1>0. /\ e \in Text /\ buf \in Text /\ Len(e) \in Nat /\ Len(buf) \in Nat /\ Len(e) <= Len(buf)
      /\ Dropped(buf, Len(e)) = tail
      /\ \A i \in 1 .. Len(e) : buf[i] = e[i]
  BY Zenon DEF Begins
<1>1. CASE r = Ping
  <2>1. Len(e) = 2 /\ e[1] = "PING" /\ e[2] = LF
    BY <1>1, RequestText, Zenon
  <2> HIDE DEF e
  <2>2. /\ Len(buf) >= 2 /\ buf[1] = "PING" /\ buf[2] = LF
        /\ 2 \in 1 .. Len(buf) /\ \A j \in 1 .. 2 - 1 : buf[j] # LF
    BY <1>0, <2>1 DEF LF
  <2>3. LineEnd(buf) = 2
    BY <1>0, <2>2, LineEndIs, Zenon
  <2> DEFINE line == SubSeq(buf, 1, 1)
  <2>4. line \in Text /\ Len(line) = 1 /\ line[1] = "PING"
    <3>1. 1 \in Nat /\ 1 <= Len(buf)
      BY <1>0, <2>2
    <3>2. line \in Text /\ Len(line) = 1 /\ \A i \in 1 .. 1 : line[i] = buf[i]
      BY <1>0, <3>1, LineOf, Zenon
    <3> HIDE DEF line
    <3> QED BY <2>2, <3>2
  <2>5. line = strip_trailing_cr(SubSeq(buf, 1, 2 - 1))
    <3>1. 2 - 1 = 1
      OBVIOUS
    <3>2. strip_trailing_cr(line) = line
      <4> HIDE DEF line
      <4>1. line # <<>> /\ line[Len(line)] # CR
        BY <2>4, NotEmpty, Zenon DEF CR
      <4> QED BY <2>4, <4>1, StripIs, Zenon
    <3> QED BY <3>1, <3>2, Zenon
  <2> HIDE DEF line
  <2>6. line = <<"PING">>
    <3>1. "PING" \in Symbol
      BY Zenon DEF Symbol
    <3> QED BY <2>4, <3>1, OneToken
  <2>7. try_parse_request(buf) = ParseLine(line, Dropped(buf, 2))
    <3>1. 2 \in Nat \ {0} /\ Len(line) # 3
      BY <2>4
    <3> QED BY <2>3, <2>5, <3>1, RequestLine, Zenon
  <2>8. ParseLine(line, tail) = Complete(r, tail) /\ Acceptable(r)
    BY <1>1, <2>6 DEF ParseLine, Acceptable
  <2> QED BY <1>0, <2>1, <2>7, <2>8, Zenon
<1>2. CASE r \in [command : {"Get", "Delete"}, key : {CR, SP, LongKey} \cup Keys, value : {None}]
  <2> DEFINE w == IF r.command = "Get" THEN "GET" ELSE "DELETE"
  <2>1. Len(e) = 3 /\ e[1] = w /\ e[2] = r.key /\ e[3] = LF
    BY <1>2, RequestText
  <2> HIDE DEF e
  <2>2. r.key # LF /\ w # LF /\ w # CR /\ w # "PING" /\ w \in {"GET", "DELETE"}
    BY <1>2, ProtocolAssumption, Zenon DEF LF, CR, SP, LongKey
  <2>3. r = [command |-> IF w = "GET" THEN "Get" ELSE "Delete", key |-> r.key, value |-> None]
    BY <1>2, Zenon
  <2> HIDE DEF w
  <2>4. Acceptable(r) <=> is_valid_key(r.key)
    BY <1>2 DEF Acceptable, Ping
  <2>5. /\ Len(buf) >= 3 /\ buf[1] = w /\ buf[2] = r.key /\ buf[3] = LF
        /\ 3 \in 1 .. Len(buf) /\ \A j \in 1 .. 3 - 1 : buf[j] # LF
    BY <1>0, <2>1, <2>2
  <2>6. LineEnd(buf) = 3
    BY <1>0, <2>5, LineEndIs, Zenon
  <2> DEFINE l == SubSeq(buf, 1, 2)
             line == strip_trailing_cr(l)
  <2>7. l \in Text /\ Len(l) = 2 /\ l[1] = w /\ l[2] = r.key
    <3>1. 2 \in Nat /\ 2 <= Len(buf)
      BY <1>0, <2>5
    <3>2. l \in Text /\ Len(l) = 2 /\ \A i \in 1 .. 2 : l[i] = buf[i]
      BY <1>0, <3>1, LineOf, Zenon
    <3> HIDE DEF l
    <3> QED BY <2>5, <3>2
  <2>8. line = strip_trailing_cr(SubSeq(buf, 1, 3 - 1))
    <3>1. 3 - 1 = 2
      OBVIOUS
    <3> QED BY <3>1, Zenon
  <2> HIDE DEF l
  <2>9. l # <<>>
    BY <2>7, NotEmpty, Zenon
  <2>10. CASE r.key = CR
    <3>1. line = SubSeq(l, 1, 1)
      <4>1. l[Len(l)] = CR /\ Len(l) - 1 = 1
        BY <2>7, <2>10
      <4> QED BY <2>7, <2>9, <4>1, StripIs, Zenon
    <3>2. line \in Text /\ Len(line) = 1 /\ line[1] = w
      <4>1. 1 \in Nat /\ 1 <= Len(l)
        BY <2>7
      <4>2. line \in Text /\ Len(line) = 1 /\ \A i \in 1 .. 1 : line[i] = l[i]
        BY <2>7, <3>1, <4>1, LineOf, ZenonT(40)
      <4> HIDE DEF line
      <4> QED BY <2>7, <4>2
    <3> HIDE DEF line
    <3>3. try_parse_request(buf) = ParseLine(line, Dropped(buf, 3))
      <4>1. 3 \in Nat \ {0} /\ Len(line) # 3
        BY <3>2
      <4> QED BY <2>6, <2>8, <4>1, RequestLine, Zenon
    <3>4. line # <<"PING">> /\ Len(line) # 2
      BY <2>2, <3>2
    <3>5. ParseLine(line, tail) = Failure(tail)
      BY <3>4, Zenon DEF ParseLine
    <3>6. ~Acceptable(r)
      BY <2>4, <2>10 DEF is_valid_key
    <3> QED BY <1>0, <2>1, <3>3, <3>5, <3>6, Zenon
  <2>11. CASE r.key # CR
    <3>1. line = l
      <4>1. l[Len(l)] # CR
        BY <2>7, <2>11, Zenon
      <4> QED BY <2>7, <2>9, <4>1, StripIs, Zenon
    <3> HIDE DEF line
    <3>2. try_parse_request(buf) = ParseLine(l, Dropped(buf, 3))
      <4>1. 3 \in Nat \ {0} /\ Len(l) # 3
        BY <2>7
      <4> QED BY <2>6, <2>8, <3>1, <4>1, RequestLine, Zenon
    <3>3. l # <<"PING">>
      BY <2>2, <2>7
    <3>4. ParseLine(l, tail) = IF Acceptable(r) THEN Complete(r, tail) ELSE Failure(tail)
      BY <2>2, <2>3, <2>4, <2>7, <3>3, Zenon DEF ParseLine
    <3> QED BY <1>0, <2>1, <3>2, <3>4, Zenon
  <2> QED BY <2>10, <2>11
<1>3. CASE r \in [command : {"Set"}, key : Keys, value : Values]
  <2> DEFINE n == Len(r.value)
  <2>1. /\ r.value \in Text /\ n \in Nat /\ n \in 0 .. 8 /\ n \in 0 .. MaxValueLen
        /\ r.key # LF /\ is_valid_key(r.key)
    BY <1>3, SetFacts, Zenon
  <2>2. /\ Len(e) = n + 5 /\ e[1] = "SET" /\ e[2] = r.key /\ e[3] = Numeral(n) /\ e[4] = LF
        /\ e[n + 5] = LF /\ \A i \in 1 .. n : e[4 + i] = r.value[i]
    BY <1>3, RequestText, Zenon
  <2> HIDE DEF e, n
  <2>3. Numeral(n) # LF
    BY <2>1, NumeralIs, Zenon
  <2>4. /\ Len(buf) >= 4 /\ buf[1] = "SET" /\ buf[2] = r.key /\ buf[3] = Numeral(n) /\ buf[4] = LF
        /\ 4 \in 1 .. Len(buf) /\ \A j \in 1 .. 4 - 1 : buf[j] # LF
    BY <1>0, <2>1, <2>2, <2>3 DEF LF
  <2>5. LineEnd(buf) = 4
    BY <1>0, <2>4, LineEndIs, Zenon
  <2>6. HasValue(e, 4, r.value)
    BY <1>0, <2>1, <2>2 DEF n, HasValue
  <2>7. ParseValue(buf, 4, n) = Complete(r.value, tail)
    BY <2>6, ValueIs, ZenonT(40) DEF e, n
  <2>8. PICK v : v = ParseValue(buf, 4, n)
    BY Zenon
  <2>9. try_parse_request(buf) = [v EXCEPT !.parsed = IF v.status = "Complete"
                                 THEN [command |-> "Set", key |-> buf[2], value |-> @]
                                 ELSE None]
    BY <1>0, <2>1, <2>4, <2>5, <2>8, RequestSet
  <2>10. r = [command |-> "Set", key |-> r.key, value |-> r.value]
    BY <1>3, Zenon
  <2>11. Acceptable(r)
    BY <2>1 DEF Acceptable, n
  <2> QED BY <2>4, <2>7, <2>8, <2>9, <2>10, <2>11 DEF Complete
<1> QED BY <1>1, <1>2, <1>3 DEF Sendable

-----------------------------------------------------------------------------
(* The response parser.                                                    *)

\* The word w of a response of type t without a value.
IsWord(t, w) ==
  \/ t = "Ok" /\ w = "OK"
  \/ t = "Deleted" /\ w = "DELETED"
  \/ t = "NotFound" /\ w = "NOT_FOUND"
  \/ t = "Pong" /\ w = "PONG"

\* No line feed yet: it waits.
LEMMA ResponseWaits ==
  ASSUME NEW buf \in Text, \A j \in 1 .. Len(buf) : buf[j] # LF
  PROVE  try_parse_response(buf).status = "Incomplete"
<1>1. LineEnd(buf) = 0
  BY NoLineEnd
<1>2. try_parse_response(buf) = Incomplete(buf)
  BY <1>1 DEF try_parse_response
<1> QED BY <1>2 DEF Incomplete

\* A word.
LEMMA ResponseWord ==
  ASSUME NEW buf, LineEnd(buf) = 2, NEW line, line = strip_trailing_cr(SubSeq(buf, 1, 2 - 1)),
         NEW t, Len(line) = 1, IsWord(t, line[1])
  PROVE  try_parse_response(buf) = Complete(Plain(t), Dropped(buf, 2))
BY DEF try_parse_response, IsWord

\* An error.
LEMMA ResponseError ==
  ASSUME NEW buf, LineEnd(buf) = 3, NEW line, line = strip_trailing_cr(SubSeq(buf, 1, 3 - 1)),
         Len(line) = 2, line # <<>>, line[1] = "ERROR"
  PROVE  try_parse_response(buf) = Complete(ErrorResponse, Dropped(buf, 3))
BY DEF try_parse_response

\* A value.
LEMMA ResponseValue ==
  ASSUME NEW buf, LineEnd(buf) = 3, NEW line, line = strip_trailing_cr(SubSeq(buf, 1, 3 - 1)),
         Len(line) = 2, line[1] = "VALUE", NEW n \in Nat, parse_length(line[2]) = n,
         NEW v, v = ParseValue(buf, 3, n)
  PROVE  try_parse_response(buf) =
           [v EXCEPT !.parsed = IF v.status = "Complete" THEN [type |-> "Value", value |-> @] ELSE None]
BY DEF try_parse_response

\* What a server writes.
LEMMA ResponseText ==
  ASSUME NEW d \in Response, NEW e, e = encode_response(d)
  PROVE  /\ e \in Text
         /\ d.type \notin {"Value", "Error"} =>
              /\ d = Plain(d.type) /\ Len(e) = 2 /\ IsWord(d.type, e[1]) /\ e[2] = LF
         /\ d.type = "Error" =>
              d = ErrorResponse /\ Len(e) = 3 /\ e[1] = "ERROR" /\ e[2] = "message" /\ e[3] = LF
         /\ d.type = "Value" =>
              /\ d = [type |-> "Value", value |-> d.value] /\ d.value \in Values
              /\ e[1] = "VALUE" /\ e[2] = Numeral(Len(d.value)) /\ e[3] = LF
              /\ HasValue(e, 3, d.value)
<1>0. LF \in Symbol
  BY Zenon DEF Symbol
<1>1. CASE d \in [type : {"Ok", "Deleted", "NotFound", "Pong"}, value : {None}]
  <2>1. d.type \in {"Ok", "Deleted", "NotFound", "Pong"} /\ d = Plain(d.type)
    BY <1>1, Zenon DEF Plain
  <2>2. PICK w : e = <<w, LF>> /\ IsWord(d.type, w)
    BY <2>1 DEF encode_response, IsWord
  <2>3. w \in Symbol
    BY <2>2, Zenon DEF Symbol, IsWord
  <2>4. e \in Text /\ Len(e) = 2 /\ e[1] = w /\ e[2] = LF
    BY <1>0, <2>2, <2>3 DEF Text
  <2> QED BY <2>1, <2>2, <2>4
<1>2. CASE d \in [type : {"Error"}, value : {None}]
  <2>1. d.type = "Error" /\ d = ErrorResponse
    BY <1>2, Zenon DEF ErrorResponse, Plain
  <2>2. e = <<"ERROR", "message", LF>>
    BY <2>1, Zenon DEF encode_response
  <2>3. "ERROR" \in Symbol /\ "message" \in Symbol
    BY Zenon DEF Symbol
  <2>4. e \in Text /\ Len(e) = 3 /\ e[1] = "ERROR" /\ e[2] = "message" /\ e[3] = LF
    BY <1>0, <2>2, <2>3 DEF Text
  <2> QED BY <2>1, <2>4
<1>3. CASE d \in [type : {"Value"}, value : Values]
  <2> DEFINE v == d.value
  <2>1. d.type = "Value" /\ v \in Values /\ d = [type |-> "Value", value |-> v]
    BY <1>3, Zenon
  <2>2. v \in Text /\ Len(v) \in Nat /\ Len(v) <= MaxValueLen
    <3>1. v \in Text /\ Len(v) <= MaxValueLen
      BY <2>1, ProtocolAssumption
    <3> QED BY <3>1 DEF Text
  <2>3. Numeral(Len(v)) \in Symbol /\ "VALUE" \in Symbol
    <3>1. Len(v) \in 0 .. 8
      BY <2>2, OneDigit, Zenon
    <3>2. Numeral(Len(v)) \in Symbol
      BY <3>1, NumeralIs, Zenon
    <3> QED BY <3>2 DEF Symbol
  <2>4. PICK m \in Symbol : m = Numeral(Len(v))
    BY <2>3, Zenon
  <2> DEFINE h == <<"VALUE", m, LF>>
             f == h \o v \o <<LF>>
  <2>5. e = f
    BY <2>1, <2>4 DEF encode_response
  <2>6. h \in Text /\ Len(h) = 3 /\ h[1] = "VALUE" /\ h[2] = m /\ h[3] = LF
    BY <1>0, <2>3 DEF Text
  <2> HIDE DEF h, v
  <2>7. /\ f \in Text /\ Len(f) = Len(h) + Len(v) + 1 /\ \A i \in 1 .. Len(h) : f[i] = h[i]
        /\ f[Len(h) + Len(v) + 1] = LF /\ \A i \in 1 .. Len(v) : f[Len(h) + i] = v[i]
    BY <2>2, <2>6, Framed, Zenon
  <2> HIDE DEF f
  <2>8. /\ f \in Text /\ Len(f) = 3 + Len(v) + 1 /\ \A i \in 1 .. 3 : f[i] = h[i]
        /\ f[3 + Len(v) + 1] = LF /\ \A i \in 1 .. Len(v) : f[3 + i] = v[i]
    <3>1. Len(h) = 3
      BY <2>6, Zenon
    <3> QED BY <2>7, <3>1, Zenon
  <2>9. HasValue(f, 3, v)
    BY <2>2, <2>8 DEF HasValue
  <2>10. f[1] = "VALUE" /\ f[2] = m /\ f[3] = LF
    BY <2>6, <2>8
  <2> QED BY <2>1, <2>4, <2>5, <2>8, <2>9, <2>10, Zenon DEF v
<1> QED BY <1>1, <1>2, <1>3 DEF Response

\* What is known of the response that carries a value.
LEMMA ValueFacts ==
  ASSUME NEW v \in Values
  PROVE  v \in Text /\ Len(v) \in Nat /\ Len(v) \in 0 .. 8 /\ Len(v) \in 0 .. MaxValueLen
<1>1. v \in Text /\ Len(v) <= MaxValueLen
  BY ProtocolAssumption, Zenon
<1>2. Len(v) \in Nat
  BY <1>1 DEF Text
<1> QED BY <1>1, <1>2, OneDigit, Zenon

\* The line feed of a response's line.
LEMMA ResponseLine ==
  ASSUME NEW d \in Response, NEW e, e = encode_response(d)
  PROVE  /\ e \in Text
         /\ d.type \notin {"Value", "Error"} => Len(e) = 2 /\ e[2] = LF /\ e[1] # LF /\ e[1] # CR
         /\ d.type \in {"Value", "Error"} =>
              Len(e) >= 3 /\ e[3] = LF /\ e[1] # LF /\ e[2] # LF /\ e[2] # CR
<1>0. e \in Text
  BY ResponseText, Zenon
<1>1. CASE d.type \notin {"Value", "Error"}
  <2>1. Len(e) = 2 /\ IsWord(d.type, e[1]) /\ e[2] = LF
    BY <1>1, ResponseText, Zenon
  <2>2. e[1] # LF /\ e[1] # CR
    BY <2>1 DEF IsWord, LF, CR
  <2> QED BY <1>0, <1>1, <2>1, <2>2, Zenon
<1>2. CASE d.type = "Error"
  <2>1. Len(e) = 3 /\ e[1] = "ERROR" /\ e[2] = "message" /\ e[3] = LF
    BY <1>2, ResponseText, Zenon
  <2> QED BY <1>0, <1>2, <2>1 DEF LF, CR
<1>3. CASE d.type = "Value"
  <2>1. e[3] = LF /\ e[1] = "VALUE" /\ e[2] = Numeral(Len(d.value)) /\ HasValue(e, 3, d.value) /\ d.value \in Values
    BY <1>3, ResponseText, Zenon
  <2>2. Len(d.value) \in Nat /\ Len(d.value) \in 0 .. 8
    BY <2>1, ValueFacts, Zenon
  <2>3. e[2] # LF /\ e[2] # CR
    BY <2>1, <2>2, NumeralIs, Zenon
  <2>4. Len(e) >= 3
    BY <2>1, <2>2 DEF HasValue
  <2>5. e[1] # LF
    BY <2>1, Zenon DEF LF
  <2> QED BY <1>0, <1>3, <2>1, <2>3, <2>4, <2>5, Zenon
<1> QED BY <1>1, <1>2, <1>3

\* The line of a response that has two tokens.
LEMMA ResponseTokens ==
  ASSUME NEW buf \in Text, Len(buf) >= 3, buf[3] = LF, buf[1] # LF, buf[2] # LF, buf[2] # CR,
         NEW line, line = SubSeq(buf, 1, 2)
  PROVE  /\ LineEnd(buf) = 3 /\ line = strip_trailing_cr(SubSeq(buf, 1, 3 - 1))
         /\ line # <<>> /\ Len(line) = 2 /\ line[1] = buf[1] /\ line[2] = buf[2]
<1>0. Len(buf) \in Nat
  BY DEF Text
<1>1. 3 \in 1 .. Len(buf) /\ \A j \in 1 .. 3 - 1 : buf[j] # LF
  BY <1>0
<1>2. LineEnd(buf) = 3
  BY <1>1, LineEndIs, Zenon
<1>3. 2 \in Nat /\ 2 <= Len(buf) /\ 3 - 1 = 2
  BY <1>0
<1>4. line \in Text /\ Len(line) = 2 /\ \A i \in 1 .. 2 : line[i] = buf[i]
  BY <1>3, LineOf, ZenonT(40)
<1>5. line[1] = buf[1] /\ line[2] = buf[2]
  BY <1>4
<1>6. line # <<>> /\ line[Len(line)] # CR
  BY <1>4, <1>5, NotEmpty
<1>7. strip_trailing_cr(line) = line
  BY <1>4, <1>6, StripIs, Zenon
<1> QED BY <1>2, <1>3, <1>4, <1>5, <1>6, <1>7, Zenon

\* Fed a part of a response, a client waits.
LEMMA ResponsePart ==
  ASSUME NEW d \in Response, NEW buf \in Text, NEW rest \in Text, buf \o rest = encode_response(d),
         rest # <<>>
  PROVE  try_parse_response(buf).status = "Incomplete"
<1> DEFINE e == encode_response(d)
<1>0. e \in Text /\ Len(buf) \in Nat /\ Len(buf) < Len(e) /\ \A i \in 1 .. Len(buf) : buf[i] = e[i]
  <2>1. e \in Text /\ buf \o rest = e
    BY ResponseText, Zenon
  <2> HIDE DEF e
  <2> QED BY <2>1, StartOf
<1>1. /\ d.type \notin {"Value", "Error"} => Len(e) = 2 /\ e[2] = LF /\ e[1] # LF /\ e[1] # CR
      /\ d.type \in {"Value", "Error"} =>
           Len(e) >= 3 /\ e[3] = LF /\ e[1] # LF /\ e[2] # LF /\ e[2] # CR
  BY ResponseLine, Zenon
<1>2. CASE d.type \notin {"Value", "Error"} \/ Len(buf) < 3
  <2> HIDE DEF e
  <2>1. \A j \in 1 .. Len(buf) : buf[j] # LF
    <3>1. CASE d.type \notin {"Value", "Error"}
      <4>1. Len(e) = 2 /\ e[1] # LF
        BY <1>1, <3>1, Zenon
      <4> QED BY <1>0, <4>1
    <3>2. CASE d.type \in {"Value", "Error"}
      <4>1. Len(buf) < 3 /\ e[1] # LF /\ e[2] # LF
        BY <1>1, <1>2, <3>2, Zenon
      <4> QED BY <1>0, <4>1
    <3> QED BY <3>1, <3>2
  <2> QED BY <2>1, ResponseWaits
<1>3. CASE d.type = "Error" /\ Len(buf) >= 3
  <2>1. Len(e) = 3
    BY <1>3, ResponseText, Zenon
  <2> HIDE DEF e
  <2> QED BY <1>0, <1>3, <2>1
<1>4. CASE d.type = "Value" /\ Len(buf) >= 3
  <2> DEFINE n == Len(d.value)
  <2>1. d.value \in Values /\ e[1] = "VALUE" /\ e[2] = Numeral(n) /\ HasValue(e, 3, d.value)
    BY <1>4, ResponseText, Zenon
  <2>2. ParseValue(buf, 3, n) = Incomplete(buf)
    BY <2>1, ValueWaits, Zenon
  <2> HIDE DEF e
  <2>3. buf[1] = "VALUE" /\ buf[2] = Numeral(n) /\ buf[3] = LF /\ buf[1] # LF /\ buf[2] # LF /\ buf[2] # CR
    <3>1. 1 \in 1 .. Len(buf) /\ 2 \in 1 .. Len(buf) /\ 3 \in 1 .. Len(buf)
      BY <1>0, <1>4
    <3> QED BY <1>0, <1>1, <1>4, <2>1, <3>1, Zenon
  <2> DEFINE line == SubSeq(buf, 1, 2)
  <2>4. /\ LineEnd(buf) = 3 /\ line = strip_trailing_cr(SubSeq(buf, 1, 3 - 1))
        /\ Len(line) = 2 /\ line[1] = buf[1] /\ line[2] = buf[2]
    BY <1>4, <2>3, ResponseTokens, Zenon
  <2> HIDE DEF line
  <2>5. n \in Nat /\ parse_length(line[2]) = n
    <3>1. n \in Nat /\ n \in 0 .. MaxValueLen
      BY <2>1, ValueFacts, Zenon
    <3> QED BY <2>3, <2>4, <3>1, LengthIs, Zenon
  <2>6. PICK v : v = ParseValue(buf, 3, n)
    BY Zenon
  <2>7. try_parse_response(buf) =
          [v EXCEPT !.parsed = IF v.status = "Complete" THEN [type |-> "Value", value |-> @] ELSE None]
    <3> HIDE DEF n
    <3>1. line[1] = "VALUE"
      BY <2>3, <2>4, Zenon
    <3> QED BY <2>4, <2>5, <2>6, <3>1, ResponseValue
  <2> QED BY <2>2, <2>6, <2>7 DEF Incomplete
<1> QED BY <1>0, <1>2, <1>3, <1>4

\* Fed all of it, it has the response, and leaves what follows.
LEMMA ResponseWhole ==
  ASSUME NEW d \in Response, NEW tail, NEW buf, Begins(buf, encode_response(d), tail)
  PROVE  try_parse_response(buf) = Complete(d, tail)
<1> DEFINE e == encode_response(d)
<1>0. /\ buf \in Text /\ Len(e) \in Nat /\ Len(buf) \in Nat /\ Len(e) <= Len(buf)
      /\ Dropped(buf, Len(e)) = tail
      /\ \A i \in 1 .. Len(e) : buf[i] = e[i]
  BY Zenon DEF Begins
<1>1. /\ d.type \notin {"Value", "Error"} => Len(e) = 2 /\ e[2] = LF /\ e[1] # LF /\ e[1] # CR
      /\ d.type \in {"Value", "Error"} =>
           Len(e) >= 3 /\ e[3] = LF /\ e[1] # LF /\ e[2] # LF /\ e[2] # CR
  BY ResponseLine, Zenon
<1>2. CASE d.type \notin {"Value", "Error"}
  <2>1. d = Plain(d.type) /\ Len(e) = 2 /\ IsWord(d.type, e[1])
    BY <1>2, ResponseText, Zenon
  <2> HIDE DEF e
  <2>2. /\ Len(buf) >= 2 /\ buf[1] = e[1] /\ buf[2] = LF /\ 2 \in 1 .. Len(buf)
        /\ \A j \in 1 .. 2 - 1 : buf[j] # LF
    BY <1>0, <1>1, <1>2
  <2>3. LineEnd(buf) = 2
    BY <1>0, <2>2, LineEndIs, Zenon
  <2> DEFINE line == SubSeq(buf, 1, 1)
  <2>4. line \in Text /\ Len(line) = 1 /\ line[1] = e[1]
    <3>1. 1 \in Nat /\ 1 <= Len(buf)
      BY <1>0, <2>2
    <3>2. line \in Text /\ Len(line) = 1 /\ \A i \in 1 .. 1 : line[i] = buf[i]
      BY <1>0, <3>1, LineOf, ZenonT(40)
    <3> HIDE DEF line
    <3> QED BY <2>2, <3>2
  <2>5. line = strip_trailing_cr(SubSeq(buf, 1, 2 - 1))
    <3>1. 2 - 1 = 1
      OBVIOUS
    <3>2. strip_trailing_cr(line) = line
      <4> HIDE DEF line
      <4>1. line # <<>> /\ line[Len(line)] # CR
        BY <1>1, <1>2, <2>4, NotEmpty, Zenon
      <4> QED BY <2>4, <4>1, StripIs, Zenon
    <3> QED BY <3>1, <3>2, Zenon
  <2> HIDE DEF line
  <2>6. IsWord(d.type, line[1])
    BY <2>1, <2>4, Zenon
  <2>7. try_parse_response(buf) = Complete(Plain(d.type), Dropped(buf, 2))
    BY <2>3, <2>4, <2>5, <2>6, ResponseWord, Zenon
  <2> QED BY <1>0, <2>1, <2>7, Zenon
<1>3. CASE d.type \in {"Value", "Error"}
  <2> DEFINE line == SubSeq(buf, 1, 2)
  <2>1. /\ Len(buf) >= 3 /\ buf[1] = e[1] /\ buf[2] = e[2] /\ buf[3] = LF
        /\ buf[1] # LF /\ buf[2] # LF /\ buf[2] # CR
    <3> HIDE DEF e
    <3> QED BY <1>0, <1>1, <1>3
  <2>2. /\ LineEnd(buf) = 3 /\ line = strip_trailing_cr(SubSeq(buf, 1, 3 - 1)) /\ line # <<>>
        /\ Len(line) = 2 /\ line[1] = e[1] /\ line[2] = e[2]
    BY <1>0, <2>1, ResponseTokens, Zenon
  <2> HIDE DEF line
  <2>3. CASE d.type = "Error"
    <3>1. d = ErrorResponse /\ Len(e) = 3 /\ e[1] = "ERROR"
      BY <2>3, ResponseText, Zenon
    <3> HIDE DEF e
    <3>2. try_parse_response(buf) = Complete(ErrorResponse, Dropped(buf, 3))
      <4>1. line[1] = "ERROR"
        BY <2>2, <3>1, Zenon
      <4> QED BY <2>2, <4>1, ResponseError
    <3> QED BY <1>0, <3>1, <3>2, Zenon
  <2>4. CASE d.type = "Value"
    <3> DEFINE n == Len(d.value)
    <3>1. /\ d = [type |-> "Value", value |-> d.value] /\ d.value \in Values
          /\ e[1] = "VALUE" /\ e[2] = Numeral(n) /\ HasValue(e, 3, d.value)
      BY <2>4, ResponseText, Zenon
    <3>2. ParseValue(buf, 3, n) = Complete(d.value, tail)
      <4>1. HasValue(e, 3, d.value)
        BY <3>1, Zenon
      <4> QED BY <4>1, ValueIs, ZenonT(40)
    <3> HIDE DEF e
    <3>3. n \in Nat /\ parse_length(line[2]) = n
      <4>1. n \in Nat /\ n \in 0 .. MaxValueLen
        BY <3>1, ValueFacts, Zenon
      <4> QED BY <2>2, <3>1, <4>1, LengthIs, Zenon
    <3>4. PICK v : v = ParseValue(buf, 3, n)
      OBVIOUS
    <3>5. try_parse_response(buf) =
            [v EXCEPT !.parsed = IF v.status = "Complete" THEN [type |-> "Value", value |-> @] ELSE None]
      <4> HIDE DEF n
      <4>1. line[1] = "VALUE"
        BY <2>2, <3>1, Zenon
      <4> QED BY <2>2, <3>3, <3>4, <4>1, ResponseValue
    <3> QED BY <3>1, <3>2, <3>4, <3>5 DEF Complete
  <2> QED BY <1>3, <2>3, <2>4
<1> QED BY <1>2, <1>3

\* A server and a client find nothing in an empty buffer.
LEMMA NothingParsed ==
  try_parse_request(<<>>).status = "Incomplete" /\ try_parse_response(<<>>).status = "Incomplete"
<1>1. <<>> \in Text /\ Len(<<>>) = 0
  BY DEF Text
<1>2. Len(<<>>) <= MaxLineLen /\ \A j \in 1 .. Len(<<>>) : <<>>[j] \notin {LF, HugeKey}
  BY <1>1, ProtocolAssumption
<1> QED BY <1>1, <1>2, RequestWaits, ResponseWaits

-----------------------------------------------------------------------------
(* The codec.                                                              *)

\* What encode_request() makes of a request whose line is not too long,
\* try_parse_request() takes back, whatever follows it in the buffer and stays
\* there: the request itself, or one error if its key is not valid.  Of less than
\* all of it nothing is taken.
THEOREM RequestsRoundTrip ==
  ASSUME NEW r \in Sendable
  PROVE  /\ \A tail \in Text :
              try_parse_request(encode_request(r) \o tail)
                = IF Acceptable(r) THEN Complete(r, tail) ELSE Failure(tail)
         /\ \A buf, rest \in Text : buf \o rest = encode_request(r) /\ rest # <<>> =>
              try_parse_request(buf).status = "Incomplete"
<1>1. \A tail \in Text : Begins(encode_request(r) \o tail, encode_request(r), tail)
  BY RequestText, FrontOf, Zenon
<1> QED BY <1>1, RequestWhole, RequestPart, Zenon

\* The same of encode_response() and try_parse_response(), which rejects none.
THEOREM ResponsesRoundTrip ==
  ASSUME NEW d \in Response
  PROVE  /\ \A tail \in Text : try_parse_response(encode_response(d) \o tail) = Complete(d, tail)
         /\ \A buf, rest \in Text : buf \o rest = encode_response(d) /\ rest # <<>> =>
              try_parse_response(buf).status = "Incomplete"
<1>1. \A tail \in Text : Begins(encode_response(d) \o tail, encode_response(d), tail)
  BY ResponseText, FrontOf, Zenon
<1> QED BY <1>1, ResponseWhole, ResponsePart, Zenon
=============================================================================
