------------------------ MODULE RequestStreamProofs ------------------------
(***************************************************************************)
(* Proofs about RequestStream.tla: whatever is written and however it is   *)
(* cut, the buffer stays short; whole messages are handled one by one, in  *)
(* order, each like the only one.                                          *)
(***************************************************************************)
EXTENDS RequestStream, ProtocolProofs, WellFoundedInduction

-----------------------------------------------------------------------------
(* try_parse_request, with names for its parts.                            *)

FirstLine(buf) == strip_trailing_cr(SubSeq(buf, 1, LineEnd(buf) - 1))

LengthOf(line) == IF Len(line) = 3 THEN parse_length(line[3]) ELSE -1

IsSetLine(line) == LengthOf(line) # -1 /\ line[1] = "SET" /\ is_valid_key(line[2])

WithKey(v, key) ==
  [v EXCEPT !.parsed = IF v.status = "Complete"
                       THEN [command |-> "Set", key |-> key, value |-> @] ELSE None]

\* The branches of the parser.
LEMMA ParserIs ==
  ASSUME NEW buf
  PROVE  /\ LineEnd(buf) = 0 =>
              try_parse_request(buf) = IF LineTooLong(buf) THEN Failure(buf) ELSE Incomplete(buf)
         /\ LineEnd(buf) # 0 /\ IsSetLine(FirstLine(buf)) =>
              try_parse_request(buf) =
                WithKey(ParseValue(buf, LineEnd(buf), LengthOf(FirstLine(buf))), FirstLine(buf)[2])
         /\ LineEnd(buf) # 0 /\ ~IsSetLine(FirstLine(buf)) =>
              try_parse_request(buf) = ParseLine(FirstLine(buf), Dropped(buf, LineEnd(buf)))
BY Zenon DEF try_parse_request, FirstLine, LengthOf, IsSetLine, WithKey

\* A set of numbers has a smallest one.
LEMMA LeastOf ==
  ASSUME NEW S \in SUBSET Nat, S # {}
  PROVE  \E k \in S : \A i \in S : k <= i
<1>1. PICK k \in S : \A i \in S : ~ (<<i, k>> \in OpToRel(<, Nat))
  BY NatLessThanWellFounded, WFMin, Zenon
<1>2. \A i \in S : k <= i
  <2> TAKE i \in S
  <2>1. ~ (<<i, k>> \in OpToRel(<, Nat))
    BY <1>1, Zenon
  <2>2. k \in Nat /\ i \in Nat
    OBVIOUS
  <2> QED BY <2>1, <2>2 DEF OpToRel
<1> QED BY <1>2

\* Where the first line ends there is a line feed, and none before.
LEMMA LineEndAt ==
  ASSUME NEW buf \in Text
  PROVE  \/ LineEnd(buf) = 0 /\ \A j \in 1 .. Len(buf) : buf[j] # LF
         \/ /\ LineEnd(buf) \in 1 .. Len(buf) /\ buf[LineEnd(buf)] = LF
            /\ \A j \in 1 .. LineEnd(buf) - 1 : buf[j] # LF
<1> DEFINE I == {i \in 1 .. Len(buf) : buf[i] = LF}
<1>1. LineEnd(buf) = IF I # {} THEN Min(I) ELSE 0
  BY DEF LineEnd, SelectInSeq
<1>2. CASE I = {}
  BY <1>1, <1>2
<1>3. CASE I # {}
  <2>0. Len(buf) \in Nat
    BY DEF Text
  <2>1. I \subseteq Nat
    BY <2>0
  <2>2. PICK k \in I : \A i \in I : k <= i
    <3> HIDE DEF I
    <3> QED BY <1>3, <2>1, LeastOf
  <2>3. LineEnd(buf) = k
    <3>1. k \in 1 .. Len(buf) /\ buf[k] = LF /\ \A j \in 1 .. k - 1 : buf[j] # LF
      BY <2>0, <2>2
    <3> QED BY <3>1, LineEndIs, Zenon
  <2> QED BY <2>0, <2>2, <2>3
<1> QED BY <1>2, <1>3

-----------------------------------------------------------------------------
(* The buffer stays short.                                                 *)

\* What is stripped is one carriage return at most.
LEMMA FirstLineLen ==
  ASSUME NEW buf \in Text, LineEnd(buf) # 0
  PROVE  /\ LineEnd(buf) \in 1 .. Len(buf) /\ Len(FirstLine(buf)) \in Nat
         /\ LineEnd(buf) - 1 <= Len(FirstLine(buf)) + 1 /\ Len(FirstLine(buf)) <= LineEnd(buf) - 1
<1> DEFINE end == LineEnd(buf)
           l == SubSeq(buf, 1, end - 1)
<1>0. Len(buf) \in Nat
  BY DEF Text
<1>1. end \in 1 .. Len(buf)
  BY LineEndAt
<1> HIDE DEF end
<1>2. end - 1 \in Nat /\ end - 1 <= Len(buf)
  BY <1>0, <1>1
<1>3. l \in Text /\ Len(l) = end - 1
  BY <1>2, LineOf, ZenonT(40)
<1> HIDE DEF l
<1>4. /\ Len(strip_trailing_cr(l)) \in Nat /\ end - 1 <= Len(strip_trailing_cr(l)) + 1
      /\ Len(strip_trailing_cr(l)) <= end - 1
  <2>1. CASE l = <<>>
    BY <1>2, <1>3, <2>1 DEF strip_trailing_cr
  <2>2. CASE l # <<>> /\ l[Len(l)] = CR
    <3>1. strip_trailing_cr(l) = SubSeq(l, 1, Len(l) - 1)
      BY <1>3, <2>2, StripIs, Zenon
    <3>2. Len(l) - 1 \in Nat /\ Len(l) - 1 <= Len(l)
      BY <1>2, <1>3, <2>2 DEF Text
    <3>3. Len(strip_trailing_cr(l)) = Len(l) - 1
      <4>1. Len(SubSeq(l, 1, Len(l) - 1)) = Len(l) - 1
        BY <1>3, <3>2, LineOf
      <4> QED BY <3>1, <4>1, Zenon
    <3> QED BY <1>2, <1>3, <3>2, <3>3
  <2>3. CASE l # <<>> /\ l[Len(l)] # CR
    <3>1. strip_trailing_cr(l) = l
      BY <1>3, <2>3, StripIs, Zenon
    <3> QED BY <1>2, <1>3, <3>1
  <2> QED BY <2>1, <2>2, <2>3
<1> QED BY <1>1, <1>4, Zenon DEF end, l, FirstLine

\* The length a SET announces.
LEMMA LengthBounded ==
  ASSUME NEW line, IsSetLine(line)
  PROVE  Len(line) = 3 /\ LengthOf(line) \in 0 .. MaxValueLen
BY Zenon DEF IsSetLine, LengthOf, parse_length

\* What the parser waits on is at most a line, or a SET line and its value.
LEMMA WaitingIsShort ==
  ASSUME NEW buf \in Text, try_parse_request(buf).status = "Incomplete"
  PROVE  Len(buf) <= MaxLineLen + 2 + MaxValueLen
<1> DEFINE end == LineEnd(buf)
           line == FirstLine(buf)
           n == LengthOf(line)
<1>0. Len(buf) \in Nat /\ MaxLineLen \in Nat /\ MaxLineLen >= 3 /\ MaxValueLen \in Nat
  BY ProtocolAssumption DEF Text
<1>1. CASE end = 0
  <2>1. try_parse_request(buf) = IF LineTooLong(buf) THEN Failure(buf) ELSE Incomplete(buf)
    BY <1>1, ParserIs, Zenon
  <2>2. ~(Len(buf) > MaxLineLen)
    <3>1. ~LineTooLong(buf)
      BY <2>1 DEF Failure
    <3> QED BY <3>1, Zenon DEF LineTooLong
  <2> QED BY <1>0, <2>2
<1>2. CASE end # 0 /\ IsSetLine(line)
  <2>1. try_parse_request(buf) = WithKey(ParseValue(buf, end, n), line[2])
    BY <1>2, ParserIs, Zenon
  <2>2. end \in Nat /\ end - 1 <= Len(line) + 1 /\ Len(line) = 3 /\ n \in 0 .. MaxValueLen
    BY <1>2, FirstLineLen, LengthBounded
  <2> HIDE DEF end, line, n
  <2>3. Len(buf) < end + n + 1
    <3>1. CASE ~(Len(buf) < end + n + 1)
      <4>1. ParseValue(buf, end, n) \in {Failure(Dropped(buf, end + n + 1)),
                    Complete(SubSeq(buf, end + 1, end + n), Dropped(buf, end + n + 1))}
        BY <3>1 DEF ParseValue
      <4>2. try_parse_request(buf).status # "Incomplete"
        BY <2>1, <4>1 DEF WithKey, Failure, Complete
      <4> QED BY <4>2
    <3> QED BY <3>1
  <2> QED BY <1>0, <2>2, <2>3
<1>3. CASE end # 0 /\ ~IsSetLine(line)
  <2>1. try_parse_request(buf) = ParseLine(line, Dropped(buf, end))
    BY <1>3, ParserIs, Zenon
  <2>2. try_parse_request(buf).status # "Incomplete"
    BY <2>1 DEF ParseLine, Complete, Failure
  <2> QED BY <2>2
<1> QED BY <1>1, <1>2, <1>3

\* What the parser leaves is text again.
LEMMA RestIsText ==
  ASSUME NEW buf \in Text
  PROVE  try_parse_request(buf).rest \in Text
<1> DEFINE end == LineEnd(buf)
           line == FirstLine(buf)
           n == LengthOf(line)
<1>0. \A k \in Nat : Dropped(buf, k) \in Text
  BY DEF Text, Dropped
<1>1. CASE end = 0
  <2>1. try_parse_request(buf) = IF LineTooLong(buf) THEN Failure(buf) ELSE Incomplete(buf)
    BY <1>1, ParserIs, Zenon
  <2> QED BY <2>1 DEF Failure, Incomplete
<1>2. CASE end # 0 /\ IsSetLine(line)
  <2>1. try_parse_request(buf) = WithKey(ParseValue(buf, end, n), line[2])
    BY <1>2, ParserIs, Zenon
  <2>2. end \in Nat /\ n \in Nat
    BY <1>2, FirstLineLen, LengthBounded
  <2> HIDE DEF end, line, n
  <2>3. Dropped(buf, end + n + 1) \in Text
    BY <1>0, <2>2
  <2>4. ParseValue(buf, end, n) \in
          {Incomplete(buf), Failure(Dropped(buf, end + n + 1)),
           Complete(SubSeq(buf, end + 1, end + n), Dropped(buf, end + n + 1))}
    BY Zenon DEF ParseValue
  <2> QED BY <2>1, <2>3, <2>4 DEF WithKey, Failure, Complete, Incomplete
<1>3. CASE end # 0 /\ ~IsSetLine(line)
  <2>1. try_parse_request(buf) = ParseLine(line, Dropped(buf, end))
    BY <1>3, ParserIs, Zenon
  <2>2. Dropped(buf, end) \in Text
    BY <1>0, <1>3, FirstLineLen
  <2> HIDE DEF end, line
  <2> QED BY <2>1, <2>2 DEF ParseLine, Complete, Failure
<1> QED BY <1>1, <1>2, <1>3

StreamType == buffer \in Text /\ wire \in Text /\ pc \in {"read", "parse"}

\* The loop reads on when the parser waits, and only then.
WaitsToRead == pc = "read" => try_parse_request(buffer).status = "Incomplete"

\* Every step keeps both.
LEMMA TypeStep ==
  StreamType /\ WaitsToRead /\ [Next]_vars => StreamType' /\ WaitsToRead'
<1> SUFFICES ASSUME StreamType, WaitsToRead, [Next]_vars PROVE StreamType' /\ WaitsToRead'
  BY Zenon
<1> USE DEF StreamType, WaitsToRead
<1>1. CASE ClientWrite
  <2>1. PICK i \in Items : wire' = wire \o i.bytes
    BY <1>1 DEF ClientWrite
  <2>2. wire' \in Text
    BY <2>1, StreamAssumption DEF Text
  <2> QED BY <1>1, <2>2 DEF ClientWrite
<1>2. CASE ReadAndFeed
  <2>1. PICK n \in 1 .. Len(wire) : buffer' = buffer \o SubSeq(wire, 1, n) /\ wire' = Dropped(wire, n)
    BY <1>2, Zenon DEF ReadAndFeed
  <2>2. buffer' \in Text /\ wire' \in Text
    BY <2>1, Moved, Zenon
  <2> QED BY <1>2, <2>2 DEF ReadAndFeed
<1>3. CASE Parse
  <2> DEFINE p == try_parse_request(buffer)
  <2>1. p.rest \in Text
    BY RestIsText, Zenon
  <2>2. \/ p.status = "Incomplete" /\ pc' = "read" /\ buffer' = buffer
        \/ p.status # "Incomplete" /\ pc' = "parse" /\ buffer' = p.rest
    BY <1>3, Zenon DEF Parse
  <2>3. wire' = wire
    BY <1>3, Zenon DEF Parse
  <2> HIDE DEF p
  <2>4. buffer' \in Text /\ pc' \in {"read", "parse"}
    BY <2>1, <2>2
  <2>5. pc' = "read" => try_parse_request(buffer').status = "Incomplete"
    BY <2>2, Zenon DEF p
  <2> QED BY <2>3, <2>4, <2>5
<1>4. CASE UNCHANGED vars
  BY <1>4 DEF vars
<1> QED BY <1>1, <1>2, <1>3, <1>4 DEF Next

\* They hold at the start.
LEMMA TypeInit == Init => StreamType /\ WaitsToRead
<1>1. <<>> \in Text
  BY DEF Text
<1> QED BY <1>1, NothingParsed DEF Init, StreamType, WaitsToRead

\* docs/PROTOCOL.md, Bounds: what IncrementalParser keeps while it waits is at
\* most a command line, or a SET line with its CR and LF and its value, whatever a
\* client writes.
THEOREM BufferStaysShort == Spec => []BufferBounded
<1>1. StreamType /\ WaitsToRead => BufferBounded
  BY WaitingIsShort, Zenon DEF StreamType, WaitsToRead, BufferBounded
<1> QED BY <1>1, TypeInit, TypeStep, PTL DEF Spec

-----------------------------------------------------------------------------
(* Whole messages.                                                         *)

\* The messages a client writes under WholeFrames.
Frame == {b \in Text : IsFrame(b)}

\* Its parts.
LEMMA FrameIs ==
  ASSUME NEW b \in Frame
  PROVE  /\ b \in Text /\ LineEnd(b) # 0 /\ ~LineTooLong(SubSeq(b, 1, LineEnd(b) - 1))
         /\ Len(b) = IF IsSetLine(FirstLine(b)) THEN LineEnd(b) + LengthOf(FirstLine(b)) + 1
                     ELSE LineEnd(b)
BY Zenon DEF Frame, IsFrame, FirstLine, LengthOf, IsSetLine

\* A line that is not too long, in terms of the message it begins.
LEMMA ShortLine ==
  ASSUME NEW b \in Text, NEW n \in Nat, n <= Len(b)
  PROVE  ~LineTooLong(SubSeq(b, 1, n)) <=> n <= MaxLineLen /\ \A j \in 1 .. n : b[j] # HugeKey
<1> DEFINE l == SubSeq(b, 1, n)
<1>1. Len(l) = n /\ \A i \in 1 .. n : l[i] = b[i]
  BY LineOf, Zenon
<1> HIDE DEF l
<1>2. ~(n > MaxLineLen) <=> n <= MaxLineLen
  BY ProtocolAssumption
<1>3. ~LineTooLong(l) <=> n <= MaxLineLen /\ \A j \in 1 .. n : b[j] # HugeKey
  BY <1>1, <1>2, Zenon DEF LineTooLong
<1> QED BY <1>3, Zenon DEF l

\* A buffer that agrees with a message up to the end of its line has that line.
LEMMA SameLine ==
  ASSUME NEW b \in Text, NEW buf \in Text, LineEnd(b) # 0, LineEnd(b) <= Len(buf),
         \A i \in 1 .. LineEnd(b) : buf[i] = b[i]
  PROVE  LineEnd(buf) = LineEnd(b) /\ FirstLine(buf) = FirstLine(b)
<1> DEFINE end == LineEnd(b)
<1>1. /\ end \in 1 .. Len(b) /\ b[end] = LF /\ \A j \in 1 .. end - 1 : b[j] # LF
      /\ Len(b) \in Nat /\ Len(buf) \in Nat
  BY LineEndAt DEF Text
<1>2. end <= Len(buf) /\ \A i \in 1 .. end : buf[i] = b[i]
  OBVIOUS
<1> HIDE DEF end
<1>3. end \in 1 .. Len(buf) /\ buf[end] = LF /\ \A j \in 1 .. end - 1 : buf[j] # LF
  BY <1>1, <1>2
<1>4. LineEnd(buf) = end
  BY <1>3, LineEndIs, Zenon
<1>5. SubSeq(buf, 1, end - 1) = SubSeq(b, 1, end - 1)
  <2> DEFINE l == SubSeq(buf, 1, end - 1)
             m == SubSeq(b, 1, end - 1)
  <2>1. end - 1 \in Nat /\ end - 1 <= Len(buf) /\ end - 1 <= Len(b)
    BY <1>1, <1>3
  <2>2. l \in Text /\ Len(l) = end - 1 /\ \A i \in 1 .. end - 1 : l[i] = buf[i]
    BY <2>1, LineOf, Zenon
  <2>3. m \in Text /\ Len(m) = end - 1 /\ \A i \in 1 .. end - 1 : m[i] = b[i]
    BY <2>1, LineOf, Zenon
  <2> HIDE DEF l, m
  <2>4. \A i \in 1 .. Len(l) : l[i] = m[i]
    BY <1>1, <1>2, <2>2, <2>3
  <2>5. l = m
    BY <2>2, <2>3, <2>4, SeqEqual, Zenon DEF Text
  <2> QED BY <2>5, Zenon DEF l, m
<1> QED BY <1>4, <1>5, Zenon DEF end, FirstLine

\* A part of a message is waited on.
LEMMA FramePart ==
  ASSUME NEW b \in Frame, NEW buf \in Text, Len(buf) < Len(b), \A i \in 1 .. Len(buf) : buf[i] = b[i]
  PROVE  try_parse_request(buf).status = "Incomplete"
<1> DEFINE end == LineEnd(b)
           line == FirstLine(b)
           n == LengthOf(line)
<1>1. /\ b \in Text /\ end # 0 /\ ~LineTooLong(SubSeq(b, 1, end - 1))
      /\ Len(b) = IF IsSetLine(line) THEN end + n + 1 ELSE end
  BY FrameIs, Zenon
<1>2. /\ end \in 1 .. Len(b) /\ \A j \in 1 .. end - 1 : b[j] # LF
      /\ Len(b) \in Nat /\ Len(buf) \in Nat /\ MaxLineLen \in Nat
  BY <1>1, LineEndAt, ProtocolAssumption DEF Text
<1>s. end - 1 <= MaxLineLen /\ \A j \in 1 .. end - 1 : b[j] # HugeKey
  <2> HIDE DEF end
  <2>1. end - 1 \in Nat /\ end - 1 <= Len(b)
    BY <1>2
  <2> QED BY <1>1, <2>1, ShortLine, Zenon
<1>3. CASE Len(buf) < end
  <2> HIDE DEF end
  <2>1. Len(buf) <= MaxLineLen /\ \A j \in 1 .. Len(buf) : buf[j] \notin {LF, HugeKey}
    BY <1>2, <1>3, <1>s
  <2> QED BY <2>1, RequestWaits
<1>4. CASE Len(buf) >= end
  <2>1. LineEnd(buf) = end /\ FirstLine(buf) = line
    <3>1. LineEnd(b) <= Len(buf) /\ \A i \in 1 .. LineEnd(b) : buf[i] = b[i]
      BY <1>2, <1>4
    <3> QED BY <1>1, <3>1, SameLine, Zenon
  <2>2. IsSetLine(line) /\ Len(buf) < end + n + 1
    BY <1>1, <1>2, <1>4
  <2>3. try_parse_request(buf) = WithKey(ParseValue(buf, end, n), line[2])
    BY <1>1, <2>1, <2>2, ParserIs, Zenon
  <2> HIDE DEF end, line, n
  <2>4. ParseValue(buf, end, n) = Incomplete(buf)
    BY <2>2, Zenon DEF ParseValue
  <2> QED BY <2>3, <2>4 DEF WithKey, Incomplete
<1> QED BY <1>2, <1>3, <1>4

\* A whole message is parsed like the only one, and what follows it is left.
LEMMA FrameWhole ==
  ASSUME NEW b \in Frame, NEW buf, NEW tail, Begins(buf, b, tail)
  PROVE  /\ try_parse_request(buf).status # "Incomplete"
         /\ try_parse_request(buf).parsed = try_parse_request(b).parsed
         /\ try_parse_request(buf).rest = tail
<1> DEFINE end == LineEnd(b)
           line == FirstLine(b)
           n == LengthOf(line)
<1>1. /\ b \in Text /\ end # 0
      /\ Len(b) = IF IsSetLine(line) THEN end + n + 1 ELSE end
  BY FrameIs, Zenon
<1>2. end \in 1 .. Len(b) /\ Len(b) \in Nat
  BY <1>1, LineEndAt DEF Text
<1>3. /\ buf \in Text /\ Len(buf) \in Nat /\ Len(b) <= Len(buf) /\ Dropped(buf, Len(b)) = tail
      /\ \A i \in 1 .. Len(b) : buf[i] = b[i]
  BY Zenon DEF Begins
<1>4. LineEnd(buf) = end /\ FirstLine(buf) = line
  <2>1. LineEnd(b) <= Len(buf) /\ \A i \in 1 .. LineEnd(b) : buf[i] = b[i]
    BY <1>2, <1>3
  <2> QED BY <1>1, <1>3, <2>1, SameLine, Zenon
<1>5. CASE ~IsSetLine(line)
  <2>1. Len(b) = end
    BY <1>1, <1>5, Zenon
  <2>2. try_parse_request(buf) = ParseLine(line, tail)
    BY <1>1, <1>3, <1>4, <1>5, <2>1, ParserIs, Zenon
  <2>3. try_parse_request(b) = ParseLine(line, Dropped(b, end))
    BY <1>1, <1>5, ParserIs, Zenon
  <2> HIDE DEF end, line
  <2> QED BY <2>2, <2>3 DEF ParseLine, Complete, Failure
<1>6. CASE IsSetLine(line)
  <2>1. Len(b) = end + n + 1 /\ n \in Nat
    BY <1>1, <1>6, LengthBounded
  <2>2. try_parse_request(buf) = WithKey(ParseValue(buf, end, n), line[2])
    BY <1>1, <1>4, <1>6, ParserIs, Zenon
  <2>3. try_parse_request(b) = WithKey(ParseValue(b, end, n), line[2])
    BY <1>1, <1>6, ParserIs, Zenon
  <2> HIDE DEF end, line, n
  <2>4. /\ ~(Len(buf) < end + n + 1) /\ ~(Len(b) < end + n + 1)
        /\ buf[end + n + 1] = b[end + n + 1]
    BY <1>2, <1>3, <2>1
  <2>5. SubSeq(buf, end + 1, end + n) = SubSeq(b, end + 1, end + n)
    <3> DEFINE v == SubSeq(buf, end + 1, end + n)
               w == SubSeq(b, end + 1, end + n)
    <3>1. end \in Nat /\ end + n <= Len(buf) /\ end + n <= Len(b)
      BY <1>2, <1>3, <2>1
    <3>2. v \in Text /\ Len(v) = n /\ \A i \in 1 .. n : v[i] = buf[end + i]
      BY <1>3, <2>1, <3>1, PartOf, Zenon
    <3>3. w \in Text /\ Len(w) = n /\ \A i \in 1 .. n : w[i] = b[end + i]
      BY <1>1, <2>1, <3>1, PartOf, Zenon
    <3> HIDE DEF v, w
    <3>4. \A i \in 1 .. Len(v) : v[i] = w[i]
      BY <1>2, <1>3, <2>1, <3>2, <3>3
    <3>5. v = w
      BY <3>2, <3>3, <3>4, SeqEqual, Zenon DEF Text
    <3> QED BY <3>5, Zenon DEF v, w
  <2>6. Dropped(buf, end + n + 1) = tail
    BY <1>3, <2>1, Zenon
  <2>7. CASE b[end + n + 1] # LF
    <3>1. ParseValue(buf, end, n) = Failure(tail) /\ ParseValue(b, end, n) = Failure(Dropped(b, end + n + 1))
      BY <2>4, <2>6, <2>7, Zenon DEF ParseValue
    <3> QED BY <2>2, <2>3, <3>1 DEF WithKey, Failure
  <2>8. CASE b[end + n + 1] = LF
    <3>1. /\ ParseValue(buf, end, n) = Complete(SubSeq(b, end + 1, end + n), tail)
          /\ ParseValue(b, end, n) = Complete(SubSeq(b, end + 1, end + n), Dropped(b, end + n + 1))
      BY <2>4, <2>5, <2>6, <2>8, Zenon DEF ParseValue
    <3> QED BY <2>2, <2>3, <3>1 DEF WithKey, Complete
  <2> QED BY <2>7, <2>8
<1> QED BY <1>5, <1>6

-----------------------------------------------------------------------------
(* A stream of messages.                                                   *)

\* What joining leaves where.
LEMMA JoinIs ==
  ASSUME NEW a \in Text, NEW b \in Text
  PROVE  /\ a \o b \in Text /\ Len(a \o b) = Len(a) + Len(b) /\ Len(a) \in Nat /\ Len(b) \in Nat
         /\ \A i \in 1 .. Len(a) : (a \o b)[i] = a[i]
         /\ \A i \in 1 .. Len(b) : (a \o b)[Len(a) + i] = b[i]
BY DEF Text

\* What dropping leaves where.
LEMMA DropIs ==
  ASSUME NEW s \in Text, NEW n \in Nat, n <= Len(s)
  PROVE  /\ Dropped(s, n) \in Text /\ Len(Dropped(s, n)) = Len(s) - n
         /\ \A i \in 1 .. Len(Dropped(s, n)) : Dropped(s, n)[i] = s[n + i]
<1>1. s \in Seq(Symbol) /\ Len(s) \in Nat
  BY DEF Text
<1>2. Dropped(s, n) \in Seq(Symbol)
  BY <1>1 DEF Dropped
<1>3. Len(Dropped(s, n)) = Len(s) - n
  BY <1>1 DEF Dropped
<1>4. ASSUME NEW i \in 1 .. Len(Dropped(s, n))
      PROVE  Dropped(s, n)[i] = s[n + i]
  BY <1>1, <1>3 DEF Dropped
<1> QED BY <1>2, <1>3, <1>4, Zenon DEF Text

\* The messages ms make up s: message j is what lies between c[j-1] and c[j].
IsCut(c, ms, s) ==
  /\ c \in [0 .. Len(ms) -> 0 .. Len(s)] /\ c[0] = 0 /\ c[Len(ms)] = Len(s)
  /\ \A i, j \in 0 .. Len(ms) : i <= j => c[i] <= c[j]
  /\ \A j \in 1 .. Len(ms) : c[j] = c[j - 1] + Len(ms[j])
  /\ \A j \in 1 .. Len(ms) : \A k \in 1 .. Len(ms[j]) : s[c[j - 1] + k] = ms[j][k]

\* s is the messages ms, one behind the other.
Chain(ms, s) == s \in Text /\ ms \in Seq(Frame) /\ \E c : IsCut(c, ms, s)

\* No messages, no stream.
LEMMA ChainEmpty ==
  /\ Chain(<<>>, <<>>)
  /\ \A s : Chain(<<>>, s) => s = <<>>
<1>1. <<>> \in Text /\ <<>> \in Seq(Frame) /\ Len(<<>>) = 0
  BY DEF Text
<1>2. IsCut([j \in 0 .. 0 |-> 0], <<>>, <<>>)
  BY <1>1 DEF IsCut
<1>3. ASSUME NEW s, Chain(<<>>, s) PROVE s = <<>>
  <2>1. PICK c : IsCut(c, <<>>, s)
    BY <1>3 DEF Chain
  <2>2. Len(s) = 0 /\ s \in Text
    BY <1>1, <1>3, <2>1, Zenon DEF IsCut, Chain
  <2> QED BY <2>2 DEF Text
<1>4. Chain(<<>>, <<>>)
  BY <1>1, <1>2, Zenon DEF Chain
<1> QED BY <1>3, <1>4

\* A message is added at the end.
LEMMA ChainAppend ==
  ASSUME NEW ms, NEW s, Chain(ms, s), NEW b \in Frame
  PROVE  Chain(Append(ms, b), s \o b)
<1> DEFINE m == Len(ms)
           ns == Append(ms, b)
           t == s \o b
<1>0. s \in Text /\ ms \in Seq(Frame) /\ b \in Text
  BY Zenon DEF Chain, Frame
<1>1. PICK c : IsCut(c, ms, s)
  BY DEF Chain
<1>2. /\ m \in Nat /\ Len(s) \in Nat /\ Len(b) \in Nat
      /\ ns \in Seq(Frame) /\ Len(ns) = m + 1 /\ ns[m + 1] = b /\ \A j \in 1 .. m : ns[j] = ms[j]
  BY <1>0 DEF Text
<1>3. /\ t \in Text /\ Len(t) = Len(s) + Len(b)
      /\ \A i \in 1 .. Len(s) : t[i] = s[i]
      /\ \A i \in 1 .. Len(b) : t[Len(s) + i] = b[i]
  BY <1>0 DEF Text
<1>4. /\ c \in [0 .. m -> 0 .. Len(s)] /\ c[0] = 0 /\ c[m] = Len(s)
      /\ \A i, j \in 0 .. m : i <= j => c[i] <= c[j]
      /\ \A j \in 1 .. m : c[j] = c[j - 1] + Len(ms[j])
      /\ \A j \in 1 .. m : \A k \in 1 .. Len(ms[j]) : s[c[j - 1] + k] = ms[j][k]
  BY <1>1, Zenon DEF IsCut
<1>5. \A j \in 1 .. m : Len(ms[j]) \in Nat
  <2> TAKE j \in 1 .. m
  <2>1. ms[j] \in Text
    BY <1>0 DEF Frame
  <2> QED BY <2>1 DEF Text
<1> HIDE DEF m, ns, t
<1> DEFINE d == [j \in 0 .. m + 1 |-> IF j <= m THEN c[j] ELSE Len(t)]
<1>6. /\ d \in [0 .. m + 1 -> 0 .. Len(t)] /\ d[m + 1] = Len(t)
      /\ \A j \in 0 .. m : d[j] = c[j]
  BY <1>2, <1>3, <1>4
<1> HIDE DEF d
<1>7. d[0] = 0 /\ \A i, j \in 0 .. m + 1 : i <= j => d[i] <= d[j]
  <2>1. d[0] = 0
    BY <1>2, <1>4, <1>6
  <2>2. ASSUME NEW i \in 0 .. m + 1, NEW j \in 0 .. m + 1, i <= j PROVE d[i] <= d[j]
    <3>1. CASE j = m + 1
      <4>1. d[i] \in 0 .. Len(t) /\ d[j] = Len(t)
        BY <1>6, <3>1, Zenon
      <4>2. Len(t) \in Nat
        BY <1>2, <1>3
      <4> QED BY <4>1, <4>2
    <3>2. CASE j # m + 1
      <4>1. i \in 0 .. m /\ j \in 0 .. m
        BY <1>2, <2>2, <3>2
      <4> QED BY <1>4, <1>6, <2>2, <4>1
    <3> QED BY <3>1, <3>2
  <2> QED BY <2>1, <2>2
<1>8. ASSUME NEW j \in 1 .. m + 1
      PROVE  d[j] = d[j - 1] + Len(ns[j]) /\ \A k \in 1 .. Len(ns[j]) : t[d[j - 1] + k] = ns[j][k]
  <2>1. CASE j = m + 1
    <3>1. j - 1 = m /\ ns[j] = b /\ d[j - 1] = Len(s) /\ d[j] = Len(s) + Len(b)
      BY <1>2, <1>3, <1>4, <1>6, <2>1
    <3> QED BY <1>3, <3>1
  <2>2. CASE j # m + 1
    <3>1. j \in 1 .. m /\ j - 1 \in 0 .. m /\ j \in 0 .. m
      BY <1>2, <2>2
    <3>2. ns[j] = ms[j] /\ d[j] = c[j] /\ d[j - 1] = c[j - 1] /\ c[j] = c[j - 1] + Len(ms[j])
      BY <1>2, <1>4, <1>6, <3>1, Zenon
    <3>3. ASSUME NEW k \in 1 .. Len(ms[j]) PROVE t[c[j - 1] + k] = ms[j][k]
      <4>1. c[j - 1] \in 0 .. Len(s) /\ c[j] \in 0 .. Len(s) /\ Len(ms[j]) \in Nat
        BY <1>4, <1>5, <3>1, Zenon
      <4>2. c[j - 1] + k \in 1 .. Len(s)
        <5>1. \A x, y \in 0 .. Len(s), l \in Nat : y = x + l /\ k \in 1 .. l => x + k \in 1 .. Len(s)
          BY <1>2
        <5> QED BY <3>2, <3>3, <4>1, <5>1, Zenon
      <4>3. s[c[j - 1] + k] = ms[j][k]
        BY <1>4, <3>1, <3>3
      <4> QED BY <1>3, <4>2, <4>3
    <3> QED BY <3>2, <3>3
  <2> QED BY <2>1, <2>2
<1>9. IsCut(d, ns, t)
  BY <1>2, <1>6, <1>7, <1>8, Zenon DEF IsCut
<1> QED BY <1>2, <1>3, <1>9, Zenon DEF Chain, ns, t

\* The first message begins the stream, and the others make up the rest.
LEMMA ChainHead ==
  ASSUME NEW ms, NEW s, Chain(ms, s), ms # <<>>
  PROVE  /\ ms[1] \in Frame /\ Tail(ms) \in Seq(Frame)
         /\ Begins(s, ms[1], Dropped(s, Len(ms[1])))
         /\ Chain(Tail(ms), Dropped(s, Len(ms[1])))
<1> DEFINE m == Len(ms)
           b == ms[1]
           ns == Tail(ms)
           t == Dropped(s, Len(b))
<1>0. s \in Text /\ ms \in Seq(Frame)
  BY Zenon DEF Chain
<1>1. PICK c : IsCut(c, ms, s)
  BY DEF Chain
<1>2. /\ m \in Nat \ {0} /\ b \in Frame /\ ns \in Seq(Frame) /\ Len(ns) = m - 1
      /\ \A j \in 1 .. m - 1 : ns[j] = ms[j + 1]
  BY <1>0
<1>3. b \in Text /\ Len(b) \in Nat /\ Len(s) \in Nat
  BY <1>0, <1>2 DEF Text, Frame
<1>4. /\ c \in [0 .. m -> 0 .. Len(s)] /\ c[0] = 0 /\ c[m] = Len(s)
      /\ \A i, j \in 0 .. m : i <= j => c[i] <= c[j]
      /\ \A j \in 1 .. m : c[j] = c[j - 1] + Len(ms[j])
      /\ \A j \in 1 .. m : \A k \in 1 .. Len(ms[j]) : s[c[j - 1] + k] = ms[j][k]
  BY <1>1, Zenon DEF IsCut
<1>5. /\ c[1] = Len(b) /\ Len(b) <= Len(s) /\ \A k \in 1 .. Len(b) : s[k] = b[k]
  <2>1. 1 \in 1 .. m /\ 1 - 1 = 0 /\ 1 \in 0 .. m
    BY <1>2
  <2>2. c[1] = 0 + Len(b) /\ c[1] \in 0 .. Len(s)
    BY <1>4, <2>1, Zenon
  <2>3. \A k \in 1 .. Len(b) : s[0 + k] = b[k]
    BY <1>4, <2>1
  <2>4. \A k \in 1 .. Len(b) : s[k] = b[k]
    <3> TAKE k \in 1 .. Len(b)
    <3>1. 0 + k = k
      BY <1>3
    <3> QED BY <2>3, <3>1
  <2> QED BY <1>3, <2>2, <2>4
<1>6. t \in Text /\ Len(t) = Len(s) - Len(b) /\ \A i \in 1 .. Len(t) : t[i] = s[Len(b) + i]
  BY <1>0, <1>3, <1>5, DropIs, Zenon
<1>7. Begins(s, b, t)
  BY <1>0, <1>3, <1>5, Zenon DEF Begins
<1>8. \A j \in 1 .. m : Len(ms[j]) \in Nat
  <2> TAKE j \in 1 .. m
  <2>1. ms[j] \in Text
    BY <1>0 DEF Frame
  <2> QED BY <2>1 DEF Text
<1> HIDE DEF m, b, ns, t
<1> DEFINE d == [j \in 0 .. m - 1 |-> c[j + 1] - Len(b)]
<1>9. \A j \in 0 .. m - 1 : j + 1 \in 0 .. m /\ c[j + 1] \in Len(b) .. Len(s) /\ c[j + 1] - Len(b) \in 0 .. Len(t)
  <2> TAKE j \in 0 .. m - 1
  <2>1. j + 1 \in 0 .. m /\ 1 \in 0 .. m /\ 1 <= j + 1
    BY <1>2
  <2>2. c[j + 1] \in 0 .. Len(s) /\ Len(b) <= c[j + 1]
    BY <1>4, <1>5, <2>1
  <2> QED BY <1>3, <1>5, <1>6, <2>1, <2>2
<1>10. d \in [0 .. m - 1 -> 0 .. Len(t)] /\ \A j \in 0 .. m - 1 : d[j] = c[j + 1] - Len(b)
  BY <1>9, Zenon
<1> HIDE DEF d
<1>11. d[0] = 0 /\ d[m - 1] = Len(t)
  <2>1. 0 \in 0 .. m - 1 /\ m - 1 \in 0 .. m - 1 /\ 0 + 1 = 1 /\ (m - 1) + 1 = m
    BY <1>2
  <2>2. d[0] = c[1] - Len(b) /\ d[m - 1] = c[m] - Len(b)
    BY <1>10, <2>1, Zenon
  <2> QED BY <1>3, <1>4, <1>5, <1>6, <2>2
<1>12. ASSUME NEW i \in 0 .. m - 1, NEW j \in 0 .. m - 1, i <= j PROVE d[i] <= d[j]
  <2>1. i + 1 \in 0 .. m /\ j + 1 \in 0 .. m /\ i + 1 <= j + 1
    BY <1>2, <1>12
  <2>2. c[i + 1] <= c[j + 1] /\ c[i + 1] \in 0 .. Len(s) /\ c[j + 1] \in 0 .. Len(s)
    BY <1>4, <2>1, Zenon
  <2> QED BY <1>3, <1>10, <2>2
<1>13. ASSUME NEW j \in 1 .. m - 1
       PROVE  d[j] = d[j - 1] + Len(ns[j]) /\ \A k \in 1 .. Len(ns[j]) : t[d[j - 1] + k] = ns[j][k]
  <2>1. /\ j \in 0 .. m - 1 /\ j - 1 \in 0 .. m - 1 /\ (j - 1) + 1 = j /\ (j + 1) - 1 = j
        /\ j + 1 \in 1 .. m /\ j \in 0 .. m /\ j + 1 \in 0 .. m
    BY <1>2
  <2>2. ns[j] = ms[j + 1] /\ d[j] = c[j + 1] - Len(b) /\ d[j - 1] = c[j] - Len(b)
    BY <1>2, <1>10, <2>1
  <2>3. c[j + 1] = c[j] + Len(ms[j + 1]) /\ c[j] \in Len(b) .. Len(s) /\ c[j + 1] \in Len(b) .. Len(s)
        /\ Len(ms[j + 1]) \in Nat
    BY <1>4, <1>8, <1>9, <2>1, Zenon
  <2>4. ASSUME NEW k \in 1 .. Len(ms[j + 1]) PROVE t[d[j - 1] + k] = ms[j + 1][k]
    <3>1. s[c[j] + k] = ms[j + 1][k]
      BY <1>4, <2>1, <2>4, Zenon
    <3>2. d[j - 1] + k \in 1 .. Len(t) /\ Len(b) + (d[j - 1] + k) = c[j] + k
      <4> DEFINE x == c[j]
                 y == c[j + 1]
                 l == Len(ms[j + 1])
      <4>1. /\ y = x + l /\ x \in Len(b) .. Len(s) /\ y \in Len(b) .. Len(s) /\ l \in Nat
            /\ k \in 1 .. l /\ d[j - 1] = x - Len(b)
        BY <2>2, <2>3, <2>4, Zenon
      <4>2. Len(s) \in Nat /\ Len(b) \in Nat /\ Len(t) = Len(s) - Len(b)
        BY <1>3, <1>6, Zenon
      <4> HIDE DEF x, y, l
      <4>3. (x - Len(b)) + k \in 1 .. Len(t) /\ Len(b) + ((x - Len(b)) + k) = x + k
        BY <4>1, <4>2
      <4> QED BY <4>1, <4>3, Zenon DEF x
    <3> QED BY <1>6, <3>1, <3>2, Zenon
  <2> QED BY <1>3, <2>2, <2>3, <2>4
<1>14. IsCut(d, ns, t)
  BY <1>2, <1>10, <1>11, <1>12, <1>13, Zenon DEF IsCut
<1>15. Chain(ns, t)
  BY <1>2, <1>6, <1>14, Zenon DEF Chain
<1> QED BY <1>2, <1>7, <1>15, Zenon DEF b, ns, t

-----------------------------------------------------------------------------
(* What is handled is what was written.                                    *)

\* What a message is parsed to when it is the only one.
Means(b) == try_parse_request(b).parsed

Outcome == {Means(b) : b \in Frame}

\* What was handled, and then what the messages still to handle mean, is what
\* the client expects.
Agree(ms, os, es) ==
  /\ Len(es) = Len(os) + Len(ms)
  /\ \A j \in 1 .. Len(os) : os[j] = es[j]
  /\ \A j \in 1 .. Len(ms) : es[Len(os) + j] = Means(ms[j])

\* The inductive invariant: the bytes that are neither parsed nor lost are whole
\* messages, cut anywhere between the buffer and the wire.
IInv ==
  /\ StreamType /\ WaitsToRead
  /\ outcomes \in Seq(Outcome) /\ expected \in Seq(Outcome)
  /\ \E ms : Chain(ms, buffer \o wire) /\ Agree(ms, outcomes, expected)

\* A message is written.
LEMMA AgreeAppend ==
  ASSUME NEW ms \in Seq(Frame), NEW os \in Seq(Outcome), NEW es \in Seq(Outcome), NEW b \in Frame,
         Agree(ms, os, es)
  PROVE  Agree(Append(ms, b), os, Append(es, Means(b)))
<1> DEFINE m == Len(ms)
           ns == Append(ms, b)
           fs == Append(es, Means(b))
<1>1. Len(es) = Len(os) + m /\ \A j \in 1 .. Len(os) : os[j] = es[j]
  BY Zenon DEF Agree
<1>2. \A j \in 1 .. m : es[Len(os) + j] = Means(ms[j])
  BY Zenon DEF Agree
<1>3. m \in Nat /\ Len(ns) = m + 1 /\ ns[m + 1] = b /\ \A j \in 1 .. m : ns[j] = ms[j]
  OBVIOUS
<1>4. Means(b) \in Outcome
  BY Zenon DEF Outcome
<1>5. PICK x \in Outcome : x = Means(b)
  BY <1>4
<1>6. Len(Append(es, x)) = Len(es) + 1 /\ Append(es, x)[Len(es) + 1] = x
      /\ \A j \in 1 .. Len(es) : Append(es, x)[j] = es[j]
  OBVIOUS
<1>7. /\ Len(fs) = Len(es) + 1 /\ fs[Len(es) + 1] = Means(b) /\ \A j \in 1 .. Len(es) : fs[j] = es[j]
      /\ Len(os) \in Nat /\ Len(es) \in Nat
  BY <1>5, <1>6
<1> HIDE DEF m, ns, fs
<1>8. Len(fs) = Len(os) + Len(ns) /\ \A j \in 1 .. Len(os) : os[j] = fs[j]
  BY <1>1, <1>3, <1>7
<1>9. ASSUME NEW j \in 1 .. Len(ns) PROVE fs[Len(os) + j] = Means(ns[j])
  <2>1. CASE j = m + 1
    BY <1>1, <1>3, <1>7, <2>1
  <2>2. CASE j # m + 1
    <3>1. j \in 1 .. m /\ Len(os) + j \in 1 .. Len(es)
      BY <1>1, <1>3, <1>7, <2>2
    <3>2. ns[j] = ms[j] /\ fs[Len(os) + j] = es[Len(os) + j]
      BY <1>3, <1>7, <3>1, Zenon
    <3> QED BY <1>2, <3>1, <3>2
  <2> QED BY <2>1, <2>2
<1>10. Agree(ns, os, fs)
  BY <1>8, <1>9, Zenon DEF Agree
<1> QED BY <1>10 DEF ns, fs

\* The first message is handled, which the bound on the history allows.
LEMMA AgreeHead ==
  ASSUME NEW ms \in Seq(Frame), NEW os \in Seq(Outcome), NEW es \in Seq(Outcome),
         Agree(ms, os, es), ms # <<>>
  PROVE  Agree(Tail(ms), Append(os, Means(ms[1])), es) /\ ~(Len(os) > Len(es))
         /\ Append(os, Means(ms[1])) \in Seq(Outcome)
<1> DEFINE m == Len(ms)
           ns == Tail(ms)
           ps == Append(os, Means(ms[1]))
<1>1. Len(es) = Len(os) + m /\ \A j \in 1 .. Len(os) : os[j] = es[j]
  BY Zenon DEF Agree
<1>2. \A j \in 1 .. m : es[Len(os) + j] = Means(ms[j])
  BY Zenon DEF Agree
<1>3. m \in Nat \ {0} /\ ms[1] \in Frame /\ Len(ns) = m - 1 /\ \A j \in 1 .. m - 1 : ns[j] = ms[j + 1]
  OBVIOUS
<1>4. Means(ms[1]) \in Outcome
  BY <1>3 DEF Outcome
<1>5. PICK x \in Outcome : x = Means(ms[1])
  BY <1>4, Zenon
<1>6. Len(Append(os, x)) = Len(os) + 1 /\ Append(os, x)[Len(os) + 1] = x
      /\ (\A j \in 1 .. Len(os) : Append(os, x)[j] = os[j]) /\ Append(os, x) \in Seq(Outcome)
  OBVIOUS
<1>7. /\ Len(ps) = Len(os) + 1 /\ ps[Len(os) + 1] = Means(ms[1]) /\ \A j \in 1 .. Len(os) : ps[j] = os[j]
      /\ Len(os) \in Nat /\ Len(es) \in Nat /\ ps \in Seq(Outcome)
  BY <1>5, <1>6
<1> HIDE DEF m, ns, ps
<1>8. es[Len(os) + 1] = Means(ms[1])
  BY <1>2, <1>3
<1>9. Len(es) = Len(ps) + Len(ns) /\ \A j \in 1 .. Len(ps) : ps[j] = es[j]
  <2>1. Len(es) = Len(ps) + Len(ns)
    BY <1>1, <1>3, <1>7
  <2>2. ASSUME NEW j \in 1 .. Len(ps) PROVE ps[j] = es[j]
    <3>1. CASE j = Len(os) + 1
      BY <1>7, <1>8, <3>1, Zenon
    <3>2. CASE j # Len(os) + 1
      <4>1. j \in 1 .. Len(os)
        BY <1>7, <3>2
      <4> QED BY <1>1, <1>7, <4>1
    <3> QED BY <3>1, <3>2
  <2> QED BY <2>1, <2>2
<1>10. ASSUME NEW j \in 1 .. Len(ns) PROVE es[Len(ps) + j] = Means(ns[j])
  <2>1. j \in 1 .. m - 1 /\ j + 1 \in 1 .. m /\ Len(ps) + j = Len(os) + (j + 1)
    BY <1>3, <1>7
  <2> QED BY <1>2, <1>3, <2>1
<1>11. Agree(ns, ps, es)
  BY <1>9, <1>10, Zenon DEF Agree
<1>12. ~(Len(os) > Len(es))
  BY <1>1, <1>3, <1>7
<1> QED BY <1>7, <1>11, <1>12, Zenon DEF ns, ps

\* Nothing is written, nothing is handled.
LEMMA InitIInv == Init => IInv
<1> SUFFICES ASSUME Init PROVE IInv
  BY Zenon
<1>1. wire = <<>> /\ buffer = <<>> /\ outcomes = <<>> /\ expected = <<>>
  BY Zenon DEF Init
<1>2. <<>> \o <<>> = <<>> /\ <<>> \in Seq(Outcome) /\ Len(<<>>) = 0
  OBVIOUS
<1>3. Chain(<<>>, buffer \o wire)
  BY <1>1, <1>2, ChainEmpty
<1>4. Agree(<<>>, <<>>, <<>>)
  BY <1>2 DEF Agree
<1> QED BY <1>1, <1>2, <1>3, <1>4, TypeInit, Zenon DEF IInv

\* The client writes one more message.
LEMMA ClientWriteStep ==
  ASSUME WholeFrames, IInv, ClientWrite
  PROVE  IInv'
<1>1. PICK i \in Items : wire' = wire \o i.bytes /\ expected' = Append(expected, i.outcome)
  BY Zenon DEF ClientWrite
<1>2. buffer' = buffer /\ outcomes' = outcomes
  BY DEF ClientWrite
<1>3. i.bytes \in Frame /\ i.outcome = Means(i.bytes)
  BY StreamAssumption, Zenon DEF WholeFrames, Frame, Means
<1>4. PICK b \in Frame : wire' = wire \o b /\ expected' = Append(expected, Means(b))
  BY <1>1, <1>3, Zenon
<1>5. PICK ms : Chain(ms, buffer \o wire) /\ Agree(ms, outcomes, expected)
  BY Zenon DEF IInv
<1>6. ms \in Seq(Frame) /\ buffer \in Text /\ wire \in Text /\ b \in Text
      /\ outcomes \in Seq(Outcome) /\ expected \in Seq(Outcome)
  BY <1>5 DEF Chain, IInv, StreamType, Frame
<1>7. Chain(Append(ms, b), (buffer \o wire) \o b)
  BY <1>5, ChainAppend, Zenon
<1>8. (buffer \o wire) \o b = buffer \o (wire \o b)
  BY <1>6, JoinAssociative, ZenonT(40)
<1>9. Agree(Append(ms, b), outcomes, Append(expected, Means(b)))
  BY <1>5, <1>6, AgreeAppend, Zenon
<1>10. expected' \in Seq(Outcome)
  <2>1. PICK x \in Outcome : x = Means(b)
    BY Zenon DEF Outcome
  <2>2. Append(expected, x) \in Seq(Outcome)
    BY <1>6
  <2> QED BY <1>4, <2>1, <2>2, Zenon
<1>11. StreamType' /\ WaitsToRead'
  BY TypeStep, Zenon DEF IInv, Next
<1>12. Chain(Append(ms, b), buffer' \o wire') /\ Agree(Append(ms, b), outcomes', expected')
  BY <1>2, <1>4, <1>7, <1>8, <1>9, Zenon
<1> QED BY <1>2, <1>6, <1>10, <1>11, <1>12, Zenon DEF IInv

\* Reading moves bytes from the wire to the buffer.
LEMMA ReadAndFeedStep ==
  ASSUME IInv, ReadAndFeed
  PROVE  IInv'
<1>1. PICK n \in 1 .. Len(wire) : buffer' = buffer \o SubSeq(wire, 1, n) /\ wire' = Dropped(wire, n)
  BY Zenon DEF ReadAndFeed
<1>2. buffer' \o wire' = buffer \o wire
  BY <1>1, Moved, Zenon DEF IInv, StreamType
<1>3. StreamType' /\ WaitsToRead'
  BY TypeStep, Zenon DEF IInv, Next
<1>4. outcomes' = outcomes /\ expected' = expected
  BY Zenon DEF ReadAndFeed
<1> QED BY <1>2, <1>3, <1>4, Zenon DEF IInv

\* What the buffer holds is the first message and what follows, or a part of it.
LEMMA FirstInBuffer ==
  ASSUME NEW buf \in Text, NEW rest \in Text, NEW b \in Text, NEW tail, Begins(buf \o rest, b, tail)
  PROVE  \/ Len(buf) < Len(b) /\ \A i \in 1 .. Len(buf) : buf[i] = b[i]
         \/ Begins(buf, b, Dropped(buf, Len(b))) /\ Dropped(buf, Len(b)) \o rest = tail
<1> DEFINE s == buf \o rest
           d == Dropped(buf, Len(b))
<1>1. /\ s \in Text /\ Len(s) = Len(buf) + Len(rest) /\ Len(buf) \in Nat /\ Len(rest) \in Nat
      /\ (\A i \in 1 .. Len(buf) : s[i] = buf[i]) /\ \A i \in 1 .. Len(rest) : s[Len(buf) + i] = rest[i]
  BY JoinIs, Zenon
<1>2. /\ Len(b) \in Nat /\ Len(b) <= Len(s) /\ Dropped(s, Len(b)) = tail
      /\ \A i \in 1 .. Len(b) : s[i] = b[i]
  BY Zenon DEF Begins
<1> HIDE DEF s
<1>3. CASE Len(buf) < Len(b)
  <2>1. \A i \in 1 .. Len(buf) : buf[i] = b[i]
    BY <1>1, <1>2, <1>3
  <2> QED BY <1>3, <2>1
<1>4. CASE Len(b) <= Len(buf)
  <2>1. \A i \in 1 .. Len(b) : buf[i] = b[i]
    BY <1>1, <1>2, <1>4
  <2>2. Begins(buf, b, d)
    BY <1>1, <1>2, <1>4, <2>1, Zenon DEF Begins
  <2>3. /\ d \in Text /\ Len(d) = Len(buf) - Len(b) /\ \A i \in 1 .. Len(d) : d[i] = buf[Len(b) + i]
    BY <1>2, <1>4, DropIs, Zenon
  <2>4. /\ tail \in Text /\ Len(tail) = Len(s) - Len(b) /\ \A i \in 1 .. Len(tail) : tail[i] = s[Len(b) + i]
    BY <1>1, <1>2, DropIs, Zenon
  <2> HIDE DEF d
  <2> DEFINE e == d \o rest
  <2>5. /\ e \in Text /\ Len(e) = Len(d) + Len(rest) /\ Len(d) \in Nat
        /\ (\A i \in 1 .. Len(d) : e[i] = d[i]) /\ \A i \in 1 .. Len(rest) : e[Len(d) + i] = rest[i]
    BY <2>3, JoinIs, Zenon
  <2> HIDE DEF e
  <2>6. Len(e) = Len(tail)
    BY <1>1, <1>2, <2>3, <2>4, <2>5
  <2>7. ASSUME NEW i \in 1 .. Len(e) PROVE e[i] = tail[i]
    <3>1. tail[i] = s[Len(b) + i]
      BY <2>4, <2>6, Zenon
    <3>2. CASE i <= Len(d)
      <4>1. i \in 1 .. Len(d) /\ Len(b) + i \in 1 .. Len(buf)
        BY <1>1, <1>2, <2>3, <2>5, <3>2
      <4> QED BY <1>1, <2>3, <2>5, <3>1, <4>1
    <3>3. CASE i > Len(d)
      <4>1. PICK j \in 1 .. Len(rest) : i = Len(d) + j
        <5>1. i - Len(d) \in 1 .. Len(rest) /\ i = Len(d) + (i - Len(d))
          BY <1>1, <2>5, <3>3
        <5> QED BY <5>1, Zenon
      <4>2. Len(b) + i = Len(buf) + j
        BY <1>1, <1>2, <2>3, <2>5, <4>1
      <4> QED BY <1>1, <2>5, <3>1, <4>1, <4>2
    <3> QED BY <2>5, <3>2, <3>3
  <2>8. e = tail
    BY <2>4, <2>5, <2>6, <2>7, SeqEqual, Zenon DEF Text
  <2> QED BY <2>2, <2>8 DEF d, e
<1> QED BY <1>1, <1>2, <1>3, <1>4

\* One round of the loop handles the first message, once it is whole, and drops
\* it from the buffer.
LEMMA ParseStep ==
  ASSUME IInv, Parse
  PROVE  IInv' /\ (pc' = "read" \/ Len(buffer') < Len(buffer))
<1> DEFINE p == try_parse_request(buffer)
<1>1. PICK ms : Chain(ms, buffer \o wire) /\ Agree(ms, outcomes, expected)
  BY Zenon DEF IInv
<1>2. /\ ms \in Seq(Frame) /\ buffer \in Text /\ wire \in Text
      /\ outcomes \in Seq(Outcome) /\ expected \in Seq(Outcome)
  BY <1>1 DEF Chain, IInv, StreamType
<1>3. StreamType' /\ WaitsToRead'
  BY TypeStep, Zenon DEF IInv, Next
<1>4. wire' = wire /\ expected' = expected
  BY Zenon DEF Parse
<1>5. CASE p.status = "Incomplete"
  <2>1. buffer' = buffer /\ outcomes' = outcomes /\ pc' = "read"
    BY <1>5, Zenon DEF Parse
  <2> QED BY <1>1, <1>2, <1>3, <1>4, <2>1, Zenon DEF IInv
<1>6. CASE p.status # "Incomplete"
  <2>1. buffer' = p.rest /\ outcomes' = Logged(p.parsed)
    BY <1>6, Zenon DEF Parse
  <2>2. ms # <<>>
    <3>1. SUFFICES ASSUME ms = <<>> PROVE FALSE
      BY Zenon
    <3>2. buffer \o wire = <<>>
      BY <1>1, <3>1, ChainEmpty, Zenon
    <3>3. Len(buffer) = 0
      <4>1. Len(buffer \o wire) = Len(buffer) + Len(wire) /\ Len(buffer) \in Nat /\ Len(wire) \in Nat
        BY <1>2, JoinIs, Zenon
      <4>2. Len(buffer \o wire) = 0
        BY <3>2
      <4> QED BY <4>1, <4>2
    <3>4. buffer = <<>>
      BY <1>2, <3>3 DEF Text
    <3> QED BY <1>6, <3>4, NothingParsed
  <2> DEFINE b == ms[1]
             tail == Dropped(buffer \o wire, Len(b))
             d == Dropped(buffer, Len(b))
  <2>3. /\ b \in Frame /\ Tail(ms) \in Seq(Frame)
        /\ Begins(buffer \o wire, b, tail) /\ Chain(Tail(ms), tail)
    BY <1>1, <2>2, ChainHead, Zenon
  <2>4. b \in Text
    BY <2>3, FrameIs, Zenon
  <2>5. ~(Len(buffer) < Len(b) /\ \A i \in 1 .. Len(buffer) : buffer[i] = b[i])
    BY <1>2, <1>6, <2>3, FramePart, Zenon
  <2>6. Begins(buffer, b, d) /\ d \o wire = tail
    <3> HIDE DEF b, tail
    <3>1. \/ Len(buffer) < Len(b) /\ \A i \in 1 .. Len(buffer) : buffer[i] = b[i]
          \/ Begins(buffer, b, Dropped(buffer, Len(b))) /\ Dropped(buffer, Len(b)) \o wire = tail
      BY <1>2, <2>3, <2>4, FirstInBuffer, Zenon
    <3> QED BY <2>5, <3>1
  <2>7. p.parsed = Means(b) /\ p.rest = d
    BY <2>3, <2>6, FrameWhole, ZenonT(40) DEF Means
  <2>8. /\ Agree(Tail(ms), Append(outcomes, Means(b)), expected) /\ ~(Len(outcomes) > Len(expected))
        /\ Append(outcomes, Means(b)) \in Seq(Outcome)
    BY <1>1, <1>2, <2>2, AgreeHead, Zenon
  <2>9. outcomes' = Append(outcomes, Means(b)) /\ buffer' = d
    BY <2>1, <2>7, <2>8, Zenon DEF Logged
  <2>10. Chain(Tail(ms), buffer' \o wire') /\ Agree(Tail(ms), outcomes', expected')
    BY <1>4, <2>3, <2>6, <2>8, <2>9, Zenon
  <2>11. Len(d) < Len(buffer)
    <3>1. Len(b) \in Nat \ {0}
      <4>1. LineEnd(b) \in 1 .. Len(b) /\ Len(b) \in Nat
        BY <2>3, <2>4, FrameIs, LineEndAt, Zenon DEF Begins
      <4> HIDE DEF b
      <4> QED BY <4>1
    <3>2. Len(b) <= Len(buffer) /\ Len(buffer) \in Nat
      BY <2>6, Zenon DEF Begins
    <3>3. Len(b) \in Nat
      BY <3>1, Zenon
    <3>4. Len(d) = Len(buffer) - Len(b)
      BY <1>2, <3>2, <3>3, DropIs, Zenon
    <3> HIDE DEF b, d
    <3> QED BY <3>1, <3>2, <3>4
  <2> QED BY <1>2, <1>3, <1>4, <2>8, <2>9, <2>10, <2>11, Zenon DEF IInv
<1> QED BY <1>5, <1>6

\* Every step keeps the invariant.
LEMMA NextIInv ==
  ASSUME WholeFrames, IInv, [Next]_vars
  PROVE  IInv'
<1>1. CASE UNCHANGED vars
  <2>1. wire' = wire /\ buffer' = buffer /\ outcomes' = outcomes /\ expected' = expected
    BY <1>1, Zenon DEF vars
  <2>2. StreamType' /\ WaitsToRead'
    BY TypeStep, Zenon DEF IInv
  <2> QED BY <2>1, <2>2, Zenon DEF IInv
<1> QED BY <1>1, ClientWriteStep, ReadAndFeedStep, ParseStep, Zenon DEF Next

\* The invariant holds in every reachable state.
LEMMA Invariance ==
  ASSUME WholeFrames
  PROVE  Spec => []IInv
<1>1. IInv /\ [Next]_vars => IInv'
  BY NextIInv, Zenon
<1> QED BY <1>1, InitIInv, PTL DEF Spec

\* However the stream is cut, the loop that the server and the router share
\* handles exactly what the client wrote, in order: no message is lost, split,
\* handled twice or merged with its neighbour, malformed ones included.
THEOREM OutcomesInOrderHolds ==
  ASSUME WholeFrames
  PROVE  Spec => []OutcomesInOrder
<1>1. IInv => OutcomesInOrder
  <2> SUFFICES ASSUME IInv PROVE OutcomesInOrder
    BY Zenon
  <2>1. PICK ms : Chain(ms, buffer \o wire) /\ Agree(ms, outcomes, expected)
    BY Zenon DEF IInv
  <2>2. /\ Len(expected) = Len(outcomes) + Len(ms) /\ \A j \in 1 .. Len(outcomes) : outcomes[j] = expected[j]
        /\ outcomes \in Seq(Outcome) /\ expected \in Seq(Outcome) /\ ms \in Seq(Frame)
    BY <2>1, Zenon DEF Agree, Chain, IInv
  <2>3. Len(outcomes) \in Nat /\ Len(outcomes) <= Len(expected)
    BY <2>2
  <2> DEFINE s == SubSeq(outcomes, 1, Len(outcomes))
             t == SubSeq(expected, 1, Len(outcomes))
  <2>4. s \in Seq(Outcome) /\ Len(s) = Len(outcomes) /\ \A i \in 1 .. Len(outcomes) : s[i] = outcomes[i]
    BY <2>2, <2>3
  <2>5. t \in Seq(Outcome) /\ Len(t) = Len(outcomes) /\ \A i \in 1 .. Len(outcomes) : t[i] = expected[i]
    BY <2>2, <2>3
  <2> HIDE DEF s, t
  <2>6. s = t
    BY <2>2, <2>4, <2>5, SeqEqual, Zenon
  <2> QED BY <2>3, <2>6 DEF OutcomesInOrder, IsPrefix, s, t
<1> QED BY <1>1, Invariance, PTL

\* When everything was read and the loop waits, everything was handled: no
\* whole message is left behind in IncrementalParser's buffer.
THEOREM NothingStuckHolds ==
  ASSUME WholeFrames
  PROVE  Spec => []NothingStuck
<1>1. IInv => NothingStuck
  <2> SUFFICES ASSUME IInv, pc = "read", wire = <<>> PROVE outcomes = expected
    BY Zenon DEF NothingStuck
  <2>1. PICK ms : Chain(ms, buffer \o wire) /\ Agree(ms, outcomes, expected)
    BY DEF IInv
  <2>2. buffer \o wire = buffer /\ buffer \in Text /\ outcomes \in Seq(Outcome) /\ expected \in Seq(Outcome)
    <3>1. buffer \in Seq(Symbol)
      BY Zenon DEF IInv, StreamType, Text
    <3> QED BY <3>1 DEF IInv, Text
  <2>3. try_parse_request(buffer).status = "Incomplete"
    BY DEF IInv, WaitsToRead
  <2>4. ms = <<>>
    <3>1. SUFFICES ASSUME ms # <<>> PROVE FALSE
      BY Zenon
    <3>2. ms[1] \in Frame /\ Begins(buffer, ms[1], Dropped(buffer, Len(ms[1])))
      BY <2>1, <2>2, <3>1, ChainHead, Zenon
    <3> QED BY <2>3, <3>2, FrameWhole, Zenon
  <2>5. Len(ms) = 0
    BY <2>4, Zenon
  <2>6. Len(expected) = Len(outcomes) /\ \A j \in 1 .. Len(outcomes) : outcomes[j] = expected[j]
    BY <2>1, <2>2, <2>5 DEF Agree
  <2> QED BY <2>2, <2>6, SeqEqual
<1> QED BY <1>1, Invariance, PTL

\* What ParseLoopEnds rests on: a round of the inner loop that is not its last
\* shortens the buffer, malformed messages included.
THEOREM RoundsShorten ==
  ASSUME WholeFrames
  PROVE  Spec => [][Parse => pc' = "read" \/ Len(buffer') < Len(buffer)]_vars
<1>1. IInv => [Parse => pc' = "read" \/ Len(buffer') < Len(buffer)]_vars
  BY ParseStep, Zenon
<1> QED BY <1>1, Invariance, PTL

-----------------------------------------------------------------------------
(* What send_request() writes.                                             *)

\* A request is one message, and means itself, or an error if its key is not
\* valid.
LEMMA RequestIsFrame ==
  ASSUME NEW r \in Sendable
  PROVE  /\ IsFrame(encode_request(r))
         /\ Means(encode_request(r)) = IF Acceptable(r) THEN r ELSE None
<1> DEFINE e == encode_request(r)
           line == FirstLine(e)
<1>0. e \in Text /\ Len(e) \in Nat
  <2>1. e \in Text
    BY RequestText, Zenon
  <2> HIDE DEF e
  <2> QED BY <2>1 DEF Text
<1>m. MaxLineLen \in Nat /\ MaxLineLen >= 3
  BY ProtocolAssumption, Zenon
<1>1. Means(e) = IF Acceptable(r) THEN r ELSE None
  <2> DEFINE d == Dropped(e, Len(e))
  <2>1. Begins(e, e, d)
    <3> HIDE DEF e
    <3> QED BY <1>0 DEF Begins
  <2>2. try_parse_request(e) = IF Acceptable(r) THEN Complete(r, d) ELSE Failure(d)
    BY <2>1, RequestWhole, Zenon
  <2> HIDE DEF e, d
  <2> QED BY <2>2 DEF Means, Complete, Failure
<1>2. ASSUME LineEnd(e) = Len(e), Len(e) \in {2, 3}, \A j \in 1 .. Len(e) - 1 : e[j] # HugeKey
      PROVE  IsFrame(e)
  <2>0. LineEnd(e) # 0 /\ Len(e) - 1 \in Nat /\ Len(e) - 1 <= Len(e) /\ Len(e) - 1 <= MaxLineLen
    BY <1>2, <1>m
  <2>1. LineEnd(e) # 0 /\ ~LineTooLong(SubSeq(e, 1, LineEnd(e) - 1))
    BY <1>0, <1>2, <2>0, ShortLine, Zenon
  <2>2. Len(line) \in Nat /\ Len(line) <= LineEnd(e) - 1
    BY <1>0, <2>1, FirstLineLen, Zenon
  <2>3. LengthOf(line) = -1
    <3> HIDE DEF e, line
    <3> QED BY <1>2, <2>2 DEF LengthOf
  <2> QED BY <1>2, <2>1, <2>3, Zenon DEF IsFrame, FirstLine, LengthOf
<1>3. CASE r = Ping
  <2>1. Len(e) = 2 /\ e[1] = "PING" /\ e[2] = LF
    BY <1>3, RequestText, Zenon
  <2> HIDE DEF e
  <2>2. 2 \in 1 .. Len(e) /\ \A j \in 1 .. 2 - 1 : e[j] # LF
    BY <2>1 DEF LF
  <2>3. LineEnd(e) = 2
    BY <1>0, <2>1, <2>2, LineEndIs, Zenon
  <2>4. \A j \in 1 .. Len(e) - 1 : e[j] # HugeKey
    BY <2>1 DEF HugeKey
  <2> QED BY <1>1, <1>2, <2>1, <2>3, <2>4 DEF e
<1>4. CASE r \in [command : {"Get", "Delete"}, key : {CR, SP, LongKey} \cup Keys, value : {None}]
  <2> DEFINE w == IF r.command = "Get" THEN "GET" ELSE "DELETE"
  <2>1. Len(e) = 3 /\ e[1] = w /\ e[2] = r.key /\ e[3] = LF
    BY <1>4, RequestText, Zenon
  <2> HIDE DEF e
  <2>2. r.key \notin {LF, HugeKey} /\ w \notin {LF, HugeKey}
    BY <1>4, ProtocolAssumption, Zenon DEF LF, CR, SP, LongKey, HugeKey, is_valid_key
  <2> HIDE DEF w
  <2>3. 3 \in 1 .. Len(e) /\ \A j \in 1 .. 3 - 1 : e[j] # LF
    BY <2>1, <2>2
  <2>4. LineEnd(e) = 3
    BY <1>0, <2>1, <2>3, LineEndIs, Zenon
  <2>5. \A j \in 1 .. Len(e) - 1 : e[j] # HugeKey
    BY <2>1, <2>2
  <2> QED BY <1>1, <1>2, <2>1, <2>4, <2>5 DEF e
<1>5. CASE r \in [command : {"Set"}, key : Keys, value : Values]
  <2> DEFINE n == Len(r.value)
             l == SubSeq(e, 1, 3)
  <2>1. n \in Nat /\ n \in 0 .. 8 /\ n \in 0 .. MaxValueLen /\ r.key # LF /\ is_valid_key(r.key)
    BY <1>5, SetFacts, Zenon
  <2>2. Len(e) = n + 5 /\ e[1] = "SET" /\ e[2] = r.key /\ e[3] = Numeral(n) /\ e[4] = LF
    BY <1>5, RequestText, Zenon
  <2> HIDE DEF e, n
  <2>3. Numeral(n) \notin {LF, CR, HugeKey} /\ r.key # HugeKey
    BY <2>1, NumeralIs, Zenon DEF is_valid_key
  <2>4. 4 \in 1 .. Len(e) /\ \A j \in 1 .. 4 - 1 : e[j] # LF
    BY <2>1, <2>2, <2>3 DEF LF
  <2>5. LineEnd(e) = 4
    BY <1>0, <2>2, <2>4, LineEndIs, Zenon
  <2>6. l \in Text /\ Len(l) = 3 /\ l[1] = "SET" /\ l[2] = r.key /\ l[3] = Numeral(n)
    <3>1. 3 \in Nat /\ 3 <= Len(e)
      BY <2>1, <2>2
    <3>2. l \in Text /\ Len(l) = 3 /\ \A i \in 1 .. 3 : l[i] = e[i]
      BY <1>0, <3>1, LineOf, ZenonT(40)
    <3> HIDE DEF l
    <3> QED BY <2>2, <3>2
  <2>7. strip_trailing_cr(SubSeq(e, 1, 4 - 1)) = l
    <3>1. 4 - 1 = 3
      OBVIOUS
    <3>2. strip_trailing_cr(l) = l
      <4> HIDE DEF l
      <4>1. l # <<>> /\ l[Len(l)] # CR
        BY <2>3, <2>6, NotEmpty, Zenon
      <4> QED BY <2>6, <4>1, StripIs, Zenon
    <3> QED BY <3>1, <3>2, Zenon
  <2>8. parse_length(Numeral(n)) = n
    BY <2>1, LengthIs, Zenon
  <2> HIDE DEF l
  <2>9. n # -1 /\ n + 5 = 4 + n + 1 /\ 4 # 0
    BY <2>1
  <2>s. ~LineTooLong(SubSeq(e, 1, 4 - 1))
    <3>1. 4 - 1 \in Nat /\ 4 - 1 <= Len(e) /\ 4 - 1 <= MaxLineLen
      BY <1>m, <2>1, <2>2
    <3>2. \A j \in 1 .. 4 - 1 : e[j] # HugeKey
      BY <2>2, <2>3 DEF HugeKey
    <3> QED BY <1>0, <3>1, <3>2, ShortLine, Zenon
  <2>10. IsFrame(e)
    BY <2>1, <2>2, <2>5, <2>6, <2>7, <2>8, <2>9, <2>s, Zenon DEF IsFrame
  <2> QED BY <1>1, <2>10 DEF e
<1> QED BY <1>3, <1>4, <1>5 DEF Sendable

\* Requests whose lines are not too long, written one behind the other without
\* waiting for responses: the loop handles each of them once and in order, and
\* an error for each one with a key that is not valid.
THEOREM PipelinedRequests ==
  ASSUME \A i \in Items : \E r \in Sendable :
           i.bytes = encode_request(r) /\ i.outcome = IF Acceptable(r) THEN r ELSE None
  PROVE  Spec => [](OutcomesInOrder /\ NothingStuck)
<1>1. WholeFrames
  BY RequestIsFrame, Zenon DEF WholeFrames, Means
<1>2. (Spec => []OutcomesInOrder) /\ (Spec => []NothingStuck)
  BY <1>1, OutcomesInOrderHolds, NothingStuckHolds, Zenon
<1> QED BY <1>2, PTL
=============================================================================
