----------------------------- MODULE MCProtocol -----------------------------
(* Small instances of RequestStream.tla for TLC.                           *)
EXTENDS RequestStream

\* Values: empty, a line feed, and a text that looks like a request.
SomeValues == {<<>>, <<LF>>, <<"PING", LF>>}

Written(r) == [bytes |-> encode_request(r), outcome |-> r]
Garbled(bytes) == [bytes |-> bytes, outcome |-> None]

\* One item for every branch of try_parse_request but the one of a line that
\* is too long, which drops nothing.
EveryBranch ==
  {Written(r) : r \in Request \cup {Ping}}
    \cup {Garbled(b) : b \in {<<LF>>, <<Other, LF>>, <<"GET", LF>>, <<"PING", "k", LF>>,
                              <<"DELETE", LongKey, LF>>, <<"SET", "k", "9", LF>>,
                              <<"SET", "k", "1", LF, Other, Other>>}}
    \cup {[bytes |-> <<"SET", "k", "1", CR, LF, CR, LF>>,
           outcome |-> [command |-> "Set", key |-> "k", value |-> <<CR>>]]}

\* Lines that are too long unless they arrive with their line feed: a lookup of
\* a huge key, and a SET that leaves no room for its CR.
WithLongLine ==
  {Written(Ping), Garbled(<<"GET", HugeKey, LF>>),
   [bytes |-> <<"SET", "k", "0", CR, LF, LF>>,
    outcome |-> [command |-> "Set", key |-> "k", value |-> <<>>]]}
=============================================================================
