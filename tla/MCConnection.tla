---------------------------- MODULE MCConnection ----------------------------
(* Small instances of Connection.tla for TLC.                              *)
EXTENDS Connection

SomeValues == {<<>>, <<LF>>, <<"PING", SP, LF>>}

SetLine(key, tokens) == <<<<"SET">>, <<key>>>> \o tokens

\* Requests the server accepts, lookups of a key that is not valid but leaves the
\* line short enough, and lines that kvclient refuses.
WellFormed ==
  {<<<<"ping">>>>, <<<<"GET">>, <<LongKey>>>>, <<<<"DELETE">>, <<SP>>>>, <<>>, <<<<"k">>>>, <<<<"SET">>, <<"k">>>>}
    \cup {<<<<w>>, <<k>>>> : w \in {"get", "DELETE"}, k \in Keys}
    \cup {SetLine(k, v) : k \in Keys, v \in {<<<<>>>>, <<<<LF>>>>, <<<<"PING">>, <<LF>>>>}}

\* A key that is too long, or a value that is.
AnySet ==
  WellFormed \cup {SetLine(LongKey, <<<<"PING">>, <<LF>>>>),
                   SetLine("k", <<<<"PING">>, <<LF>>, <<LF>>>>)}

ASSUME WellFormedLines == Lines = WellFormed => OnlySendable
=============================================================================
