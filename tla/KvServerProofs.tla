--------------------------- MODULE KvServerProofs ---------------------------
(***************************************************************************)
(* Proofs about KvServer.tla, for any number of reactors, any descriptors  *)
(* and any capacity of the pipe and of the send buffers, in layers: what   *)
(* the loop over poll_fds_ computes, the types of the variables (TypeInv), *)
(* the handover of accepted connections (NoLostWakeup), and ownership:     *)
(* every open connection is held in one place, which is the queue or the   *)
(* poll set of one reactor (OwnInv); above them what the clients rely on:  *)
(* a connection is answered for its own requests (AnswerInv), and a pass   *)
(* over the poll set serves each connection that poll() reported once      *)
(* (DueInv). The theorems put the layers together, and the last one has    *)
(* what ConnectionsServed rests on.                                        *)
(***************************************************************************)
EXTENDS KvServer, FiniteSetTheorems, WellFoundedInduction, TLAPS

Entries == [fd : Fds, ready : BOOLEAN]

\* The reactor is at an entry of its poll set, and what write_all() was called
\* with is not all written.
AtEntry == {"scan", "serve", "write", "remove"}

ScanInv ==
  \A r \in Reactors :
    /\ rpc[r] \in AtEntry => Marked(r) # {}
    /\ rpc[r] = "write" => unsent[r] > 0

TypeInv == TypeOK /\ ScanInv

-----------------------------------------------------------------------------
(* The loop over poll_fds_.                                                *)

\* Facts about sequences.
LEMMA MadeSeq ==
  ASSUME NEW S, NEW n \in Nat, NEW t, t = [j \in 1 .. n |-> t[j]], \A j \in 1 .. n : t[j] \in S
  PROVE  t \in Seq(S) /\ Len(t) = n /\ DOMAIN t = 1 .. n
OBVIOUS

\* Appending a sequence keeps the elements of both, the second ones shifted.
LEMMA JoinedSeq ==
  ASSUME NEW S, NEW a \in Seq(S), NEW b \in Seq(S)
  PROVE  /\ a \o b \in Seq(S) /\ Len(a \o b) = Len(a) + Len(b)
         /\ \A j \in 1 .. Len(a) : (a \o b)[j] = a[j]
         /\ \A j \in 1 .. Len(b) : (a \o b)[Len(a) + j] = b[j]
OBVIOUS

\* The loop index is the least of the marked ones.
LEMMA CurrentIs ==
  ASSUME TypeOK, NEW r \in Reactors, Marked(r) # {}
  PROVE  /\ Current(r) \in Marked(r) /\ Current(r) \in Nat \ {0}
         /\ Current(r) \in DOMAIN polled[r] /\ Current(r) <= Len(polled[r])
         /\ \A j \in Marked(r) : Current(r) <= j
         /\ Entry(r) = polled[r][Current(r)] /\ Entry(r).fd \in Fds
<1>0. polled[r] \in Seq(Entries)
  BY Zenon DEF TypeOK, Entries
<1>1. Marked(r) \subseteq Nat
  BY <1>0 DEF Marked
<1>2. PICK x \in Marked(r) : \A y \in Marked(r) : ~ (<<y, x>> \in OpToRel(<, Nat))
  BY <1>1, NatLessThanWellFounded, WFMin, Zenon
<1>3. \A y \in Marked(r) : x <= y
  <2>1. TAKE y \in Marked(r)
  <2>2. ~ (<<y, x>> \in OpToRel(<, Nat))
    BY <1>2, Zenon
  <2> QED
    BY <1>1, <2>2 DEF OpToRel
<1>4. Current(r) \in Marked(r) /\ \A j \in Marked(r) : Current(r) <= j
  BY <1>3, Zenon DEF Current
<1>5. Marked(r) \subseteq DOMAIN polled[r]
  BY DEF Marked
<1>6. Current(r) \in DOMAIN polled[r] /\ polled[r][Current(r)] \in Entries
  BY <1>0, <1>4, <1>5
<1>7. polled[r][Current(r)].fd \in Fds
  BY <1>6 DEF Entries
<1>8. Current(r) \in Nat \ {0} /\ Current(r) <= Len(polled[r])
  BY <1>0, <1>6
<1> QED
  BY <1>4, <1>6, <1>7, <1>8 DEF Entry

\* What ScanFrom makes of the entries s.
LEMMA ScanFromIs ==
  ASSUME TypeOK, NEW r \in Reactors, NEW s \in Seq(Entries), NEW i \in Nat \ {0}, ScanFrom(r, s, i)
  PROVE  /\ polled' \in [Reactors -> Seq(Entries)]
         /\ rpc' \in [Reactors -> {"poll", "drain", "take", "scan", "serve", "write", "remove"}]
         /\ \A q \in Reactors \ {r} : polled'[q] = polled[q] /\ rpc'[q] = rpc[q]
         /\ Len(polled'[r]) = Len(s) /\ DOMAIN polled'[r] = DOMAIN s
         /\ \A j \in DOMAIN s : /\ polled'[r][j].fd = s[j].fd
                                /\ polled'[r][j].ready <=> (j >= i /\ s[j].ready)
         /\ rpc'[r] \in {"poll", "scan"}
         /\ rpc'[r] = "scan" <=> Marked(r)' # {}
<1> DEFINE marked == {j \in i .. Len(s) : s[j].ready}
           t == [j \in DOMAIN s |-> [fd |-> s[j].fd, ready |-> j \in marked]]
<1>1. polled' = [polled EXCEPT ![r] = t]
      /\ rpc' = [rpc EXCEPT ![r] = IF marked = {} THEN "poll" ELSE "scan"]
  BY DEF ScanFrom
<1>2. t \in Seq(Entries) /\ Len(t) = Len(s) /\ DOMAIN t = DOMAIN s
  <2>1. \A j \in DOMAIN s : s[j] \in Entries
    OBVIOUS
  <2>2. \A j \in DOMAIN s : [fd |-> s[j].fd, ready |-> j \in marked] \in Entries
    <3>1. \A j \in DOMAIN s : s[j].fd \in Fds
      BY <2>1 DEF Entries
    <3> HIDE DEF marked
    <3>2. \A j \in DOMAIN s : (j \in marked) \in BOOLEAN
      BY SMT
    <3> QED BY <3>1, <3>2 DEF Entries
  <2>3. Len(s) \in Nat /\ DOMAIN s = 1 .. Len(s)
    OBVIOUS
  <2> HIDE DEF marked
  <2>4. DOMAIN t = 1 .. Len(s) /\ \A j \in 1 .. Len(s) : t[j] \in Entries
    BY <2>2, <2>3, Zenon
  <2>5. t = [j \in 1 .. Len(s) |-> t[j]]
    BY <2>3, Zenon
  <2> HIDE DEF t
  <2> QED BY <2>3, <2>4, <2>5, MadeSeq, Zenon
<1>3. polled \in [Reactors -> Seq(Entries)]
  BY Zenon DEF TypeOK, Entries
<1>4. rpc \in [Reactors -> {"poll", "drain", "take", "scan", "serve", "write", "remove"}]
  BY DEF TypeOK
<1>5. polled'[r] = t
  BY <1>1, <1>3
<1>6. \A j \in DOMAIN s : t[j].fd = s[j].fd /\ (t[j].ready <=> (j >= i /\ s[j].ready))
  <2>1. \A j \in DOMAIN s : t[j].fd = s[j].fd /\ (t[j].ready <=> j \in marked)
    BY Zenon
  <2>2. \A j \in DOMAIN s : j \in marked <=> j >= i /\ s[j].ready
    OBVIOUS
  <2> QED BY <2>1, <2>2, Zenon
<1>7. Marked(r)' = marked
  <2>1. Marked(r)' = {j \in DOMAIN t : t[j].ready}
    BY <1>5 DEF Marked
  <2> QED BY <2>1, <1>2, <1>6, SMTT(20)
<1> HIDE DEF t, marked
<1>8. polled' \in [Reactors -> Seq(Entries)] /\ \A q \in Reactors \ {r} : polled'[q] = polled[q]
  BY <1>1, <1>2, <1>3
<1>9. /\ rpc' \in [Reactors -> {"poll", "drain", "take", "scan", "serve", "write", "remove"}]
      /\ \A q \in Reactors \ {r} : rpc'[q] = rpc[q]
      /\ rpc'[r] = IF marked = {} THEN "poll" ELSE "scan"
  BY <1>1, <1>4
<1> QED
  BY <1>2, <1>5, <1>6, <1>7, <1>8, <1>9

\* The entries that Take and Remove scan.
LEMMA TakenIs ==
  ASSUME TypeOK, NEW r \in Reactors
  PROVE  LET s == polled[r] \o NewEntries(r) IN
         /\ NewEntries(r) \in Seq(Entries) /\ s \in Seq(Entries)
         /\ Len(NewEntries(r)) = Len(pending[r])
         /\ Len(s) = Len(polled[r]) + Len(pending[r])
         /\ \A j \in 1 .. Len(polled[r]) : s[j] = polled[r][j]
         /\ \A j \in 1 .. Len(pending[r]) :
              s[Len(polled[r]) + j] = [fd |-> pending[r][j], ready |-> FALSE]
<1>1. polled[r] \in Seq(Entries) /\ pending[r] \in Seq(Fds)
  BY Zenon DEF TypeOK, Entries
<1>2. /\ NewEntries(r) \in Seq(Entries) /\ Len(NewEntries(r)) = Len(pending[r])
      /\ \A j \in 1 .. Len(pending[r]) : NewEntries(r)[j] = [fd |-> pending[r][j], ready |-> FALSE]
  <2> DEFINE p == pending[r]
             t == [j \in DOMAIN p |-> [fd |-> p[j], ready |-> FALSE]]
  <2>1. Len(p) \in Nat /\ DOMAIN p = 1 .. Len(p) /\ \A j \in 1 .. Len(p) : p[j] \in Fds
    BY <1>1
  <2>2. \A j \in 1 .. Len(p) : t[j] = [fd |-> p[j], ready |-> FALSE] /\ t[j] \in Entries
    BY <2>1, Zenon DEF Entries
  <2>3. DOMAIN t = 1 .. Len(p) /\ t = [j \in 1 .. Len(p) |-> t[j]]
    BY <2>1, Zenon
  <2>4. t = NewEntries(r)
    BY Zenon DEF NewEntries
  <2> HIDE DEF t
  <2>5. t \in Seq(Entries) /\ Len(t) = Len(p)
    BY <2>1, <2>2, <2>3, MadeSeq, Zenon
  <2> QED BY <2>2, <2>4, <2>5, Zenon
<1> HIDE DEF Entries
<1> QED
  <2> DEFINE a == polled[r]
             b == NewEntries(r)
  <2>1. a \in Seq(Entries) /\ b \in Seq(Entries)
    BY <1>1, <1>2, Zenon
  <2> HIDE DEF a, b
  <2>2. /\ a \o b \in Seq(Entries) /\ Len(a \o b) = Len(a) + Len(b)
        /\ \A j \in 1 .. Len(a) : (a \o b)[j] = a[j]
        /\ \A j \in 1 .. Len(b) : (a \o b)[Len(a) + j] = b[j]
    BY <2>1, JoinedSeq
  <2> QED BY <1>2, <2>1, <2>2, Zenon DEF a, b

\* close_client's removal: the last entry takes the place of the closed one.
LEMMA RemovedIs ==
  ASSUME TypeOK, NEW r \in Reactors, NEW i \in DOMAIN polled[r]
  PROVE  LET s == SwapRemove(polled[r], i) IN
         /\ s \in Seq(Entries) /\ Len(s) = Len(polled[r]) - 1
         /\ \A j \in DOMAIN s : s[j] = IF j = i THEN polled[r][Len(polled[r])] ELSE polled[r][j]
<1>1. polled[r] \in Seq(Entries)
  BY Zenon DEF TypeOK, Entries
<1> QED
  BY <1>1 DEF SwapRemove

-----------------------------------------------------------------------------
(* Types.                                                                  *)

PortTypes ==
  /\ up \in BOOLEAN
  /\ sock \in [Fds -> {"free", "open", "eof", "reset"}]
  /\ outbox \in [Fds -> 0 .. SendBuffer]

CountTypes ==
  /\ inbox \in [Fds -> Nat] /\ sent \in [Fds -> Nat]
  /\ answered \in [Fds -> Nat]
  /\ \A f \in Fds : inbox[f] <= sent[f] /\ sent[f] <= MaxHalves[f]

HandoverTypes ==
  /\ apc \in {"accept", "wake"} /\ next \in Reactors
  /\ pending \in [Reactors -> Seq(Fds)]
  /\ pipe \in [Reactors -> 0 .. PipeSize]

ReactorTypes ==
  /\ rpc \in [Reactors -> {"poll", "drain", "take", "scan", "serve", "write", "remove"}]
  /\ parser \in [Reactors -> [Fds -> Nat \cup {-1}]]
  /\ unsent \in [Reactors -> 0 .. ResponseSize]
  /\ due \in [Reactors -> SUBSET Fds]

EntryTypes == polled \in [Reactors -> Seq(Entries)]

\* TypeOK is the conjunction of the parts the steps below treat one by one.
LEMMA TypeParts == TypeOK <=> PortTypes /\ CountTypes /\ HandoverTypes /\ ReactorTypes /\ EntryTypes
BY Zenon DEF TypeOK, PortTypes, CountTypes, HandoverTypes, ReactorTypes, EntryTypes, Entries

\* The same of the next state.
LEMMA TypePartsNext == (TypeOK <=> PortTypes /\ CountTypes /\ HandoverTypes /\ ReactorTypes /\ EntryTypes)'
BY TypeParts, PTL

\* A step of reactor r leaves the others where they are.
LEMMA ScanStep ==
  ASSUME TypeInv, NEW r \in Reactors,
         \A q \in Reactors \ {r} : polled'[q] = polled[q] /\ rpc'[q] = rpc[q] /\ unsent'[q] = unsent[q],
         rpc'[r] \in AtEntry => Marked(r)' # {},
         rpc'[r] = "write" => unsent'[r] > 0
  PROVE  ScanInv'
<1>1. \A q \in Reactors \ {r} : Marked(q)' = Marked(q)
  BY DEF Marked
<1> QED
  BY <1>1 DEF TypeInv, ScanInv

\* Clients and the accept loop.
LEMMA OutsideTypes ==
  ASSUME TypeInv,
         \/ \E f \in Fds : Client(f) \/ Accept(f)
         \/ Wake \/ StartAgain \/ UNCHANGED vars
  PROVE  TypeInv' /\ UNCHANGED <<rpc, polled, unsent, parser, due>>
<1>. USE DEF kernelVars, acceptVars, reactorVars
<1>t. PortTypes /\ CountTypes /\ HandoverTypes /\ ReactorTypes /\ EntryTypes /\ ScanInv
  BY TypeParts DEF TypeInv
<1>0. UNCHANGED <<rpc, polled, unsent, parser, due>>
  BY DEF Client, Send, Receive, Hangup, Accept, Wake, StartAgain, vars
<1>1. ReactorTypes' /\ EntryTypes'
  BY <1>t, <1>0 DEF ReactorTypes, EntryTypes
<1>2. ScanInv'
  BY <1>t, <1>0 DEF ScanInv, Marked
<1>3. PortTypes' /\ CountTypes' /\ HandoverTypes'
  <2>1. ASSUME NEW f \in Fds, Send(f) PROVE PortTypes' /\ CountTypes' /\ HandoverTypes'
    <3>1. PortTypes' /\ HandoverTypes'
      BY <1>t, <2>1 DEF Send, PortTypes, HandoverTypes
    <3>2. inbox' = [inbox EXCEPT ![f] = @ + 1] /\ sent' = [sent EXCEPT ![f] = @ + 1]
          /\ answered' = answered /\ sent[f] < MaxHalves[f] /\ MaxHalves[f] \in Nat
      BY <2>1, ServerAssumption DEF Send
    <3> QED BY <1>t, <3>1, <3>2 DEF CountTypes
  <2>2. ASSUME NEW f \in Fds, Receive(f) PROVE PortTypes' /\ CountTypes' /\ HandoverTypes'
    <3>1. CountTypes' /\ HandoverTypes' /\ UNCHANGED <<up, sock>>
      BY <1>t, <2>2, Zenon DEF Receive, CountTypes, HandoverTypes
    <3>2. outbox' = [outbox EXCEPT ![f] = @ - 1] /\ outbox[f] > 0 /\ SendBuffer \in Nat
      BY <2>2, ServerAssumption DEF Receive
    <3> QED BY <1>t, <3>1, <3>2 DEF PortTypes
  <2>3. ASSUME NEW f \in Fds, Hangup(f) PROVE PortTypes' /\ CountTypes' /\ HandoverTypes'
    <3>1. CountTypes' /\ HandoverTypes' /\ UNCHANGED up
      BY <1>t, <2>3, Zenon DEF Hangup, CountTypes, HandoverTypes
    <3>2. outbox' = [outbox EXCEPT ![f] = 0] /\ SendBuffer \in Nat
          /\ \E v \in {"eof", "reset"} : sock' = [sock EXCEPT ![f] = v]
      BY <2>3, ServerAssumption, Zenon DEF Hangup
    <3> QED BY <1>t, <3>1, <3>2 DEF PortTypes
  <2>4. ASSUME NEW f \in Fds, Accept(f) PROVE PortTypes' /\ CountTypes' /\ HandoverTypes'
    BY <1>t, <2>4 DEF Accept, PortTypes, CountTypes, HandoverTypes
  <2>5. CASE Wake
    <3>1. (next + 1) % NumReactors \in Reactors
      BY <1>t, ServerAssumption DEF Reactors, HandoverTypes
    <3>2. (IF pipe[next] < PipeSize THEN pipe[next] + 1 ELSE pipe[next]) \in 0 .. PipeSize
      BY <1>t, ServerAssumption DEF HandoverTypes
    <3>3. PortTypes' /\ CountTypes'
      BY <1>t, <2>5, Zenon DEF Wake, kernelVars, PortTypes, CountTypes
    <3>4. pipe' \in [Reactors -> 0 .. PipeSize]
      BY <1>t, <2>5, <3>2, Zenon DEF Wake, HandoverTypes
    <3> QED BY <1>t, <2>5, <3>1, <3>3, <3>4, Zenon DEF Wake, HandoverTypes
  <2>6. CASE StartAgain \/ UNCHANGED vars
    BY <1>t, <2>6, Zenon DEF StartAgain, vars, PortTypes, CountTypes, HandoverTypes
  <2> QED BY <2>1, <2>2, <2>3, <2>4, <2>5, <2>6 DEF Client
<1> QED
  BY <1>0, <1>1, <1>2, <1>3, TypePartsNext DEF TypeInv

\* A reactor and its connection.
LEMMA ReactorTypesStep ==
  ASSUME TypeInv, NEW r \in Reactors, ReactorStep(r)
  PROVE  TypeInv'
<1>. USE DEF kernelVars, acceptVars
<1>t. TypeOK /\ PortTypes /\ CountTypes /\ HandoverTypes /\ ReactorTypes /\ EntryTypes /\ ScanInv
  BY TypeParts DEF TypeInv
<1>0. polled[r] \in Seq(Entries)
  BY <1>t DEF EntryTypes
<1>1. CASE Poll(r)
  <2> DEFINE s == polled[r]
             t == [i \in DOMAIN s |-> [fd |-> s[i].fd, ready |-> Readable(s[i].fd)]]
  <2>1. polled' = [polled EXCEPT ![r] = t]
    BY <1>1 DEF Poll
  <2>2. Len(s) \in Nat /\ DOMAIN s = 1 .. Len(s) /\ \A j \in 1 .. Len(s) : s[j].fd \in Fds
    <3>1. Len(s) \in Nat /\ DOMAIN s = 1 .. Len(s) /\ \A j \in 1 .. Len(s) : s[j] \in Entries
      BY <1>0
    <3> QED BY <3>1 DEF Entries
  <2>3. \A f : Readable(f) \in BOOLEAN
    BY DEF Readable
  <2>4. \A j \in 1 .. Len(s) : t[j] = [fd |-> s[j].fd, ready |-> Readable(s[j].fd)] /\ t[j] \in Entries
    BY <2>2, <2>3, Zenon DEF Entries
  <2>5. DOMAIN t = 1 .. Len(s) /\ t = [j \in 1 .. Len(s) |-> t[j]]
    BY <2>2, Zenon
  <2> HIDE DEF t
  <2>6. t \in Seq(Entries)
    BY <2>2, <2>4, <2>5, MadeSeq, Zenon
  <2>7. EntryTypes' /\ polled'[r] = t /\ \A q \in Reactors \ {r} : polled'[q] = polled[q]
    BY <1>t, <2>1, <2>6 DEF EntryTypes
  <2>8. PortTypes' /\ CountTypes' /\ HandoverTypes'
    BY <1>t, <1>1 DEF Poll, PortTypes, CountTypes, HandoverTypes
  <2>9. ReactorTypes'
    BY <1>t, <1>1, Zenon DEF Poll, ReactorTypes, ReadyFds
  <2>10. rpc'[r] \in AtEntry => Marked(r)' # {}
    <3> SUFFICES ASSUME rpc'[r] \in AtEntry PROVE Marked(r)' # {}
      OBVIOUS
    <3>1. ReadyFds(r) # {}
      BY <1>t, <1>1 DEF Poll, AtEntry, ReactorTypes
    <3>2. PICK i \in DOMAIN s : Readable(s[i].fd)
      BY <3>1 DEF ReadyFds
    <3>3. i \in DOMAIN t /\ t[i].ready
      <4>1. t[i] = [fd |-> s[i].fd, ready |-> Readable(s[i].fd)]
        BY <2>2, <2>4, <3>2, Zenon
      <4>2. t[i].ready <=> Readable(s[i].fd)
        BY <4>1
      <4> QED BY <2>2, <2>5, <3>2, <4>2, Zenon
    <3> QED BY <2>7, <3>3 DEF Marked
  <2>11. \A q \in Reactors \ {r} : rpc'[q] = rpc[q] /\ unsent'[q] = unsent[q]
    BY <1>t, <1>1 DEF Poll, ReactorTypes
  <2>12. rpc'[r] # "write"
    BY <1>t, <1>1 DEF Poll, ReactorTypes
  <2>13. ScanInv'
    BY <1>t, <2>7, <2>10, <2>11, <2>12, ScanStep
  <2> QED BY <2>7, <2>8, <2>9, <2>13, TypePartsNext DEF TypeInv
<1>2. CASE Drain(r)
  <2>1. PortTypes' /\ CountTypes' /\ HandoverTypes' /\ EntryTypes'
    <3>1. PortTypes' /\ CountTypes' /\ EntryTypes'
      BY <1>t, <1>2, Zenon DEF Drain, kernelVars, PortTypes, CountTypes, EntryTypes
    <3>2. 0 \in 0 .. PipeSize
      BY ServerAssumption
    <3>3. HandoverTypes'
      BY <1>t, <1>2, <3>2, Zenon DEF Drain, acceptVars, HandoverTypes
    <3> QED BY <3>1, <3>3, Zenon
  <2>2. /\ ReactorTypes' /\ rpc'[r] = "take" /\ UNCHANGED <<polled, unsent>>
        /\ \A q \in Reactors \ {r} : rpc'[q] = rpc[q]
    BY <1>t, <1>2 DEF Drain, ReactorTypes
  <2>3. ScanInv'
    BY <1>t, <2>2, ScanStep, Zenon DEF AtEntry
  <2> QED BY <2>1, <2>2, <2>3, TypePartsNext DEF TypeInv
<1>3. ASSUME NEW s \in Seq(Entries), NEW i \in Nat \ {0}, ScanFrom(r, s, i),
             unsent' = unsent
      PROVE  EntryTypes' /\ ScanInv'
             /\ rpc' \in [Reactors -> {"poll", "drain", "take", "scan", "serve", "write", "remove"}]
  <2>1. /\ polled' \in [Reactors -> Seq(Entries)]
        /\ rpc' \in [Reactors -> {"poll", "drain", "take", "scan", "serve", "write", "remove"}]
        /\ \A q \in Reactors \ {r} : polled'[q] = polled[q] /\ rpc'[q] = rpc[q]
        /\ rpc'[r] \in {"poll", "scan"}
        /\ rpc'[r] = "scan" <=> Marked(r)' # {}
    BY <1>t, <1>3, ScanFromIs, Zenon
  <2>2. ScanInv'
    BY <1>t, <1>3, <2>1, ScanStep, Zenon DEF AtEntry
  <2> QED BY <1>t, <2>1, <2>2, Zenon DEF EntryTypes
<1>4. CASE Take(r)
  <2>1. EntryTypes' /\ ScanInv'
        /\ rpc' \in [Reactors -> {"poll", "drain", "take", "scan", "serve", "write", "remove"}]
    <3>1. ScanFrom(r, polled[r] \o NewEntries(r), 1) /\ unsent' = unsent
      BY <1>4 DEF Take
    <3>2. polled[r] \o NewEntries(r) \in Seq(Entries)
      BY <1>t, TakenIs, Zenon
    <3> QED BY <1>3, <3>1, <3>2, 1 \in Nat \ {0}, Zenon
  <2>2. PortTypes' /\ CountTypes' /\ HandoverTypes'
    BY <1>t, <1>4 DEF Take, PortTypes, CountTypes, HandoverTypes
  <2>3. ReactorTypes'
    BY <1>t, <1>4, <2>1, Zenon DEF Take, AddParsers, ReactorTypes
  <2> QED BY <2>1, <2>2, <2>3, TypePartsNext DEF TypeInv
<1>5. CASE Service(r) \/ Remove(r)
  <2> DEFINE f == Entry(r).fd
  <2>1. rpc[r] \in AtEntry
    BY <1>5, Zenon DEF Service, Remove, ReadInput, Handle, RejectLine, EndShortRead, ReadAgain, ReadNothing, Close,
                ParsedAll, WriteChunk, WriteToLeaver, WriteFails, WriteRaisesSignal, Writing, AtEntry
  <2>2. /\ Marked(r) # {} /\ f \in Fds /\ Current(r) \in Nat \ {0} /\ Current(r) \in DOMAIN polled[r]
    BY <1>t, <2>1, CurrentIs, Zenon DEF ScanInv
  <2>3. rpc[r] = "write" => unsent[r] > 0
    BY <1>t DEF ScanInv
  <2> HIDE DEF f
  <2>4. CASE ReadInput(r)
    <3>1. /\ PortTypes' /\ CountTypes' /\ HandoverTypes' /\ EntryTypes'
      <4>1. PortTypes' /\ HandoverTypes' /\ EntryTypes'
        BY <1>t, <2>4, Zenon DEF ReadInput, PortTypes, HandoverTypes, EntryTypes
      <4>2. inbox' = [inbox EXCEPT ![f] = 0] /\ UNCHANGED <<sent, answered>>
        BY <2>4 DEF ReadInput, f
      <4>3. inbox' \in [Fds -> Nat] /\ \A g \in Fds : inbox'[g] = IF g = f THEN 0 ELSE inbox[g]
        BY <1>t, <4>2, Zenon DEF CountTypes
      <4>4. \A g \in Fds : sent[g] \in Nat /\ inbox'[g] <= sent[g] /\ sent[g] <= MaxHalves[g]
        BY <1>t, <4>3 DEF CountTypes
      <4> QED BY <1>t, <4>1, <4>2, <4>3, <4>4, Zenon DEF CountTypes
    <3>2. ReactorTypes' /\ UNCHANGED <<polled, unsent>> /\ rpc' = [rpc EXCEPT ![r] = "serve"]
      <4>1. /\ parser' = [parser EXCEPT ![r][f] = @ + inbox[f]] /\ inbox[f] > 0
            /\ UNCHANGED <<polled, unsent, due>> /\ rpc' = [rpc EXCEPT ![r] = "serve"]
        BY <2>4, Zenon DEF ReadInput, f
      <4>2. parser[r] \in [Fds -> Nat \cup {-1}] /\ parser[r][f] \in Nat \cup {-1} /\ inbox[f] \in Nat
        <5>1. parser[r] \in [Fds -> Nat \cup {-1}]
          BY <1>t, Zenon DEF ReactorTypes
        <5>2. parser[r][f] \in Nat \cup {-1}
          BY <2>2, <5>1, Zenon
        <5>3. inbox[f] \in Nat
          BY <1>t, <2>2, Zenon DEF CountTypes
        <5> QED BY <5>1, <5>2, <5>3, Zenon
      <4>3. parser[r][f] + inbox[f] \in Nat \cup {-1}
        BY <4>1, <4>2
      <4>4. parser' \in [Reactors -> [Fds -> Nat \cup {-1}]]
        BY <1>t, <2>2, <4>1, <4>2, <4>3, Zenon DEF ReactorTypes
      <4>5. rpc' \in [Reactors -> {"poll", "drain", "take", "scan", "serve", "write", "remove"}]
        BY <1>t, <4>1, Zenon DEF ReactorTypes
      <4> QED BY <1>t, <4>1, <4>4, <4>5, Zenon DEF ReactorTypes
    <3>3. Marked(r)' # {}
      BY <2>2, <3>2 DEF Marked
    <3>4. ScanInv'
      BY <1>t, <3>2, <3>3, ScanStep DEF ReactorTypes
    <3> QED BY <3>1, <3>2, <3>4, TypePartsNext DEF TypeInv
  <2>5. CASE Handle(r)
    <3>1. /\ PortTypes' /\ CountTypes' /\ HandoverTypes' /\ EntryTypes'
      <4>1. PortTypes' /\ HandoverTypes' /\ EntryTypes'
        BY <1>t, <2>5, Zenon DEF Handle, PortTypes, HandoverTypes, EntryTypes
      <4>2. answered' = [answered EXCEPT ![f] = @ + 1] /\ UNCHANGED <<inbox, sent>>
        BY <2>5 DEF Handle, f
      <4> QED BY <1>t, <2>2, <4>1, <4>2 DEF CountTypes
    <3>2. /\ ReactorTypes' /\ UNCHANGED polled
          /\ rpc' = [rpc EXCEPT ![r] = "write"] /\ unsent' = [unsent EXCEPT ![r] = ResponseSize]
      <4>1. /\ parser' = [parser EXCEPT ![r][f] = @ - 2] /\ parser[r][f] >= 2
            /\ UNCHANGED <<polled, due>>
            /\ rpc' = [rpc EXCEPT ![r] = "write"] /\ unsent' = [unsent EXCEPT ![r] = ResponseSize]
        BY <2>5, Zenon DEF Handle, f
      <4>2. parser' \in [Reactors -> [Fds -> Nat \cup {-1}]]
        BY <1>t, <2>2, <4>1 DEF ReactorTypes
      <4>3. unsent' \in [Reactors -> 0 .. ResponseSize]
        BY <1>t, <4>1, ServerAssumption DEF ReactorTypes
      <4> QED BY <1>t, <4>1, <4>2, <4>3 DEF ReactorTypes
    <3>3. Marked(r)' # {}
      BY <2>2, <3>2, Zenon DEF Marked
    <3>4. ScanInv'
      BY <1>t, <3>2, <3>3, ScanStep, ServerAssumption DEF ReactorTypes
    <3> QED BY <3>1, <3>2, <3>4, TypePartsNext DEF TypeInv
  <2>6. ASSUME NEW g \in Fds, WriteChunk(r, g) \/ WriteToLeaver(r, g) \/ WriteFails(r, g)
        PROVE  TypeInv'
    <3>1. PortTypes' /\ CountTypes'
      BY <1>t, <2>6, ServerAssumption DEF WriteChunk, WriteToLeaver, WriteFails, LeaveUnsent, PortTypes, CountTypes
    <3>2. \E k \in Nat : LeaveUnsent(r, k) /\ k <= ResponseSize
      BY <1>t, <2>3, <2>6, ServerAssumption
      DEF WriteChunk, WriteToLeaver, WriteFails, Writing, ReactorTypes
    <3>3. HandoverTypes' /\ EntryTypes'
      BY <1>t, <3>2 DEF LeaveUnsent, HandoverTypes, EntryTypes
    <3>4. ReactorTypes' /\ UNCHANGED polled
      BY <1>t, <3>2 DEF LeaveUnsent, ReactorTypes
    <3>5. /\ \A q \in Reactors \ {r} : rpc'[q] = rpc[q] /\ unsent'[q] = unsent[q]
          /\ rpc'[r] = "write" => unsent'[r] > 0
      BY <1>t, <3>2 DEF LeaveUnsent, ReactorTypes
    <3>6. Marked(r)' # {}
      BY <2>2, <3>4 DEF Marked
    <3>7. ScanInv'
      BY <1>t, <3>4, <3>5, <3>6, ScanStep
    <3> QED BY <3>1, <3>3, <3>4, <3>7, TypePartsNext DEF TypeInv
  <2>7. ASSUME NEW g \in Fds, WriteRaisesSignal(r, g) PROVE TypeInv'
    <3>1. 0 \in Reactors
      BY ServerAssumption DEF Reactors
    <3>2. PortTypes' /\ CountTypes' /\ HandoverTypes'
      <4>1. PortTypes' /\ CountTypes'
        <5>1. /\ up' = FALSE /\ sock' = [h \in Fds |-> "free"] /\ inbox' = [h \in Fds |-> 0]
              /\ outbox' = [h \in Fds |-> 0] /\ sent' = [h \in Fds |-> 0]
              /\ answered' = [h \in Fds |-> 0]
          BY <2>7, Zenon DEF WriteRaisesSignal, Nothing
        <5>2. PortTypes'
          <6>1. 0 \in 0 .. SendBuffer
            BY ServerAssumption
          <6> QED BY <5>1, <6>1, Zenon DEF PortTypes
        <5>3. \A h \in Fds : MaxHalves[h] \in Nat
          BY ServerAssumption
        <5>4. \A h \in Fds : inbox'[h] <= sent'[h] /\ sent'[h] <= MaxHalves[h]
          <6>1. \A h \in Fds : inbox'[h] = 0 /\ sent'[h] = 0
            BY <5>1, Zenon
          <6> QED BY <5>3, <6>1
        <5>5. inbox' \in [Fds -> Nat] /\ sent' \in [Fds -> Nat] /\ answered' \in [Fds -> Nat]
          BY <5>1
        <5> QED BY <5>2, <5>4, <5>5, Zenon DEF CountTypes
      <4>2. HandoverTypes'
        BY <2>7, <3>1, ServerAssumption DEF WriteRaisesSignal, HandoverTypes
      <4> QED BY <4>1, <4>2
    <3>3. ReactorTypes' /\ EntryTypes'
      BY <1>t, <2>7, ServerAssumption DEF WriteRaisesSignal, ReactorTypes, EntryTypes
    <3>4. ScanInv'
      BY <1>t, <2>7, Zenon DEF WriteRaisesSignal, ScanInv, AtEntry
    <3> QED BY <3>2, <3>3, <3>4, TypePartsNext DEF TypeInv
  <2>8. CASE EndShortRead(r) \/ ReadNothing(r)
    <3>1. PortTypes' /\ CountTypes' /\ HandoverTypes'
      BY <1>t, <2>8, Zenon DEF EndShortRead, ReadNothing, PortTypes, CountTypes, HandoverTypes
    <3>2. ScanFrom(r, polled[r], Current(r) + 1) /\ unsent' = unsent
      BY <2>8, Zenon DEF EndShortRead, ReadNothing
    <3>3. EntryTypes' /\ ScanInv'
          /\ rpc' \in [Reactors -> {"poll", "drain", "take", "scan", "serve", "write", "remove"}]
      BY <1>0, <1>3, <2>2, <3>2
    <3>4. ReactorTypes'
      BY <1>t, <2>8, <3>3, Zenon DEF EndShortRead, ReadNothing, ReactorTypes
    <3> QED BY <3>1, <3>3, <3>4, TypePartsNext DEF TypeInv
  <2>9. CASE ReadAgain(r)
    <3>1. PortTypes' /\ CountTypes' /\ HandoverTypes' /\ EntryTypes'
      BY <1>t, <2>9, Zenon DEF ReadAgain, PortTypes, CountTypes, HandoverTypes, EntryTypes
    <3>2. ReactorTypes' /\ UNCHANGED <<polled, unsent>> /\ rpc' = [rpc EXCEPT ![r] = "scan"]
      BY <1>t, <2>9 DEF ReadAgain, ReactorTypes
    <3>3. Marked(r)' # {}
      BY <2>2, <3>2, Zenon DEF Marked
    <3>4. ScanInv'
      BY <1>t, <3>2, <3>3, ScanStep, Zenon DEF ReactorTypes
    <3> QED BY <3>1, <3>2, <3>4, TypePartsNext, Zenon DEF TypeInv
  <2>10. CASE Close(r)
    <3>1. PortTypes' /\ CountTypes' /\ HandoverTypes' /\ EntryTypes'
      <4>1. HandoverTypes' /\ EntryTypes'
        BY <1>t, <2>10, Zenon DEF Close, HandoverTypes, EntryTypes
      <4>2. /\ sock' = [sock EXCEPT ![f] = "free"] /\ inbox[f] = 0
            /\ sent' = [sent EXCEPT ![f] = 0] /\ answered' = [answered EXCEPT ![f] = 0]
            /\ UNCHANGED <<up, inbox, outbox>>
        BY <2>10, Zenon DEF Close, f
      <4>3. PortTypes'
        BY <1>t, <4>2, Zenon DEF PortTypes
      <4>4. CountTypes'
        <5>1. \A h \in Fds : MaxHalves[h] \in Nat
          BY ServerAssumption, Zenon
        <5>2. /\ sent' \in [Fds -> Nat] /\ answered' \in [Fds -> Nat]
              /\ \A h \in Fds : sent'[h] = IF h = f THEN 0 ELSE sent[h]
          BY <1>t, <4>2, Zenon DEF CountTypes
        <5>3. \A h \in Fds : inbox[h] <= sent'[h] /\ sent'[h] <= MaxHalves[h]
          BY <1>t, <4>2, <5>1, <5>2, SMTT(20) DEF CountTypes
        <5> QED BY <1>t, <4>2, <5>2, <5>3, Zenon DEF CountTypes
      <4> QED BY <4>1, <4>3, <4>4, Zenon
    <3>2. ReactorTypes' /\ UNCHANGED <<polled, unsent>> /\ rpc' = [rpc EXCEPT ![r] = "remove"]
      BY <1>t, <2>2, <2>10, Zenon DEF Close, ReactorTypes, f
    <3>3. Marked(r)' # {}
      BY <2>2, <3>2, Zenon DEF Marked
    <3>4. ScanInv'
      BY <1>t, <3>2, <3>3, ScanStep, Zenon DEF ReactorTypes
    <3> QED BY <3>1, <3>2, <3>4, TypePartsNext, Zenon DEF TypeInv
  <2>11. CASE Remove(r)
    <3>1. PortTypes' /\ CountTypes' /\ HandoverTypes'
      BY <1>t, <2>11, Zenon DEF Remove, PortTypes, CountTypes, HandoverTypes
    <3>2. SwapRemove(polled[r], Current(r)) \in Seq(Entries)
      BY <1>t, <2>2, RemovedIs, Zenon
    <3>3. EntryTypes' /\ ScanInv'
          /\ rpc' \in [Reactors -> {"poll", "drain", "take", "scan", "serve", "write", "remove"}]
      BY <1>3, <2>2, <2>11, <3>2, Zenon DEF Remove
    <3>4. ReactorTypes'
      BY <1>t, <2>11, <3>3, Zenon DEF Remove, ReactorTypes
    <3> QED BY <3>1, <3>3, <3>4, TypePartsNext DEF TypeInv
  <2>12. CASE RejectLine(r)
    <3>1. PortTypes' /\ CountTypes' /\ HandoverTypes' /\ EntryTypes'
      BY <1>t, <2>12, Zenon DEF RejectLine, PortTypes, CountTypes, HandoverTypes, EntryTypes
    <3>2. /\ UNCHANGED <<polled, parser, due>>
          /\ rpc' = [rpc EXCEPT ![r] = "write"] /\ unsent' = [unsent EXCEPT ![r] = ResponseSize]
      BY <2>12, Zenon DEF RejectLine
    <3>3. ReactorTypes'
      <4>1. ResponseSize \in 0 .. ResponseSize
        BY ServerAssumption
      <4> QED BY <1>t, <3>2, <4>1, Zenon DEF ReactorTypes
    <3>4. Marked(r)' # {}
      BY <2>2, <3>2, Zenon DEF Marked
    <3>5. ScanInv'
      BY <1>t, <3>2, <3>4, ScanStep, ServerAssumption DEF ReactorTypes
    <3> QED BY <3>1, <3>3, <3>5, TypePartsNext, Zenon DEF TypeInv
  <2> QED BY <1>5, <2>4, <2>5, <2>6, <2>7, <2>8, <2>9, <2>10, <2>11, <2>12, ZenonT(40) DEF Service
<1> QED
  BY <1>1, <1>2, <1>4, <1>5 DEF ReactorStep, Scan

\* Every step of the server keeps the types and the shape of a scan.
LEMMA TypeStep == TypeInv /\ [Next]_vars => TypeInv'
BY OutsideTypes, ReactorTypesStep, Zenon DEF Next, AcceptLoop

\* The server starts with them.
LEMMA TypeInit == Init => TypeInv
<1> SUFFICES ASSUME Init PROVE TypeInv
  OBVIOUS
<1>1. PortTypes /\ CountTypes /\ HandoverTypes
  BY ServerAssumption DEF Init, PortTypes, CountTypes, HandoverTypes, Nothing, Reactors
<1>2. ReactorTypes /\ EntryTypes
  BY ServerAssumption DEF Init, ReactorTypes, EntryTypes
<1>3. ScanInv
  BY DEF Init, ScanInv, AtEntry
<1> QED
  BY <1>1, <1>2, <1>3, TypeParts DEF TypeInv

-----------------------------------------------------------------------------
(* The handover of connections.                                            *)

\* Serving a client leaves the handover alone, or ends the process with nothing
\* handed over.
LEMMA ServiceStep ==
  ASSUME TypeInv, NEW r \in Reactors, Service(r)
  PROVE \/ /\ UNCHANGED <<acceptVars, pending, pipe>>
           /\ rpc[r] # "take"
           /\ \E m : rpc' = [rpc EXCEPT ![r] = m]
        \/ pending' = [q \in Reactors |-> <<>>]
<1>. USE DEF acceptVars, kernelVars
<1>1. CASE ReadInput(r) \/ Handle(r) \/ RejectLine(r) \/ ReadAgain(r) \/ Close(r)
  BY <1>1, Zenon DEF ReadInput, Handle, RejectLine, ReadAgain, ParsedAll, Close
<1>2. CASE EndShortRead(r) \/ ReadNothing(r)
  BY <1>2, Zenon DEF EndShortRead, ParsedAll, ReadNothing, ScanFrom
<1>3. ASSUME NEW f \in Fds, WriteChunk(r, f) \/ WriteToLeaver(r, f) \/ WriteFails(r, f)
      PROVE /\ UNCHANGED <<acceptVars, pending, pipe>>
            /\ rpc[r] # "take"
            /\ \E m : rpc' = [rpc EXCEPT ![r] = m]
  BY <1>3, Zenon DEF WriteChunk, WriteToLeaver, WriteFails, LeaveUnsent, Writing
<1>4. ASSUME NEW f \in Fds, WriteRaisesSignal(r, f)
      PROVE pending' = [q \in Reactors |-> <<>>]
  BY <1>4, Zenon DEF WriteRaisesSignal
<1> QED BY <1>1, <1>2, <1>3, <1>4, Zenon DEF Service

\* The order "queue, then write" of enqueue_client() against "drain, then
\* take" of run() keeps every queued connection announced.
LEMMA NoLostWakeupStep == TypeInv /\ NoLostWakeup /\ [Next]_vars => NoLostWakeup'
<1> DEFINE Announced(r) == pipe[r] > 0 \/ (apc = "wake" /\ next = r) \/ rpc[r] = "take"
<1> SUFFICES ASSUME TypeInv, NoLostWakeup, [Next]_vars, NEW r \in Reactors, pending'[r] # <<>>
             PROVE Announced(r)'
  BY Zenon DEF NoLostWakeup
<1>. USE DEF acceptVars, kernelVars, reactorVars
<1>t. /\ next \in Reactors /\ pending \in [Reactors -> Seq(Fds)] /\ pipe \in [Reactors -> 0 .. PipeSize]
      /\ rpc \in [Reactors -> {"poll", "drain", "take", "scan", "serve", "write", "remove"}]
  BY TypeParts DEF TypeInv, HandoverTypes, ReactorTypes
<1>0. pending[r] # <<>> => Announced(r)
  BY DEF NoLostWakeup
<1>1. ASSUME NEW f \in Fds, Client(f) PROVE Announced(r)'
  BY <1>0, <1>1, Zenon DEF Client, Send, Receive, Hangup
<1>2. ASSUME NEW f \in Fds, Accept(f) PROVE Announced(r)'
  BY <1>t, <1>0, <1>2 DEF Accept
<1>3. CASE Wake
  <2>1. next = r => pipe'[r] > 0
    BY <1>t, <1>3, ServerAssumption DEF Wake
  <2>2. next # r => pipe'[r] = pipe[r] /\ pending[r] # <<>> /\ rpc'[r] = rpc[r]
    BY <1>t, <1>3, Zenon DEF Wake
  <2> QED BY <1>0, <2>1, <2>2, Zenon
<1>4. ASSUME NEW q \in Reactors, ReactorStep(q) PROVE Announced(r)'
  <2>1. CASE Poll(q) \/ Remove(q)
    <3>1. /\ UNCHANGED <<pipe, apc, next, pending>> /\ rpc[q] # "take"
          /\ \E m : rpc' = [rpc EXCEPT ![q] = m]
      BY <2>1, Zenon DEF Poll, Remove, ScanFrom
    <3> QED BY <1>t, <1>0, <3>1, Zenon
  <2>2. CASE Drain(q)
    BY <1>t, <1>0, <2>2, Zenon DEF Drain
  <2>3. CASE Take(q)
    <3>1. /\ pending' = [pending EXCEPT ![q] = <<>>] /\ UNCHANGED <<pipe, next, apc>>
          /\ \E m : rpc' = [rpc EXCEPT ![q] = m]
      BY <2>3, Zenon DEF Take, ScanFrom
    <3> QED BY <1>t, <1>0, <3>1
  <2>4. CASE Service(q)
    BY <1>t, <1>0, <2>4, ServiceStep, Zenon
  <2> QED BY <1>4, <2>1, <2>2, <2>3, <2>4, Zenon DEF ReactorStep, Scan
<1>5. CASE StartAgain \/ UNCHANGED vars
  BY <1>0, <1>5, Zenon DEF StartAgain, vars
<1> QED BY <1>1, <1>2, <1>3, <1>4, <1>5, Zenon DEF Next, AcceptLoop

-----------------------------------------------------------------------------
(* Ownership.                                                              *)

\* A descriptor that is free is held nowhere, one that is not is held in one
\* place.
FreeUnheld ==
  \A f \in Fds : sock[f] = "free" =>
    \A r \in Reactors, i \in Nat : ~Queued(r, i, f) /\ ~Polled(r, i, f)
OpenHeld ==
  \A f \in Fds : sock[f] # "free" =>
    \E r \in Reactors, i \in Nat : Queued(r, i, f) \/ Polled(r, i, f)
HeldOnce ==
  \A f \in Fds, q, r \in Reactors, i, j \in Nat :
    /\ Queued(q, i, f) /\ Queued(r, j, f) => q = r /\ i = j
    /\ Polled(q, i, f) /\ Polled(r, j, f) => q = r /\ i = j
    /\ ~(Queued(q, i, f) /\ Polled(r, j, f))

OwnInv == FreeUnheld /\ OpenHeld /\ HeldOnce

\* An entry of a reactor that does not remove one is held.
LEMMA PolledIs ==
  ASSUME NEW r \in Reactors, rpc[r] # "remove"
  PROVE  \A i, f : Polled(r, i, f) <=> i \in DOMAIN polled[r] /\ polled[r][i].fd = f
BY Zenon DEF Polled

\* The same of the next state.
LEMMA PolledIsNext ==
  ASSUME NEW r \in Reactors, rpc'[r] # "remove"
  PROVE  \A i, f : Polled(r, i, f)' <=> i \in DOMAIN polled'[r] /\ polled'[r][i].fd = f
BY Zenon DEF Polled

\* A reactor whose entries and place in the loop do not change holds the same.
LEMMA PolledStays ==
  ASSUME NEW r \in Reactors, polled'[r] = polled[r], rpc'[r] = rpc[r]
  PROVE  \A i, f : Polled(r, i, f)' <=> Polled(r, i, f)
<1>1. Marked(r)' = Marked(r)
  BY Zenon DEF Marked
<1>2. Current(r)' = Current(r)
  BY <1>1, Zenon DEF Current
<1> QED
  BY <1>2, Zenon DEF Polled

\* A step that leaves pending_clients_ alone leaves what is queued alone.
LEMMA QueuedStays ==
  ASSUME NEW r \in Reactors, pending'[r] = pending[r]
  PROVE  \A i, f : Queued(r, i, f)' <=> Queued(r, i, f)
BY Zenon DEF Queued

\* A step that moves no descriptor keeps the ownership.
Quiet ==
  /\ pending' = pending
  /\ \A f \in Fds : sock'[f] = "free" <=> sock[f] = "free"
  /\ \A r \in Reactors :
       \/ polled'[r] = polled[r] /\ rpc'[r] = rpc[r]
       \/ /\ rpc[r] # "remove" /\ rpc'[r] # "remove"
          /\ DOMAIN polled'[r] = DOMAIN polled[r]
          /\ \A i \in DOMAIN polled[r] : polled'[r][i].fd = polled[r][i].fd

\* A quiet step changes nobody's hold on a descriptor.
LEMMA QuietIs ==
  ASSUME Quiet
  PROVE  \A r \in Reactors : \A i, f :
           /\ Queued(r, i, f)' <=> Queued(r, i, f)
           /\ Polled(r, i, f)' <=> Polled(r, i, f)
<1> SUFFICES ASSUME NEW r \in Reactors
             PROVE  /\ \A i, f : Queued(r, i, f)' <=> Queued(r, i, f)
                    /\ \A i, f : Polled(r, i, f)' <=> Polled(r, i, f)
  BY Zenon
<1>1. \A i, f : Queued(r, i, f)' <=> Queued(r, i, f)
  BY QueuedStays, Zenon DEF Quiet
<1>2. CASE polled'[r] = polled[r] /\ rpc'[r] = rpc[r]
  BY <1>1, <1>2, PolledStays, Zenon
<1>3. CASE /\ rpc[r] # "remove" /\ rpc'[r] # "remove"
           /\ DOMAIN polled'[r] = DOMAIN polled[r]
           /\ \A i \in DOMAIN polled[r] : polled'[r][i].fd = polled[r][i].fd
  <2>1. \A i, f : Polled(r, i, f)' <=> Polled(r, i, f)
    <3>1. \A i, f : Polled(r, i, f) <=> i \in DOMAIN polled[r] /\ polled[r][i].fd = f
      BY <1>3, PolledIs, Zenon
    <3>2. \A i, f : Polled(r, i, f)' <=> i \in DOMAIN polled'[r] /\ polled'[r][i].fd = f
      BY <1>3, PolledIsNext, Zenon
    <3> QED BY <1>3, <3>1, <3>2
  <2> QED BY <1>1, <2>1, Zenon
<1> QED
  BY <1>2, <1>3, Zenon DEF Quiet

\* So it preserves the ownership invariant.
LEMMA QuietOwn ==
  ASSUME OwnInv, Quiet
  PROVE  OwnInv'
<1>1. \A r \in Reactors : \A i, f :
        /\ Queued(r, i, f)' <=> Queued(r, i, f)
        /\ Polled(r, i, f)' <=> Polled(r, i, f)
  BY QuietIs, Zenon
<1>2. \A f \in Fds : sock'[f] = "free" <=> sock[f] = "free"
  BY DEF Quiet
<1>3. FreeUnheld'
  BY <1>1, <1>2, Zenon DEF OwnInv, FreeUnheld
<1>4. OpenHeld'
  BY <1>1, <1>2, Zenon DEF OwnInv, OpenHeld
<1>5. HeldOnce'
  BY <1>1 DEF OwnInv, HeldOnce
<1> QED
  BY <1>3, <1>4, <1>5, Zenon DEF OwnInv

\* enqueue_client() puts the new descriptor at the end of a queue.
LEMMA AcceptMoves ==
  ASSUME TypeInv, NEW f \in Fds, Accept(f)
  PROVE  /\ sock' = [sock EXCEPT ![f] = "open"] /\ next \in Reactors /\ Len(pending[next]) \in Nat
         /\ \A r \in Reactors, i \in Nat, g \in Fds :
              /\ Queued(r, i, g)' <=>
                   Queued(r, i, g) \/ (r = next /\ i = Len(pending[next]) + 1 /\ g = f)
              /\ Polled(r, i, g)' <=> Polled(r, i, g)
<1>t. HandoverTypes /\ pending \in [Reactors -> Seq(Fds)] /\ next \in Reactors
  BY TypeParts, Zenon DEF TypeInv, HandoverTypes
<1>1. /\ pending' = [pending EXCEPT ![next] = Append(@, f)] /\ UNCHANGED <<rpc, polled>>
      /\ sock' = [sock EXCEPT ![f] = "open"]
  BY DEF Accept
<1>2. \A r \in Reactors, i \in Nat, g \in Fds : Polled(r, i, g)' <=> Polled(r, i, g)
  BY <1>1, PolledStays
<1>3. \A r \in Reactors : r # next => pending'[r] = pending[r]
  BY <1>t, <1>1
<1>4. pending[next] \in Seq(Fds) /\ pending'[next] = Append(pending[next], f)
  BY <1>t, <1>1
<1>5. \A r \in Reactors, i \in Nat, g \in Fds :
        Queued(r, i, g)' <=>
          Queued(r, i, g) \/ (r = next /\ i = Len(pending[next]) + 1 /\ g = f)
  <2>1. TAKE r \in Reactors, i \in Nat, g \in Fds
  <2>2. CASE r # next
    BY <1>3, <2>2 DEF Queued
  <2>3. CASE r = next
    BY <1>4, <2>3 DEF Queued
  <2> QED BY <2>2, <2>3
<1> QED
  BY <1>t, <1>1, <1>2, <1>4, <1>5

\* A new connection gets one holder: ownership is preserved.
LEMMA AcceptOwn ==
  ASSUME TypeInv, OwnInv, NEW f \in Fds, Accept(f)
  PROVE  OwnInv'
<1>0. sock[f] = "free" /\ sock \in [Fds -> {"free", "open", "eof", "reset"}]
  BY TypeParts, Zenon DEF Accept, TypeInv, PortTypes
<1>1. /\ next \in Reactors /\ Len(pending[next]) + 1 \in Nat
      /\ \A g \in Fds : sock'[g] = IF g = f THEN "open" ELSE sock[g]
      /\ \A r \in Reactors, i \in Nat, g \in Fds :
           /\ Queued(r, i, g)' <=>
                Queued(r, i, g) \/ (r = next /\ i = Len(pending[next]) + 1 /\ g = f)
           /\ Polled(r, i, g)' <=> Polled(r, i, g)
  BY <1>0, AcceptMoves
<1>2. FreeUnheld'
  BY <1>1, ZenonT(30) DEF OwnInv, FreeUnheld
<1>3. OpenHeld'
  BY <1>1, Zenon DEF OwnInv, OpenHeld
<1>4. \A r \in Reactors, i \in Nat : ~Queued(r, i, f) /\ ~Polled(r, i, f)
  BY <1>0 DEF OwnInv, FreeUnheld
<1>5. HeldOnce'
  BY <1>1, <1>4 DEF OwnInv, HeldOnce
<1> QED
  BY <1>2, <1>3, <1>5 DEF OwnInv

\* accept_pending_clients() moves a queue to the end of the poll set.
\* The reactor goes on with the loop, or back to poll() with nothing marked.
AfterScan(r) ==
  /\ rpc'[r] # "remove"
  /\ rpc'[r] = "poll" => \A i \in Nat, g \in Fds : Polled(r, i, g)' => ~polled'[r][i].ready

TakenAt(r, n) ==
  /\ \A i \in Nat, g \in Fds : Polled(r, i, g) => i <= n
  /\ \A i \in Nat, g \in Fds : Queued(r, i, g) => i > 0
  /\ \A i \in Nat, g \in Fds :
       /\ ~Queued(r, i, g)'
       /\ Polled(r, i, g)' <=> IF i <= n THEN Polled(r, i, g) ELSE Queued(r, i - n, g)
  /\ \A q \in Reactors \ {r}, i \in Nat, g \in Fds :
       /\ Queued(q, i, g)' <=> Queued(q, i, g)
       /\ Polled(q, i, g)' <=> Polled(q, i, g)

TakenMarks(r, n) ==
  /\ AfterScan(r)
  /\ \A i \in Nat, g \in Fds :
       Polled(r, i, g)' => (polled'[r][i].ready <=> i <= n /\ polled[r][i].ready)

\* accept_pending_clients moves the queue, in order, to the end of the reactor's entries.
LEMMA TakeMoves ==
  ASSUME TypeInv, NEW r \in Reactors, Take(r)
  PROVE  \E n \in Nat : TakenAt(r, n) /\ TakenMarks(r, n)
<1> DEFINE n == Len(polled[r])
           m == Len(pending[r])
           s == polled[r] \o NewEntries(r)
<1>t. TypeOK /\ pending \in [Reactors -> Seq(Fds)] /\ polled[r] \in Seq(Entries)
  BY TypeParts, Zenon DEF TypeInv, HandoverTypes, EntryTypes
<1>1. /\ s \in Seq(Entries) /\ Len(s) = n + m
      /\ \A j \in 1 .. n : s[j] = polled[r][j]
      /\ \A j \in 1 .. m : s[n + j] = [fd |-> pending[r][j], ready |-> FALSE]
  BY <1>t, TakenIs, Zenon
<1>2. ScanFrom(r, s, 1) /\ pending' = [pending EXCEPT ![r] = <<>>] /\ rpc[r] = "take"
  BY DEF Take
<1>3. pending'[r] = <<>> /\ pending[r] \in Seq(Fds) /\ \A q \in Reactors \ {r} : pending'[q] = pending[q]
  BY <1>t, <1>2
<1>4. n \in Nat /\ m \in Nat /\ DOMAIN polled[r] = 1 .. n /\ DOMAIN pending[r] = 1 .. m
  BY <1>t, <1>3
<1> HIDE DEF s
<1>5. /\ \A q \in Reactors \ {r} : polled'[q] = polled[q] /\ rpc'[q] = rpc[q]
      /\ DOMAIN polled'[r] = DOMAIN s
      /\ \A j \in DOMAIN s : /\ polled'[r][j].fd = s[j].fd
                             /\ polled'[r][j].ready <=> (j >= 1 /\ s[j].ready)
      /\ rpc'[r] # "remove"
      /\ rpc'[r] = "poll" => Marked(r)' = {}
  <2> DEFINE k == 1
  <2>1. TypeOK /\ k \in Nat \ {0} /\ s \in Seq(Entries) /\ ScanFrom(r, s, k)
    BY <1>t, <1>1, <1>2
  <2> HIDE DEF k
  <2>3. /\ \A q \in Reactors \ {r} : polled'[q] = polled[q] /\ rpc'[q] = rpc[q]
        /\ DOMAIN polled'[r] = DOMAIN s
        /\ \A j \in DOMAIN s : /\ polled'[r][j].fd = s[j].fd
                               /\ polled'[r][j].ready <=> (j >= k /\ s[j].ready)
        /\ rpc'[r] \in {"poll", "scan"} /\ (rpc'[r] = "scan" <=> Marked(r)' # {})
    BY <2>1, ScanFromIs, Zenon
  <2> QED BY <2>3, Zenon DEF k
<1>6. DOMAIN s = 1 .. n + m
  BY <1>1
<1> HIDE DEF n, m
<1>7. \A i \in Nat, g \in Fds : Polled(r, i, g) <=> i \in 1 .. n /\ polled[r][i].fd = g
  BY <1>2, <1>4, PolledIs, Zenon
<1>8. \A i \in Nat, g \in Fds : Polled(r, i, g)' <=> i \in 1 .. n + m /\ s[i].fd = g
  <2>1. \A i, g : Polled(r, i, g)' <=> i \in DOMAIN polled'[r] /\ polled'[r][i].fd = g
    BY <1>5, PolledIsNext, Zenon
  <2> QED BY <1>5, <1>6, <2>1, Zenon
<1>9. \A i \in Nat, g \in Fds : Queued(r, i, g) <=> i \in 1 .. m /\ pending[r][i] = g
  BY <1>4, Zenon DEF Queued
<1>10. \A i \in Nat, g \in Fds :
         Polled(r, i, g)' <=> IF i <= n THEN Polled(r, i, g) ELSE Queued(r, i - n, g)
  <2>1. TAKE i \in Nat, g \in Fds
  <2>2. CASE i <= n
    BY <1>1, <1>4, <1>7, <1>8, <2>2
  <2>3. CASE i > n
    <3>1. i - n \in Nat /\ i = n + (i - n) /\ (i \in 1 .. n + m <=> i - n \in 1 .. m)
      BY <1>4, <2>3
    <3>2. i - n \in 1 .. m => s[i].fd = pending[r][i - n]
      <4> SUFFICES ASSUME i - n \in 1 .. m PROVE s[i].fd = pending[r][i - n]
        OBVIOUS
      <4>1. s[n + (i - n)] = [fd |-> pending[r][i - n], ready |-> FALSE]
        BY <1>1, Zenon
      <4>2. s[i] = [fd |-> pending[r][i - n], ready |-> FALSE]
        BY <3>1, <4>1, Zenon
      <4> QED BY <4>2
    <3>3. ~(i <= n)
      BY <1>4, <2>3
    <3>4. Polled(r, i, g)' <=> i - n \in 1 .. m /\ pending[r][i - n] = g
      BY <1>8, <3>1, <3>2, Zenon
    <3>5. Polled(r, i, g)' <=> Queued(r, i - n, g)
      BY <1>9, <3>1, <3>4, Zenon
    <3> QED BY <3>3, <3>5, Zenon
  <2> QED BY <1>4, <2>2, <2>3
<1>11. \A i \in Nat, g \in Fds : ~Queued(r, i, g)'
  BY <1>3 DEF Queued
<1>12. \A q \in Reactors \ {r}, i \in Nat, g \in Fds :
         /\ Queued(q, i, g)' <=> Queued(q, i, g)
         /\ Polled(q, i, g)' <=> Polled(q, i, g)
  BY <1>3, <1>5, QueuedStays, PolledStays, Zenon
<1>13. /\ \A i \in Nat, g \in Fds : Polled(r, i, g) => i <= n
       /\ \A i \in Nat, g \in Fds : Queued(r, i, g) => i > 0
  BY <1>4, <1>7, <1>9
<1>14. \A i \in Nat, g \in Fds :
         Polled(r, i, g)' => (polled'[r][i].ready <=> i <= n /\ polled[r][i].ready)
  <2> SUFFICES ASSUME NEW i \in Nat, NEW g \in Fds, i \in 1 .. n + m
               PROVE  polled'[r][i].ready <=> i <= n /\ polled[r][i].ready
    BY <1>8, Zenon
  <2>1. polled'[r][i].ready <=> s[i].ready
    BY <1>5, <1>6
  <2>2. CASE i <= n
    BY <1>1, <1>4, <2>1, <2>2
  <2>3. CASE ~(i <= n)
    <3>1. i - n \in 1 .. m /\ i = n + (i - n)
      BY <1>4, <2>3
    <3>2. s[n + (i - n)] = [fd |-> pending[r][i - n], ready |-> FALSE]
      BY <1>1, <3>1, Zenon
    <3>3. s[i] = [fd |-> pending[r][i - n], ready |-> FALSE]
      BY <3>1, <3>2, Zenon
    <3> QED BY <2>1, <2>3, <3>3
  <2> QED BY <2>2, <2>3, Zenon
<1>15. AfterScan(r)
  <2>1. \A i \in Nat, g \in Fds : Polled(r, i, g)' /\ polled'[r][i].ready => i \in Marked(r)'
    BY <1>5, PolledIsNext, Zenon DEF Marked
  <2> QED BY <1>5, <2>1, Zenon DEF AfterScan
<1> QED
  BY <1>4, <1>10, <1>11, <1>12, <1>13, <1>14, <1>15, Zenon DEF TakenAt, TakenMarks

\* Each descriptor it moves keeps its one holder: ownership is preserved.
LEMMA TakeOwn ==
  ASSUME TypeInv, OwnInv, NEW r \in Reactors, Take(r)
  PROVE  OwnInv'
<1>1. PICK n \in Nat : TakenAt(r, n)
  BY TakeMoves
<1>. USE DEF TakenAt
<1>2. sock' = sock
  BY DEF Take, kernelVars
<1>3. \A i \in Nat : i > n => i - n \in Nat
  OBVIOUS
<1>4. FreeUnheld'
  BY <1>1, <1>2, <1>3 DEF OwnInv, FreeUnheld
<1>5. OpenHeld'
  <2> SUFFICES ASSUME NEW f \in Fds, sock[f] # "free"
               PROVE  \E q \in Reactors, i \in Nat : Queued(q, i, f)' \/ Polled(q, i, f)'
    BY <1>2, Zenon DEF OpenHeld
  <2>1. PICK q \in Reactors, i \in Nat : Queued(q, i, f) \/ Polled(q, i, f)
    BY DEF OwnInv, OpenHeld
  <2>2. CASE q # r
    BY <1>1, <2>1, <2>2
  <2>3. CASE q = r /\ Polled(q, i, f)
    BY <1>1, <2>3, Zenon
  <2>4. CASE q = r /\ Queued(q, i, f)
    <3>1. i + n \in Nat /\ ~(i + n <= n) /\ (i + n) - n = i
      BY <1>1, <2>4
    <3>2. Polled(r, i + n, f)' <=> Queued(r, (i + n) - n, f)
      BY <1>1, <3>1, Zenon
    <3>3. Polled(r, i + n, f)'
      BY <2>4, <3>1, <3>2, Zenon
    <3> QED BY <3>1, <3>3
  <2> QED BY <2>1, <2>2, <2>3, <2>4, Zenon
<1>6. HeldOnce'
  <2> SUFFICES ASSUME NEW f \in Fds, NEW p \in Reactors, NEW q \in Reactors, NEW i \in Nat, NEW j \in Nat
               PROVE  /\ Queued(p, i, f)' /\ Queued(q, j, f)' => p = q /\ i = j
                      /\ Polled(p, i, f)' /\ Polled(q, j, f)' => p = q /\ i = j
                      /\ ~(Queued(p, i, f)' /\ Polled(q, j, f)')
    BY Zenon DEF HeldOnce
  <2>0. HeldOnce
    BY DEF OwnInv
  <2>1. Queued(p, i, f)' /\ Queued(q, j, f)' => p = q /\ i = j
    BY <1>1, <2>0 DEF HeldOnce
  <2>2. ~(Queued(p, i, f)' /\ Polled(q, j, f)')
    <3>1. Queued(p, i, f)' => p # r /\ Queued(p, i, f)
      BY <1>1, Zenon
    <3>2. Polled(q, j, f)' => Polled(q, j, f) \/ (q = r /\ j - n \in Nat /\ Queued(r, j - n, f))
      BY <1>1, <1>3
    <3> QED BY <2>0, <3>1, <3>2, Zenon DEF HeldOnce
  <2>3. Polled(p, i, f)' /\ Polled(q, j, f)' => p = q /\ i = j
    <3>1. Polled(p, i, f)' =>
            \/ Polled(p, i, f) /\ (p = r => i <= n)
            \/ p = r /\ i > n /\ i - n \in Nat /\ Queued(r, i - n, f)
      BY <1>1, <1>3
    <3>2. Polled(q, j, f)' =>
            \/ Polled(q, j, f) /\ (q = r => j <= n)
            \/ q = r /\ j > n /\ j - n \in Nat /\ Queued(r, j - n, f)
      BY <1>1, <1>3
    <3>3. i - n = j - n => i = j
      OBVIOUS
    <3> QED BY <2>0, <3>1, <3>2, <3>3, Zenon DEF HeldOnce
  <2> QED BY <2>1, <2>2, <2>3, Zenon
<1> QED
  BY <1>4, <1>5, <1>6 DEF OwnInv

\* close_client() erases the parser and closes the descriptor: its entry holds
\* nothing any more.
LEMMA CloseMoves ==
  ASSUME TypeInv, NEW r \in Reactors, Close(r)
  PROVE  LET c == Current(r) IN
         /\ c \in Nat /\ Entry(r).fd \in Fds
         /\ \A g \in Fds : Polled(r, c, g) <=> g = Entry(r).fd
         /\ sock' = [sock EXCEPT ![Entry(r).fd] = "free"]
         /\ \A q \in Reactors, i \in Nat, g \in Fds :
              /\ Queued(q, i, g)' <=> Queued(q, i, g)
              /\ Polled(q, i, g)' <=> Polled(q, i, g) /\ ~(q = r /\ i = c)
<1>t. TypeOK /\ ScanInv /\ rpc \in [Reactors -> {"poll", "drain", "take", "scan", "serve", "write", "remove"}]
  BY TypeParts, Zenon DEF TypeInv, ReactorTypes
<1>1. /\ rpc[r] = "scan" /\ rpc' = [rpc EXCEPT ![r] = "remove"] /\ UNCHANGED <<polled, pending>>
      /\ sock' = [sock EXCEPT ![Entry(r).fd] = "free"]
  BY Zenon DEF Close
<1>2. Marked(r) # {}
  BY <1>t, <1>1 DEF ScanInv, AtEntry
<1>3. /\ Current(r) \in Nat /\ Current(r) \in DOMAIN polled[r] /\ Entry(r).fd \in Fds
      /\ Entry(r) = polled[r][Current(r)]
  BY <1>t, <1>2, CurrentIs, Zenon
<1>4. \A i, g : Polled(r, i, g) <=> i \in DOMAIN polled[r] /\ polled[r][i].fd = g
  BY <1>1, PolledIs, Zenon
<1>5. Marked(r)' = Marked(r)
  BY <1>1 DEF Marked
<1>6. Current(r)' = Current(r)
  BY <1>5, Zenon DEF Current
<1>7. rpc'[r] = "remove" /\ \A q \in Reactors \ {r} : rpc'[q] = rpc[q]
  BY <1>t, <1>1, Zenon
<1>8. \A i, g : Polled(r, i, g)' <=> Polled(r, i, g) /\ i # Current(r)
  BY <1>1, <1>4, <1>6, <1>7, Zenon DEF Polled
<1>9. \A q \in Reactors \ {r} : \A i, g : Polled(q, i, g)' <=> Polled(q, i, g)
  BY <1>1, <1>7, PolledStays, Zenon
<1>10. \A q \in Reactors : \A i, g : Queued(q, i, g)' <=> Queued(q, i, g)
  BY <1>1, QueuedStays, Zenon
<1>11. \A g \in Fds : Polled(r, Current(r), g) <=> g = Entry(r).fd
  BY <1>3, <1>4, Zenon
<1>12. \A q \in Reactors, i \in Nat, g \in Fds :
         Polled(q, i, g)' <=> Polled(q, i, g) /\ ~(q = r /\ i = Current(r))
  <2>1. TAKE q \in Reactors, i \in Nat, g \in Fds
  <2>2. CASE q = r
    BY <1>8, <2>2, Zenon
  <2>3. CASE q # r
    BY <1>9, <2>3, Zenon
  <2> QED BY <2>2, <2>3, Zenon
<1> QED
  BY <1>1, <1>3, <1>10, <1>11, <1>12, Zenon

\* close_client() gives up the one hold on the descriptor it closes.
LEMMA CloseOwn ==
  ASSUME TypeInv, OwnInv, NEW r \in Reactors, Close(r)
  PROVE  OwnInv'
<1>1. PICK c \in Nat, f \in Fds :
         /\ \A g \in Fds : Polled(r, c, g) <=> g = f
         /\ sock' = [sock EXCEPT ![f] = "free"]
         /\ \A q \in Reactors, i \in Nat, g \in Fds :
              /\ Queued(q, i, g)' <=> Queued(q, i, g)
              /\ Polled(q, i, g)' <=> Polled(q, i, g) /\ ~(q = r /\ i = c)
  BY CloseMoves, ZenonT(30)
<1>2. \A g \in Fds : sock'[g] = IF g = f THEN "free" ELSE sock[g]
  BY <1>1, TypeParts, Zenon DEF TypeInv, PortTypes
<1>3. FreeUnheld'
  BY <1>1, <1>2, ZenonT(30) DEF OwnInv, FreeUnheld, HeldOnce
<1>4. OpenHeld'
  BY <1>1, <1>2 DEF OwnInv, OpenHeld, HeldOnce
<1>5. HeldOnce'
  BY <1>1 DEF OwnInv, HeldOnce
<1> QED
  BY <1>3, <1>4, <1>5 DEF OwnInv

\* The last entry, unless it is the one, fills the gap.
RemovedAt(r, c, n) ==
  /\ c <= n
  /\ \A i \in Nat, g \in Fds : Polled(r, i, g) => i <= n /\ i # c
  /\ \A i \in Nat, g \in Fds :
       Polled(r, i, g)' <=> i < n /\ Polled(r, IF i = c THEN n ELSE i, g)
  /\ \A q \in Reactors \ {r}, i \in Nat, g \in Fds : Polled(q, i, g)' <=> Polled(q, i, g)
  /\ \A q \in Reactors, i \in Nat, g \in Fds : Queued(q, i, g)' <=> Queued(q, i, g)

RemovedMarks(r, c, n) ==
  /\ AfterScan(r)
  /\ \A i \in Nat, g \in Fds : Polled(r, i, g) /\ polled[r][i].ready => i >= c
  /\ \A i \in Nat, g \in Fds :
       Polled(r, i, g)' =>
         (polled'[r][i].ready <=> i >= c /\ polled[r][IF i = c THEN n ELSE i].ready)

\* What the swap with the last entry does to each position.
LEMMA RemoveMoves ==
  ASSUME TypeInv, NEW r \in Reactors, Remove(r)
  PROVE  \E c \in Nat, n \in Nat : RemovedAt(r, c, n) /\ RemovedMarks(r, c, n)
<1> DEFINE c == Current(r)
           n == Len(polled[r])
           s == SwapRemove(polled[r], c)
<1>t. TypeOK /\ ScanInv /\ polled[r] \in Seq(Entries)
  BY TypeParts, Zenon DEF TypeInv, EntryTypes
<1>1. rpc[r] = "remove" /\ ScanFrom(r, s, c) /\ pending' = pending
  BY Zenon DEF Remove
<1>2. Marked(r) # {}
  BY <1>t, <1>1, Zenon DEF ScanInv, AtEntry
<1>3. c \in Nat \ {0} /\ c \in DOMAIN polled[r] /\ c <= n
  BY <1>t, <1>2, CurrentIs, Zenon
<1>4. n \in Nat /\ DOMAIN polled[r] = 1 .. n
  BY <1>t
<1>5. /\ s \in Seq(Entries) /\ Len(s) = n - 1
      /\ \A j \in DOMAIN s : s[j] = IF j = c THEN polled[r][n] ELSE polled[r][j]
  BY <1>t, <1>3, RemovedIs, Zenon
<1> HIDE DEF s
<1>6. /\ \A q \in Reactors \ {r} : polled'[q] = polled[q] /\ rpc'[q] = rpc[q]
      /\ DOMAIN polled'[r] = DOMAIN s
      /\ \A j \in DOMAIN s : /\ polled'[r][j].fd = s[j].fd
                             /\ polled'[r][j].ready <=> (j >= c /\ s[j].ready)
      /\ rpc'[r] \in {"poll", "scan"} /\ (rpc'[r] = "scan" <=> Marked(r)' # {})
  <2>1. TypeOK /\ s \in Seq(Entries) /\ c \in Nat \ {0} /\ ScanFrom(r, s, c)
    BY <1>t, <1>1, <1>3, <1>5, Zenon
  <2> HIDE DEF c
  <2> QED BY <2>1, ScanFromIs, Zenon
<1>7. DOMAIN s = 1 .. n - 1
  BY <1>4, <1>5
<1>8. \A i \in Nat, g \in Fds : Polled(r, i, g) <=> i \in 1 .. n /\ polled[r][i].fd = g /\ i # c
  BY <1>1, <1>4, Zenon DEF Polled
<1>14. \A i \in Nat, g \in Fds : Polled(r, i, g) /\ polled[r][i].ready => i >= c
  <2>1. \A j \in Marked(r) : c <= j
    BY <1>t, <1>2, CurrentIs, Zenon
  <2>2. \A i \in Nat : i \in 1 .. n /\ polled[r][i].ready => i \in Marked(r)
    BY <1>4, Zenon DEF Marked
  <2> HIDE DEF c, n
  <2> QED BY <1>3, <1>8, <2>1, <2>2, Zenon
<1> HIDE DEF c, n
<1>9. \A i \in Nat, g \in Fds : Polled(r, i, g)' <=> i \in 1 .. n - 1 /\ s[i].fd = g
  <2>1. \A i, g : Polled(r, i, g)' <=> i \in DOMAIN polled'[r] /\ polled'[r][i].fd = g
    BY <1>6, PolledIsNext, Zenon
  <2> QED BY <1>6, <1>7, <2>1, Zenon
<1>10. \A i \in Nat, g \in Fds :
         Polled(r, i, g)' <=> i < n /\ Polled(r, IF i = c THEN n ELSE i, g)
  <2>1. TAKE i \in Nat, g \in Fds
  <2>2. CASE i = c
    <3>1. c \in 1 .. n - 1 <=> c < n
      BY <1>3, <1>4
    <3>2. c < n => s[c] = polled[r][n]
      BY <1>5, <1>7, <3>1, Zenon
    <3>3. c < n => n \in 1 .. n /\ n # c
      BY <1>3, <1>4
    <3> QED BY <1>4, <1>8, <1>9, <2>2, <3>1, <3>2, <3>3, Zenon
  <2>3. CASE i # c
    <3>1. i \in 1 .. n - 1 <=> i < n /\ i \in 1 .. n
      BY <1>4
    <3>2. i \in 1 .. n - 1 => s[i] = polled[r][i]
      BY <1>5, <1>7, <2>3, Zenon
    <3> QED BY <1>8, <1>9, <2>3, <3>1, <3>2, Zenon
  <2> QED BY <2>2, <2>3, Zenon
<1>11. \A i \in Nat, g \in Fds : Polled(r, i, g) => i <= n /\ i # c
  BY <1>4, <1>8
<1>12. \A q \in Reactors \ {r}, i \in Nat, g \in Fds : Polled(q, i, g)' <=> Polled(q, i, g)
  BY <1>6, PolledStays, Zenon
<1>13. \A q \in Reactors, i \in Nat, g \in Fds : Queued(q, i, g)' <=> Queued(q, i, g)
  BY <1>1, QueuedStays, Zenon
<1>15. \A i \in Nat, g \in Fds :
         Polled(r, i, g)' =>
           (polled'[r][i].ready <=> i >= c /\ polled[r][IF i = c THEN n ELSE i].ready)
  <2> SUFFICES ASSUME NEW i \in Nat, NEW g \in Fds, i \in DOMAIN s
               PROVE  polled'[r][i].ready <=> i >= c /\ polled[r][IF i = c THEN n ELSE i].ready
    BY <1>7, <1>9, Zenon
  <2>1. polled'[r][i].ready <=> i >= c /\ s[i].ready
    BY <1>6, Zenon
  <2>2. s[i] = polled[r][IF i = c THEN n ELSE i]
    BY <1>5, Zenon
  <2> QED BY <2>1, <2>2, Zenon
<1>16. AfterScan(r)
  <2>1. \A i \in Nat, g \in Fds : Polled(r, i, g)' /\ polled'[r][i].ready => i \in Marked(r)'
    BY <1>6, PolledIsNext, Zenon DEF Marked
  <2> QED BY <1>6, <2>1, Zenon DEF AfterScan
<1> QED
  BY <1>3, <1>4, <1>10, <1>11, <1>12, <1>13, <1>14, <1>15, <1>16, Zenon DEF RemovedAt, RemovedMarks

\* The swap loses no descriptor and doubles none: ownership is preserved.
LEMMA RemoveOwn ==
  ASSUME TypeInv, OwnInv, NEW r \in Reactors, Remove(r)
  PROVE  OwnInv'
<1>1. PICK c \in Nat, n \in Nat : RemovedAt(r, c, n)
  BY RemoveMoves, Zenon
<1>. USE DEF RemovedAt
<1>2. sock' = sock
  BY Zenon DEF Remove, kernelVars
<1>3. FreeUnheld'
  BY <1>1, <1>2 DEF OwnInv, FreeUnheld
<1>4. OpenHeld'
  <2> SUFFICES ASSUME NEW f \in Fds, sock[f] # "free"
               PROVE  \E q \in Reactors, i \in Nat : Queued(q, i, f)' \/ Polled(q, i, f)'
    BY <1>2, Zenon DEF OpenHeld
  <2>1. PICK q \in Reactors, i \in Nat : Queued(q, i, f) \/ Polled(q, i, f)
    BY DEF OwnInv, OpenHeld
  <2>2. CASE q # r \/ Queued(q, i, f)
    BY <1>1, <2>1, <2>2, Zenon
  <2>3. CASE q = r /\ Polled(q, i, f) /\ i = n
    <3>1. c < n
      BY <1>1, <2>3
    <3>2. Polled(r, c, f)'
      BY <1>1, <2>3, <3>1, Zenon
    <3> QED BY <3>2, Zenon
  <2>4. CASE q = r /\ Polled(q, i, f) /\ i # n
    <3>1. i < n /\ i # c
      BY <1>1, <2>4
    <3>2. Polled(r, i, f)'
      BY <1>1, <2>4, <3>1, Zenon
    <3> QED BY <3>2, Zenon
  <2> QED BY <2>1, <2>2, <2>3, <2>4, Zenon
<1>5. HeldOnce'
  <2> SUFFICES ASSUME NEW f \in Fds, NEW p \in Reactors, NEW q \in Reactors, NEW i \in Nat, NEW j \in Nat
               PROVE  /\ Queued(p, i, f)' /\ Queued(q, j, f)' => p = q /\ i = j
                      /\ Polled(p, i, f)' /\ Polled(q, j, f)' => p = q /\ i = j
                      /\ ~(Queued(p, i, f)' /\ Polled(q, j, f)')
    BY Zenon DEF HeldOnce
  <2>0. HeldOnce
    BY DEF OwnInv
  <2> DEFINE old(p1, i1) == IF p1 = r /\ i1 = c THEN n ELSE i1
  <2>1. Polled(p, i, f)' => old(p, i) \in Nat /\ Polled(p, old(p, i), f) /\ (p = r => i < n)
    BY <1>1, Zenon
  <2>2. Polled(q, j, f)' => old(q, j) \in Nat /\ Polled(q, old(q, j), f) /\ (q = r => j < n)
    BY <1>1, Zenon
  <2>3. /\ Queued(p, i, f)' <=> Queued(p, i, f)
        /\ Queued(q, j, f)' <=> Queued(q, j, f)
    BY <1>1, Zenon
  <2>4. Polled(p, i, f)' /\ Polled(q, j, f)' => p = q /\ old(p, i) = old(q, j)
    BY <2>0, <2>1, <2>2, ZenonT(30) DEF HeldOnce
  <2>5. Polled(p, i, f)' /\ Polled(q, j, f)' => p = q /\ i = j
    BY <2>1, <2>2, <2>4
  <2>6. /\ Queued(p, i, f)' /\ Queued(q, j, f)' => p = q /\ i = j
        /\ ~(Queued(p, i, f)' /\ Polled(q, j, f)')
    BY <2>0, <2>2, <2>3, Zenon DEF HeldOnce
  <2> QED BY <2>5, <2>6, Zenon
<1> QED
  BY <1>3, <1>4, <1>5, Zenon DEF OwnInv

\* A server that SIGPIPE ended holds nothing, and every descriptor is free.
LEMMA SignalOwn ==
  ASSUME NEW r \in Reactors, NEW f \in Fds, WriteRaisesSignal(r, f)
  PROVE  /\ OwnInv'
         /\ \A q \in Reactors : \A i, g : ~Queued(q, i, g)' /\ ~Polled(q, i, g)'
<1>1. \A q \in Reactors : pending'[q] = <<>> /\ polled'[q] = <<>>
  BY Zenon DEF WriteRaisesSignal
<1>2. \A g \in Fds : sock'[g] = "free"
  BY Zenon DEF WriteRaisesSignal
<1>3. \A q \in Reactors : \A i : i \notin DOMAIN pending'[q] /\ i \notin DOMAIN polled'[q]
  BY <1>1
<1>4. \A q \in Reactors : \A i, g : ~Queued(q, i, g)' /\ ~Polled(q, i, g)'
  BY <1>3, Zenon DEF Queued, Polled
<1> QED
  BY <1>2, <1>4, ZenonT(30) DEF OwnInv, FreeUnheld, OpenHeld, HeldOnce

\* The steps that move no descriptor.
LEMMA OutsideQuiet ==
  ASSUME TypeInv,
         \/ \E f \in Fds : Client(f)
         \/ Wake \/ StartAgain \/ UNCHANGED vars
  PROVE  Quiet
<1>. USE DEF kernelVars, acceptVars, reactorVars
<1>1. UNCHANGED <<rpc, polled, pending>>
  BY Zenon DEF Client, Send, Receive, Hangup, Wake, StartAgain, vars
<1>2. \A g \in Fds : sock'[g] = "free" <=> sock[g] = "free"
  <2>1. ASSUME NEW f \in Fds, Hangup(f) PROVE \A g \in Fds : sock'[g] = "free" <=> sock[g] = "free"
    <3>1. sock[f] = "open" /\ \E v \in {"eof", "reset"} : sock' = [sock EXCEPT ![f] = v]
      BY <2>1, Zenon DEF Hangup
    <3>2. sock \in [Fds -> {"free", "open", "eof", "reset"}]
      BY TypeParts, Zenon DEF TypeInv, PortTypes
    <3> QED BY <3>1, <3>2, Zenon
  <2>2. (\E f \in Fds : Send(f) \/ Receive(f)) \/ Wake \/ StartAgain \/ UNCHANGED vars => sock' = sock
    BY Zenon DEF Send, Receive, Wake, StartAgain, vars
  <2> QED BY <2>1, <2>2, Zenon DEF Client
<1> QED
  BY <1>1, <1>2, Zenon DEF Quiet

\* The descriptor of an entry.
LEMMA EntryFd == ASSUME NEW e, NEW a, NEW b, e = [fd |-> a, ready |-> b] PROVE e.fd = a
  OBVIOUS

\* The reactor's own steps that neither take, close nor remove a connection are quiet.
LEMMA ReactorQuiet ==
  ASSUME TypeInv, NEW r \in Reactors,
         \/ Poll(r) \/ Drain(r) \/ ReadInput(r) \/ Handle(r) \/ RejectLine(r)
         \/ EndShortRead(r) \/ ReadAgain(r) \/ ReadNothing(r)
         \/ \E f \in Fds : WriteChunk(r, f) \/ WriteToLeaver(r, f) \/ WriteFails(r, f)
  PROVE  Quiet
<1>. USE DEF kernelVars, acceptVars
<1>t. /\ TypeOK /\ ScanInv /\ polled \in [Reactors -> Seq(Entries)]
      /\ rpc \in [Reactors -> {"poll", "drain", "take", "scan", "serve", "write", "remove"}]
      /\ sock \in [Fds -> {"free", "open", "eof", "reset"}]
  BY TypeParts, Zenon DEF TypeInv, EntryTypes, ReactorTypes, PortTypes
<1>1. CASE Poll(r)
  <2>1. pending' = pending /\ sock' = sock /\ rpc[r] # "remove" /\ rpc'[r] # "remove"
    BY <1>t, <1>1, Zenon DEF Poll
  <2>2. \A q \in Reactors \ {r} : polled'[q] = polled[q] /\ rpc'[q] = rpc[q]
    BY <1>t, <1>1, Zenon DEF Poll
  <2>3. polled'[r] = [i \in DOMAIN polled[r] |->
                        [fd |-> polled[r][i].fd, ready |-> Readable(polled[r][i].fd)]]
    BY <1>t, <1>1, ZenonT(30) DEF Poll
  <2>4. /\ DOMAIN polled'[r] = DOMAIN polled[r]
        /\ \A i \in DOMAIN polled[r] : polled'[r][i].fd = polled[r][i].fd
    <3>1. DOMAIN polled'[r] = DOMAIN polled[r]
      BY <2>3, Zenon
    <3>2. ASSUME NEW i \in DOMAIN polled[r]
          PROVE  polled'[r][i] = [fd |-> polled[r][i].fd, ready |-> Readable(polled[r][i].fd)]
      BY <2>3, Zenon
    <3>3. ASSUME NEW i \in DOMAIN polled[r] PROVE polled'[r][i].fd = polled[r][i].fd
      <4>1. polled'[r][i] = [fd |-> polled[r][i].fd, ready |-> Readable(polled[r][i].fd)]
        BY <3>2, Zenon
      <4> QED BY <4>1, EntryFd, Zenon
    <3> QED BY <3>1, <3>3, Zenon
  <2>5. \A g \in Fds : sock'[g] = "free" <=> sock[g] = "free"
    BY <2>1, Zenon
  <2> QED BY <2>1, <2>2, <2>4, <2>5, Zenon DEF Quiet
<1>2. CASE Drain(r) \/ ReadInput(r) \/ Handle(r) \/ RejectLine(r) \/ ReadAgain(r)
  <2>1. /\ UNCHANGED <<pending, polled, sock>> /\ rpc[r] # "remove"
        /\ \E m \in {"take", "serve", "write", "scan"} : rpc' = [rpc EXCEPT ![r] = m]
    BY <1>2, Zenon DEF Drain, ReadInput, Handle, RejectLine, ReadAgain, ParsedAll
  <2>2. rpc'[r] # "remove" /\ \A q \in Reactors \ {r} : rpc'[q] = rpc[q]
    BY <1>t, <2>1, Zenon
  <2>3. polled' = polled /\ \A g \in Fds : sock'[g] = "free" <=> sock[g] = "free"
    BY <2>1, Zenon
  <2> QED BY <2>1, <2>2, <2>3, Zenon DEF Quiet
<1>3. CASE EndShortRead(r) \/ ReadNothing(r)
  <2>1. /\ UNCHANGED <<pending, sock>> /\ rpc[r] # "remove" /\ rpc[r] \in AtEntry
        /\ ScanFrom(r, polled[r], Current(r) + 1)
    BY <1>3, Zenon DEF EndShortRead, ParsedAll, ReadNothing, AtEntry
  <2>2. Marked(r) # {}
    BY <1>t, <2>1, Zenon DEF ScanInv
  <2>3. Current(r) + 1 \in Nat \ {0} /\ polled[r] \in Seq(Entries)
    <3>1. Current(r) \in Nat
      BY <1>t, <2>2, CurrentIs, Zenon
    <3> QED BY <1>t, <3>1
  <2>4. /\ \A q \in Reactors \ {r} : polled'[q] = polled[q] /\ rpc'[q] = rpc[q]
        /\ DOMAIN polled'[r] = DOMAIN polled[r]
        /\ \A j \in DOMAIN polled[r] : polled'[r][j].fd = polled[r][j].fd
        /\ rpc'[r] \in {"poll", "scan"}
    <3> DEFINE k == Current(r) + 1
               s == polled[r]
    <3>1. TypeOK /\ s \in Seq(Entries) /\ k \in Nat \ {0} /\ ScanFrom(r, s, k)
      BY <1>t, <2>1, <2>3, Zenon
    <3> HIDE DEF k, s
    <3>2. /\ \A q \in Reactors \ {r} : polled'[q] = polled[q] /\ rpc'[q] = rpc[q]
          /\ DOMAIN polled'[r] = DOMAIN s
          /\ \A j \in DOMAIN s : polled'[r][j].fd = s[j].fd
          /\ rpc'[r] \in {"poll", "scan"}
      BY <3>1, ScanFromIs, ZenonT(30)
    <3> QED BY <3>2, Zenon DEF s
  <2>5. rpc'[r] # "remove" /\ \A g \in Fds : sock'[g] = "free" <=> sock[g] = "free"
    BY <2>1, <2>4, Zenon
  <2> QED BY <2>1, <2>4, <2>5, Zenon DEF Quiet
<1>4. ASSUME NEW f \in Fds, WriteChunk(r, f) \/ WriteToLeaver(r, f) \/ WriteFails(r, f)
      PROVE  Quiet
  <2>1. /\ UNCHANGED <<pending, polled>> /\ rpc[r] # "remove"
        /\ \E m \in {"serve", "write"} : rpc' = [rpc EXCEPT ![r] = m]
    BY <1>4, Zenon DEF WriteChunk, WriteToLeaver, WriteFails, LeaveUnsent, Writing
  <2>2. rpc'[r] # "remove" /\ \A q \in Reactors \ {r} : rpc'[q] = rpc[q]
    BY <1>t, <2>1, Zenon
  <2>3. \/ sock' = sock
        \/ sock[f] = "eof" /\ \E v \in {"eof", "reset"} : sock' = [sock EXCEPT ![f] = v]
    BY <1>4, Zenon DEF WriteChunk, WriteToLeaver, WriteFails
  <2>4. \A g \in Fds : sock'[g] = "free" <=> sock[g] = "free"
    BY <1>t, <2>3, Zenon
  <2> QED BY <2>1, <2>2, <2>4, Zenon DEF Quiet
<1> QED
  BY <1>1, <1>2, <1>3, <1>4, Zenon

\* Every step preserves the ownership invariant.
LEMMA OwnStep == TypeInv /\ OwnInv /\ [Next]_vars => OwnInv'
<1> SUFFICES ASSUME TypeInv, OwnInv, [Next]_vars PROVE OwnInv'
  OBVIOUS
<1>1. CASE (\E f \in Fds : Client(f)) \/ Wake \/ StartAgain \/ UNCHANGED vars
  BY <1>1, OutsideQuiet, QuietOwn, Zenon
<1>2. ASSUME NEW f \in Fds, Accept(f) PROVE OwnInv'
  BY <1>2, AcceptOwn, Zenon
<1>3. ASSUME NEW r \in Reactors, ReactorStep(r) PROVE OwnInv'
  <2>1. \/ Take(r) \/ Close(r) \/ Remove(r) \/ \E f \in Fds : WriteRaisesSignal(r, f)
        \/ Poll(r) \/ Drain(r) \/ ReadInput(r) \/ Handle(r) \/ RejectLine(r)
        \/ EndShortRead(r) \/ ReadAgain(r) \/ ReadNothing(r)
        \/ \E f \in Fds : WriteChunk(r, f) \/ WriteToLeaver(r, f) \/ WriteFails(r, f)
    BY <1>3, Zenon DEF ReactorStep, Scan, Service
  <2> QED BY <2>1, TakeOwn, CloseOwn, RemoveOwn, SignalOwn, ReactorQuiet, QuietOwn, Zenon
<1> QED
  BY <1>1, <1>2, <1>3, Zenon DEF Next, AcceptLoop

\* A server that has just started owns nothing.
LEMMA OwnInit == Init => OwnInv
<1> SUFFICES ASSUME Init PROVE OwnInv
  OBVIOUS
<1>1. \A q \in Reactors : pending[q] = <<>> /\ polled[q] = <<>>
  BY Zenon DEF Init
<1>2. \A q \in Reactors : \A i, g : ~Queued(q, i, g) /\ ~Polled(q, i, g)
  <2>1. \A q \in Reactors : \A i : i \notin DOMAIN pending[q] /\ i \notin DOMAIN polled[q]
    BY <1>1
  <2> QED BY <2>1, Zenon DEF Queued, Polled
<1>3. \A g \in Fds : sock[g] = "free"
  BY Zenon DEF Init
<1> QED
  BY <1>2, <1>3, ZenonT(30) DEF OwnInv, FreeUnheld, OpenHeld, HeldOnce

\* One place is a set of places of cardinality 1.
LEMMA OwnedOnceIs == OwnInv /\ TypeOK => OwnedOnce
<1> SUFFICES ASSUME OwnInv, TypeOK, NEW f \in Fds
             PROVE  Cardinality(Holders(f)) = IF sock[f] = "free" THEN 0 ELSE 1
  BY DEF OwnedOnce
<1>0. \A r \in Reactors : DOMAIN pending[r] \subseteq Nat /\ DOMAIN polled[r] \subseteq Nat
  BY TypeParts DEF HandoverTypes, EntryTypes
<1> DEFINE At(h, r, i) == \/ Queued(r, i, f) /\ h = <<"pending", r, i>>
                          \/ Polled(r, i, f) /\ h = <<"polled", r, i>>
<1>1. \A h : h \in Holders(f) <=> \E r \in Reactors, i \in Nat : At(h, r, i)
  <2>1. \A r \in Reactors : \A i : Queued(r, i, f) => i \in DOMAIN pending[r]
    BY DEF Queued
  <2>2. \A r \in Reactors : \A i : Polled(r, i, f) => i \in DOMAIN polled[r]
    BY DEF Polled
  <2>3. TAKE h
  <2>4. ASSUME h \in Holders(f)
        PROVE  \E r \in Reactors, i \in Nat : At(h, r, i)
    <3>1. PICK r \in Reactors :
            \/ h \in {<<"pending", r, i>> : i \in {j \in DOMAIN pending[r] : Queued(r, j, f)}}
            \/ h \in {<<"polled", r, i>> : i \in {j \in DOMAIN polled[r] : Polled(r, j, f)}}
      BY <2>4, Zenon DEF Holders
    <3>2. \/ \E i \in DOMAIN pending[r] : Queued(r, i, f) /\ h = <<"pending", r, i>>
          \/ \E i \in DOMAIN polled[r] : Polled(r, i, f) /\ h = <<"polled", r, i>>
      BY <3>1, Zenon
    <3>3. PICK i : i \in DOMAIN pending[r] \cup DOMAIN polled[r] /\ At(h, r, i)
      BY <3>2, Zenon
    <3>4. i \in Nat
      BY <1>0, <3>3, Zenon
    <3> HIDE DEF At
    <3> QED BY <3>3, <3>4, Zenon
  <2>5. ASSUME NEW r \in Reactors, NEW i \in Nat, At(h, r, i)
        PROVE  h \in Holders(f)
    <3>1. \/ h \in {<<"pending", r, k>> : k \in {j \in DOMAIN pending[r] : Queued(r, j, f)}}
          \/ h \in {<<"polled", r, k>> : k \in {j \in DOMAIN polled[r] : Polled(r, j, f)}}
      BY <2>1, <2>2, <2>5, Zenon
    <3> QED BY <3>1 DEF Holders
  <2> QED BY <2>4, <2>5, Zenon
<1>2. CASE sock[f] = "free"
  <2>1. Holders(f) = {}
    BY <1>1, <1>2, Zenon DEF OwnInv, FreeUnheld
  <2> QED BY <1>2, <2>1, FS_EmptySet
<1>3. CASE sock[f] # "free"
  <2>1. PICK r \in Reactors, i \in Nat : Queued(r, i, f) \/ Polled(r, i, f)
    BY <1>3, Zenon DEF OwnInv, OpenHeld
  <2>2. \E h : Holders(f) = {h}
    <3>0. HeldOnce
      BY DEF OwnInv
    <3>1. CASE Queued(r, i, f)
      <4>1. \A q \in Reactors, j \in Nat : ~Polled(q, j, f) /\ (Queued(q, j, f) => q = r /\ j = i)
        BY <3>0, <3>1, Zenon DEF HeldOnce
      <4>2. <<"pending", r, i>> \in Holders(f)
        <5>1. At(<<"pending", r, i>>, r, i)
          BY <3>1, Zenon
        <5> HIDE DEF At
        <5> QED BY <1>1, <5>1, Zenon
      <4>3. \A h \in Holders(f) : h = <<"pending", r, i>>
        BY <1>1, <4>1
      <4> QED BY <4>2, <4>3, Zenon
    <3>2. CASE Polled(r, i, f)
      <4>1. \A q \in Reactors, j \in Nat : ~Queued(q, j, f) /\ (Polled(q, j, f) => q = r /\ j = i)
        BY <3>0, <3>2, Zenon DEF HeldOnce
      <4>2. <<"polled", r, i>> \in Holders(f)
        <5>1. At(<<"polled", r, i>>, r, i)
          BY <3>2, Zenon
        <5> HIDE DEF At
        <5> QED BY <1>1, <5>1, Zenon
      <4>3. \A h \in Holders(f) : h = <<"polled", r, i>>
        BY <1>1, <4>1
      <4> QED BY <4>2, <4>3, Zenon
    <3> QED BY <2>1, <3>1, <3>2, Zenon
  <2> QED BY <1>3, <2>2, FS_Singleton, Zenon
<1> QED
  BY <1>2, <1>3

-----------------------------------------------------------------------------
(* Answers.                                                                *)

\* A reactor has a parser for exactly the connections it polls.
ParserInv ==
  \A r \in Reactors, f \in Fds : parser[r][f] # -1 <=> \E i \in Nat : Polled(r, i, f)

\* Nothing is left of the last connection of a free descriptor, nothing is read
\* or answered before a connection is polled, and from then on the parser has
\* what is read and not answered.
CountInv ==
  /\ \A f \in Fds : sock[f] = "free" => inbox[f] = 0 /\ sent[f] = 0 /\ answered[f] = 0
  /\ \A r \in Reactors, i \in Nat, f \in Fds :
       Queued(r, i, f) => sent[f] = inbox[f] /\ answered[f] = 0
  /\ \A r \in Reactors, f \in Fds :
       parser[r][f] # -1 => sent[f] = inbox[f] + parser[r][f] + 2 * answered[f]

AnswerInv == ParserInv /\ CountInv

CountFacts ==
  /\ inbox \in [Fds -> Nat] /\ sent \in [Fds -> Nat] /\ answered \in [Fds -> Nat]
  /\ parser \in [Reactors -> [Fds -> Nat \cup {-1}]]
  /\ sock \in [Fds -> {"free", "open", "eof", "reset"}]

\* The counters are numbers.
LEMMA CountFactsOK == TypeInv => CountFacts
BY TypeParts DEF TypeInv, CountTypes, ReactorTypes, PortTypes, CountFacts

\* A step that moves no descriptor and changes no count.
LEMMA QuietAnswers ==
  ASSUME AnswerInv, Quiet, UNCHANGED <<inbox, sent, answered, parser>>
  PROVE  AnswerInv'
<1>1. \A r \in Reactors : \A i, f :
        /\ Queued(r, i, f)' <=> Queued(r, i, f)
        /\ Polled(r, i, f)' <=> Polled(r, i, f)
  BY QuietIs
<1>2. ParserInv'
  BY <1>1, Zenon DEF AnswerInv, ParserInv
<1>3. \A f \in Fds : sock'[f] = "free" => sock[f] = "free"
  BY DEF Quiet
<1>4. CountInv'
  BY <1>1, <1>3, ZenonT(40) DEF AnswerInv, CountInv
<1> QED
  BY <1>2, <1>4 DEF AnswerInv

\* The reactor that is at an entry polls it, and nobody else holds it.
LEMMA AtCurrent ==
  ASSUME TypeInv, OwnInv, NEW r \in Reactors, rpc[r] \in {"scan", "serve", "write"}
  PROVE  /\ Entry(r).fd \in Fds /\ Current(r) \in Nat /\ Polled(r, Current(r), Entry(r).fd)
         /\ \A q \in Reactors, i \in Nat : ~Queued(q, i, Entry(r).fd)
         /\ \A q \in Reactors, i \in Nat : Polled(q, i, Entry(r).fd) => q = r /\ i = Current(r)
<1>1. TypeOK /\ Marked(r) # {}
  BY Zenon DEF TypeInv, ScanInv, AtEntry
<1>2. /\ Current(r) \in Nat /\ Current(r) \in DOMAIN polled[r] /\ Entry(r).fd \in Fds
      /\ Entry(r) = polled[r][Current(r)]
  BY <1>1, CurrentIs
<1>3. rpc[r] # "remove"
  OBVIOUS
<1>4. Polled(r, Current(r), Entry(r).fd)
  BY <1>2, <1>3, PolledIs
<1> QED
  BY <1>2, <1>4, Zenon DEF OwnInv, HeldOnce

\* A request half sent is one more to be read.
LEMMA SendAnswers ==
  ASSUME TypeInv, AnswerInv, NEW f \in Fds, Send(f)
  PROVE  AnswerInv'
<1>1. /\ inbox' = [inbox EXCEPT ![f] = @ + 1] /\ sent' = [sent EXCEPT ![f] = @ + 1]
      /\ UNCHANGED <<answered, parser, sock>> /\ sock[f] = "open"
  BY DEF Send, reactorVars
<1>2. \A r \in Reactors : \A i, g :
        /\ Queued(r, i, g)' <=> Queued(r, i, g)
        /\ Polled(r, i, g)' <=> Polled(r, i, g)
  BY OutsideQuiet, QuietIs DEF Client
<1>3. CountFacts
  BY CountFactsOK
<1>4. ParserInv'
  BY <1>1, <1>2, Zenon DEF AnswerInv, ParserInv
<1>5. /\ \A g \in Fds \ {f} : inbox'[g] = inbox[g] /\ sent'[g] = sent[g]
      /\ inbox'[f] = inbox[f] + 1 /\ sent'[f] = sent[f] + 1
  BY <1>1, <1>3 DEF CountFacts
<1>6. CountInv'
  <2>1. \A g \in Fds : sock'[g] = "free" => inbox'[g] = 0 /\ sent'[g] = 0 /\ answered'[g] = 0
    BY <1>1, <1>5, Zenon DEF AnswerInv, CountInv
  <2>2. \A r \in Reactors, i \in Nat, g \in Fds :
          Queued(r, i, g)' => sent'[g] = inbox'[g] /\ answered'[g] = 0
    <3>1. \A r \in Reactors, i \in Nat, g \in Fds :
            Queued(r, i, g)' => sent[g] = inbox[g] /\ answered'[g] = 0
      BY <1>1, <1>2, ZenonT(40) DEF AnswerInv, CountInv
    <3>2. \A g \in Fds : sent[g] = inbox[g] => sent'[g] = inbox'[g]
      BY <1>5, Zenon
    <3> QED BY <3>1, <3>2, Zenon
  <2>3. \A r \in Reactors, g \in Fds :
          parser'[r][g] # -1 => sent'[g] = inbox'[g] + parser'[r][g] + 2 * answered'[g]
    <3>1. TAKE r \in Reactors, g \in Fds
    <3>2. HAVE parser'[r][g] # -1
    <3>3. sent[g] = inbox[g] + parser[r][g] + 2 * answered[g]
      BY <1>1, <3>2, Zenon DEF AnswerInv, CountInv
    <3>4. sent[g] \in Nat /\ inbox[g] \in Nat /\ answered[g] \in Nat /\ parser[r][g] \in Nat
      BY <1>1, <1>3, <3>2, Zenon DEF CountFacts
    <3>5. sent[g] + 1 = (inbox[g] + 1) + parser[r][g] + 2 * answered[g]
      BY <3>3, <3>4
    <3>6. CASE g = f
      BY <1>1, <1>5, <3>5, <3>6, Zenon
    <3>7. CASE g # f
      BY <1>1, <1>5, <3>3, <3>7, Zenon
    <3> QED BY <3>6, <3>7, Zenon
  <2> QED BY <2>1, <2>2, <2>3, Zenon DEF CountInv
<1> QED
  BY <1>4, <1>6, Zenon DEF AnswerInv

\* read() moves input to the parser, next_request() takes a request out.
LEMMA ServeAnswers ==
  ASSUME TypeInv, OwnInv, AnswerInv, NEW r \in Reactors, ReadInput(r) \/ Handle(r)
  PROVE  AnswerInv'
<1> DEFINE f == Entry(r).fd
<1>0. /\ f \in Fds /\ Current(r) \in Nat /\ Polled(r, Current(r), f)
      /\ \A q \in Reactors, i \in Nat : ~Queued(q, i, f)
      /\ \A q \in Reactors, i \in Nat : Polled(q, i, f) => q = r
  BY AtCurrent, Zenon DEF ReadInput, Handle
<1>1. \A q \in Reactors : \A i, g :
        /\ Queued(q, i, g)' <=> Queued(q, i, g)
        /\ Polled(q, i, g)' <=> Polled(q, i, g)
  BY ReactorQuiet, QuietIs
<1>2. CountFacts
  BY CountFactsOK
<1>3. parser[r][f] # -1 /\ sock[f] # "free"
  <2>1. parser[r][f] # -1
    BY <1>0, Zenon DEF AnswerInv, ParserInv
  <2>2. sock[f] # "free"
    BY <1>0, Zenon DEF OwnInv, FreeUnheld
  <2> QED BY <2>1, <2>2
<1>4. parser[r][f] \in Nat /\ inbox[f] \in Nat /\ sent[f] \in Nat /\ answered[f] \in Nat
  BY <1>0, <1>2, <1>3 DEF CountFacts
<1>5. sent[f] = inbox[f] + parser[r][f] + 2 * answered[f]
  BY <1>0, <1>3, Zenon DEF AnswerInv, CountInv
<1>6. /\ UNCHANGED <<sent, sock>>
      /\ \A q \in Reactors, g \in Fds : ~(q = r /\ g = f) => parser'[q][g] = parser[q][g]
      /\ \A g \in Fds \ {f} : inbox'[g] = inbox[g] /\ answered'[g] = answered[g]
      /\ parser'[r][f] \in Nat
      /\ sent[f] = inbox'[f] + parser'[r][f] + 2 * answered'[f]
  <2> HIDE DEF f
  <2>1. CASE ReadInput(r)
    <3>1. /\ parser' = [parser EXCEPT ![r][f] = @ + inbox[f]] /\ inbox' = [inbox EXCEPT ![f] = 0]
          /\ UNCHANGED <<sent, sock, answered>>
      BY <2>1, Zenon DEF ReadInput, f
    <3>2. /\ \A q \in Reactors, g \in Fds : ~(q = r /\ g = f) => parser'[q][g] = parser[q][g]
          /\ parser'[r][f] = parser[r][f] + inbox[f]
      BY <1>0, <1>2, <3>1, Zenon DEF CountFacts
    <3>3. inbox'[f] = 0 /\ \A g \in Fds \ {f} : inbox'[g] = inbox[g]
      BY <1>0, <1>2, <3>1, Zenon DEF CountFacts
    <3>4. parser'[r][f] \in Nat /\ sent[f] = inbox'[f] + parser'[r][f] + 2 * answered[f]
      <4>1. /\ parser[r][f] + inbox[f] \in Nat
            /\ sent[f] = 0 + (parser[r][f] + inbox[f]) + 2 * answered[f]
        BY <1>4, <1>5
      <4> QED BY <3>2, <3>3, <4>1, Zenon
    <3> QED BY <3>1, <3>2, <3>3, <3>4, Zenon
  <2>2. CASE Handle(r)
    <3>1. /\ parser' = [parser EXCEPT ![r][f] = @ - 2] /\ answered' = [answered EXCEPT ![f] = @ + 1]
          /\ UNCHANGED <<sent, sock, inbox>> /\ parser[r][f] >= 2
      BY <2>2, Zenon DEF Handle, f
    <3>2. /\ \A q \in Reactors, g \in Fds : ~(q = r /\ g = f) => parser'[q][g] = parser[q][g]
          /\ parser'[r][f] = parser[r][f] - 2
      BY <1>0, <1>2, <3>1, Zenon DEF CountFacts
    <3>3. answered'[f] = answered[f] + 1 /\ \A g \in Fds \ {f} : answered'[g] = answered[g]
      BY <1>0, <1>2, <3>1, Zenon DEF CountFacts
    <3>4. parser'[r][f] \in Nat /\ sent[f] = inbox[f] + parser'[r][f] + 2 * answered'[f]
      <4>0. parser[r][f] >= 2
        BY <3>1
      <4>1. /\ parser[r][f] - 2 \in Nat
            /\ sent[f] = inbox[f] + (parser[r][f] - 2) + 2 * (answered[f] + 1)
        BY <1>4, <1>5, <4>0
      <4> QED BY <3>2, <3>3, <4>1, Zenon
    <3> QED BY <3>1, <3>2, <3>3, <3>4, Zenon
  <2> QED BY <2>1, <2>2, Zenon
<1> HIDE DEF f
<1>7. ParserInv'
  <2>1. \A q \in Reactors, g \in Fds : parser'[q][g] # -1 <=> parser[q][g] # -1
    <3>1. parser'[r][f] # -1
      BY <1>6
    <3> QED BY <1>3, <1>6, <3>1, Zenon
  <2> QED BY <1>1, <2>1, Zenon DEF AnswerInv, ParserInv
<1>8. CountInv'
  <2>1. \A g \in Fds : sock'[g] = "free" => inbox'[g] = 0 /\ sent'[g] = 0 /\ answered'[g] = 0
    BY <1>3, <1>6, Zenon DEF AnswerInv, CountInv
  <2>2. \A q \in Reactors, i \in Nat, g \in Fds :
          Queued(q, i, g)' => sent'[g] = inbox'[g] /\ answered'[g] = 0
    <3>1. \A q \in Reactors, i \in Nat, g \in Fds :
            Queued(q, i, g)' => g # f /\ sent[g] = inbox[g] /\ answered[g] = 0
      <4>1. ASSUME NEW q \in Reactors, NEW i \in Nat, NEW g \in Fds, Queued(q, i, g)'
            PROVE  g # f /\ sent[g] = inbox[g] /\ answered[g] = 0
        <5>1. Queued(q, i, g)
          BY <1>1, <4>1, Zenon
        <5>2. g # f
          BY <1>0, <5>1, Zenon
        <5>3. sent[g] = inbox[g] /\ answered[g] = 0
          BY <5>1, Zenon DEF AnswerInv, CountInv
        <5> QED BY <5>2, <5>3, Zenon
      <4> QED BY <4>1, Zenon
    <3>2. \A g \in Fds : g # f => inbox'[g] = inbox[g] /\ answered'[g] = answered[g] /\ sent'[g] = sent[g]
      BY <1>6, Zenon
    <3> QED BY <3>1, <3>2, Zenon
  <2>3. \A q \in Reactors, g \in Fds :
          parser'[q][g] # -1 => sent'[g] = inbox'[g] + parser'[q][g] + 2 * answered'[g]
    <3>1. TAKE q \in Reactors, g \in Fds
    <3>2. HAVE parser'[q][g] # -1
    <3>3. CASE g # f
      <4>1. parser'[q][g] = parser[q][g] /\ inbox'[g] = inbox[g] /\ answered'[g] = answered[g]
            /\ sent'[g] = sent[g]
        BY <1>6, <3>3, Zenon
      <4>2. parser[q][g] # -1
        BY <3>2, <4>1, Zenon
      <4>3. sent[g] = inbox[g] + parser[q][g] + 2 * answered[g]
        BY <4>2, Zenon DEF AnswerInv, CountInv
      <4> QED BY <4>1, <4>3, Zenon
    <3>4. CASE g = f
      <4>1. \E i \in Nat : Polled(q, i, f)
        BY <1>1, <1>7, <3>2, <3>4, Zenon DEF ParserInv
      <4>2. q = r
        BY <1>0, <4>1, Zenon
      <4> QED BY <1>6, <3>4, <4>2, Zenon
    <3> QED BY <3>3, <3>4, Zenon
  <2> QED BY <2>1, <2>2, <2>3, Zenon DEF CountInv
<1> QED
  BY <1>7, <1>8, Zenon DEF AnswerInv

\* Accepting touches no counter, and those of a free descriptor are zero.
LEMMA AcceptAnswers ==
  ASSUME TypeInv, OwnInv, AnswerInv, NEW f \in Fds, Accept(f)
  PROVE  AnswerInv'
<1>0. sock[f] = "free" /\ UNCHANGED <<inbox, sent, answered, parser>>
  BY DEF Accept
<1>1. CountFacts
  BY CountFactsOK
<1>2. /\ \A g \in Fds : sock'[g] = "free" => sock[g] = "free"
      /\ \A r \in Reactors, i \in Nat, g \in Fds :
           /\ Queued(r, i, g)' => Queued(r, i, g) \/ g = f
           /\ Polled(r, i, g)' <=> Polled(r, i, g)
  BY <1>1, AcceptMoves, Zenon DEF CountFacts
<1>3. inbox[f] = 0 /\ sent[f] = 0 /\ answered[f] = 0
  BY <1>0, Zenon DEF AnswerInv, CountInv
<1>4. ParserInv'
  BY <1>0, <1>2, Zenon DEF AnswerInv, ParserInv
<1>5. CountInv'
  BY <1>0, <1>2, <1>3, ZenonT(30) DEF AnswerInv, CountInv
<1> QED
  BY <1>4, <1>5, Zenon DEF AnswerInv

\* emplace() finds no parser: every queued connection gets an empty one.
LEMMA TakeAnswers ==
  ASSUME TypeInv, OwnInv, AnswerInv, NEW r \in Reactors, Take(r)
  PROVE  AnswerInv'
<1>0. UNCHANGED <<sock, inbox, sent, answered>> /\ AddParsers(r)
  BY Zenon DEF Take, kernelVars
<1>1. CountFacts /\ HandoverTypes
  BY CountFactsOK, TypeParts DEF TypeInv
<1>2. PICK n \in Nat : TakenAt(r, n)
  BY TakeMoves
<1>. USE DEF TakenAt
<1>3. /\ \A q \in Reactors \ {r}, g \in Fds : parser'[q][g] = parser[q][g]
      /\ \A g \in Fds : parser'[r][g] =
           IF parser[r][g] = -1 /\ \E i \in Nat : Queued(r, i, g) THEN 0 ELSE parser[r][g]
  <2>1. \A g \in Fds : (\E i \in DOMAIN pending[r] : pending[r][i] = g) <=> \E i \in Nat : Queued(r, i, g)
    BY <1>1 DEF HandoverTypes, Queued
  <2>2. parser' = [parser EXCEPT ![r] =
          [g \in Fds |-> IF parser[r][g] = -1 /\ \E i \in DOMAIN pending[r] : pending[r][i] = g
                         THEN 0 ELSE parser[r][g]]]
    BY <1>0, Zenon DEF AddParsers
  <2>3. parser \in [Reactors -> [Fds -> Nat \cup {-1}]]
    BY <1>1, Zenon DEF CountFacts
  <2>4. \A q \in Reactors \ {r}, g \in Fds : parser'[q][g] = parser[q][g]
    BY <2>2, <2>3, Zenon
  <2>5. \A g \in Fds : parser'[r][g] =
          IF parser[r][g] = -1 /\ \E i \in DOMAIN pending[r] : pending[r][i] = g
          THEN 0 ELSE parser[r][g]
    BY <2>2, <2>3, Zenon
  <2> QED BY <2>1, <2>4, <2>5, Zenon
<1>4. \A g \in Fds : (\E i \in Nat : Polled(r, i, g)') <=>
                     (\E i \in Nat : Polled(r, i, g)) \/ (\E i \in Nat : Queued(r, i, g))
  <2>1. TAKE g \in Fds
  <2>2. ASSUME NEW i \in Nat, Polled(r, i, g)'
        PROVE  (\E j \in Nat : Polled(r, j, g)) \/ (\E j \in Nat : Queued(r, j, g))
    <3>1. i > n => i - n \in Nat
      OBVIOUS
    <3> QED BY <1>2, <2>2, <3>1
  <2>3. ASSUME NEW i \in Nat, Polled(r, i, g)
        PROVE  Polled(r, i, g)'
    BY <1>2, <2>3, Zenon
  <2>4. ASSUME NEW i \in Nat, Queued(r, i, g)
        PROVE  \E j \in Nat : Polled(r, j, g)'
    <3>1. i + n \in Nat /\ ~(i + n <= n) /\ (i + n) - n = i
      BY <1>2, <2>4
    <3>2. Polled(r, i + n, g)' <=> Queued(r, (i + n) - n, g)
      BY <1>2, <3>1, Zenon
    <3>3. Polled(r, i + n, g)'
      BY <2>4, <3>1, <3>2, Zenon
    <3> QED BY <3>1, <3>3
  <2> QED BY <2>2, <2>3, <2>4, Zenon
<1>5. ParserInv'
  <2> SUFFICES ASSUME NEW q \in Reactors, NEW g \in Fds
               PROVE  parser'[q][g] # -1 <=> \E i \in Nat : Polled(q, i, g)'
    BY Zenon DEF ParserInv
  <2>0. parser[q][g] # -1 <=> \E i \in Nat : Polled(q, i, g)
    BY Zenon DEF AnswerInv, ParserInv
  <2>1. CASE q # r
    BY <1>2, <1>3, <2>0, <2>1, Zenon
  <2>2. CASE q = r
    <3>1. parser'[r][g] = IF parser[r][g] = -1 /\ \E i \in Nat : Queued(r, i, g) THEN 0 ELSE parser[r][g]
      BY <1>3, Zenon
    <3>2. (\E i \in Nat : Polled(r, i, g)') <=>
            (\E i \in Nat : Polled(r, i, g)) \/ (\E i \in Nat : Queued(r, i, g))
      BY <1>4, Zenon
    <3>3. 0 # -1
      OBVIOUS
    <3> QED BY <2>0, <2>2, <3>1, <3>2, <3>3, Zenon
  <2> QED BY <2>1, <2>2, Zenon
<1>6. CountInv'
  <2>1. \A g \in Fds : sock'[g] = "free" => inbox'[g] = 0 /\ sent'[g] = 0 /\ answered'[g] = 0
    BY <1>0, Zenon DEF AnswerInv, CountInv
  <2>2. \A q \in Reactors, i \in Nat, g \in Fds :
          Queued(q, i, g)' => sent'[g] = inbox'[g] /\ answered'[g] = 0
    <3>1. \A q \in Reactors, i \in Nat, g \in Fds : Queued(q, i, g)' => Queued(q, i, g)
      BY <1>2, Zenon
    <3> QED BY <1>0, <3>1, ZenonT(30) DEF AnswerInv, CountInv
  <2>3. \A q \in Reactors, g \in Fds :
          parser'[q][g] # -1 => sent'[g] = inbox'[g] + parser'[q][g] + 2 * answered'[g]
    <3>1. TAKE q \in Reactors, g \in Fds
    <3>2. HAVE parser'[q][g] # -1
    <3>3. CASE parser'[q][g] = parser[q][g]
      BY <1>0, <3>2, <3>3, Zenon DEF AnswerInv, CountInv
    <3>4. CASE q = r /\ parser'[q][g] = 0 /\ \E i \in Nat : Queued(r, i, g)
      <4>1. sent[g] = inbox[g] /\ answered[g] = 0
        BY <3>4, Zenon DEF AnswerInv, CountInv
      <4>2. inbox[g] \in Nat
        BY <1>1, Zenon DEF CountFacts
      <4> QED BY <1>0, <3>4, <4>1, <4>2, SMTT(20)
    <3> QED BY <1>3, <3>3, <3>4, Zenon
  <2> QED BY <2>1, <2>2, <2>3, Zenon DEF CountInv
<1> QED
  BY <1>5, <1>6, Zenon DEF AnswerInv

\* Closing a connection resets its counters.
LEMMA CloseAnswers ==
  ASSUME TypeInv, OwnInv, AnswerInv, NEW r \in Reactors, Close(r)
  PROVE  AnswerInv'
<1> DEFINE f == Entry(r).fd
           c == Current(r)
<1>0. /\ f \in Fds /\ c \in Nat /\ Polled(r, c, f)
      /\ \A q \in Reactors, i \in Nat : ~Queued(q, i, f)
      /\ \A q \in Reactors, i \in Nat : Polled(q, i, f) => q = r /\ i = c
  BY AtCurrent, Zenon DEF Close
<1>1. /\ \A g \in Fds : Polled(r, c, g) <=> g = f
      /\ sock' = [sock EXCEPT ![f] = "free"]
      /\ \A q \in Reactors, i \in Nat, g \in Fds :
           /\ Queued(q, i, g)' <=> Queued(q, i, g)
           /\ Polled(q, i, g)' <=> Polled(q, i, g) /\ ~(q = r /\ i = c)
  BY CloseMoves, Zenon
<1>2. /\ inbox[f] = 0 /\ inbox' = inbox
      /\ sent' = [sent EXCEPT ![f] = 0] /\ answered' = [answered EXCEPT ![f] = 0]
      /\ parser' = [parser EXCEPT ![r][f] = -1]
  BY Zenon DEF Close
<1>3. CountFacts
  BY CountFactsOK
<1> HIDE DEF f, c
<1>4. /\ sent'[f] = 0 /\ answered'[f] = 0
      /\ \A g \in Fds \ {f} : sent'[g] = sent[g] /\ answered'[g] = answered[g] /\ sock'[g] = sock[g]
  BY <1>0, <1>1, <1>2, <1>3 DEF CountFacts
<1>5. /\ parser'[r][f] = -1
      /\ \A q \in Reactors, g \in Fds : ~(q = r /\ g = f) => parser'[q][g] = parser[q][g]
  BY <1>0, <1>2, <1>3, Zenon DEF CountFacts
<1>6. ParserInv'
  <2> SUFFICES ASSUME NEW q \in Reactors, NEW g \in Fds
               PROVE  parser'[q][g] # -1 <=> \E i \in Nat : Polled(q, i, g)'
    BY Zenon DEF ParserInv
  <2>0. parser[q][g] # -1 <=> \E i \in Nat : Polled(q, i, g)
    BY Zenon DEF AnswerInv, ParserInv
  <2>1. CASE q = r /\ g = f
    BY <1>0, <1>1, <1>5, <2>1, Zenon
  <2>2. CASE ~(q = r /\ g = f)
    <3>1. \A i \in Nat : Polled(q, i, g)' <=> Polled(q, i, g)
      BY <1>1, <2>2, Zenon
    <3> QED BY <1>5, <2>0, <2>2, <3>1, Zenon
  <2> QED BY <2>1, <2>2, Zenon
<1>7. CountInv'
  <2>1. \A g \in Fds : sock'[g] = "free" => inbox'[g] = 0 /\ sent'[g] = 0 /\ answered'[g] = 0
    BY <1>2, <1>4, Zenon DEF AnswerInv, CountInv
  <2>2. \A q \in Reactors, i \in Nat, g \in Fds :
          Queued(q, i, g)' => sent'[g] = inbox'[g] /\ answered'[g] = 0
    BY <1>0, <1>1, <1>2, <1>4, SMTT(20) DEF AnswerInv, CountInv
  <2>3. \A q \in Reactors, g \in Fds :
          parser'[q][g] # -1 => sent'[g] = inbox'[g] + parser'[q][g] + 2 * answered'[g]
    <3>1. TAKE q \in Reactors, g \in Fds
    <3>2. HAVE parser'[q][g] # -1
    <3>3. CASE g = f
      <4>1. PICK i \in Nat : Polled(q, i, g)'
        BY <1>6, <3>2, Zenon DEF ParserInv
      <4>2. Polled(q, i, g) /\ ~(q = r /\ i = c)
        BY <1>1, <4>1, Zenon
      <4> QED BY <1>0, <3>3, <4>2
    <3>4. CASE g # f
      BY <1>2, <1>4, <1>5, <3>2, <3>4 DEF AnswerInv, CountInv
    <3> QED BY <3>3, <3>4, Zenon
  <2> QED BY <2>1, <2>2, <2>3, Zenon DEF CountInv
<1> QED
  BY <1>6, <1>7 DEF AnswerInv

\* Removing an entry touches no counter.
LEMMA RemoveAnswers ==
  ASSUME TypeInv, AnswerInv, NEW r \in Reactors, Remove(r)
  PROVE  AnswerInv'
<1>0. UNCHANGED <<sock, inbox, sent, answered, parser>>
  BY Zenon DEF Remove, kernelVars
<1>1. PICK c \in Nat, n \in Nat : RemovedAt(r, c, n)
  BY RemoveMoves
<1>. USE DEF RemovedAt
<1>2. \A q \in Reactors, g \in Fds :
        (\E i \in Nat : Polled(q, i, g)') <=> (\E i \in Nat : Polled(q, i, g))
  <2>1. TAKE q \in Reactors, g \in Fds
  <2>2. CASE q # r
    BY <1>1, <2>2
  <2>3. CASE q = r
    <3>1. ASSUME NEW i \in Nat, Polled(r, i, g)'
          PROVE  \E j \in Nat : Polled(r, j, g)
      BY <1>1, <3>1, Zenon
    <3>2. ASSUME NEW i \in Nat, Polled(r, i, g)
          PROVE  \E j \in Nat : Polled(r, j, g)'
      <4>1. CASE i = n
        <5>1. c < n
          BY <1>1, <3>2, <4>1
        <5>2. Polled(r, c, g)'
          BY <1>1, <3>2, <4>1, <5>1, Zenon
        <5> QED BY <1>1, <5>2
      <4>2. CASE i # n
        <5>1. i < n /\ i # c
          BY <1>1, <3>2, <4>2
        <5>2. Polled(r, i, g)'
          BY <1>1, <3>2, <5>1, Zenon
        <5> QED BY <5>2, Zenon
      <4> QED BY <4>1, <4>2
    <3> QED BY <2>3, <3>1, <3>2, Zenon
  <2> QED BY <2>2, <2>3
<1>3. ParserInv'
  BY <1>0, <1>2, Zenon DEF AnswerInv, ParserInv
<1>4. CountInv'
  <2>1. \A q \in Reactors, i \in Nat, g \in Fds : Queued(q, i, g)' <=> Queued(q, i, g)
    BY <1>1, Zenon
  <2>2. \A q \in Reactors, i \in Nat, g \in Fds :
          Queued(q, i, g)' => sent[g] = inbox[g] /\ answered[g] = 0
    BY <2>1, Zenon DEF AnswerInv, CountInv
  <2>3. \A g \in Fds : sock[g] = "free" => inbox[g] = 0 /\ sent[g] = 0 /\ answered[g] = 0
    BY Zenon DEF AnswerInv, CountInv
  <2>4. \A q \in Reactors, g \in Fds :
          parser[q][g] # -1 => sent[g] = inbox[g] + parser[q][g] + 2 * answered[g]
    BY Zenon DEF AnswerInv, CountInv
  <2> QED BY <1>0, <2>2, <2>3, <2>4, Zenon DEF CountInv
<1> QED
  BY <1>3, <1>4, Zenon DEF AnswerInv

\* The end of the process leaves no count behind.
LEMMA SignalAnswers ==
  ASSUME NEW r \in Reactors, NEW f \in Fds, WriteRaisesSignal(r, f)
  PROVE  AnswerInv'
<1>1. \A q \in Reactors : \A i, g : ~Queued(q, i, g)' /\ ~Polled(q, i, g)'
  BY SignalOwn, Zenon
<1>2. /\ \A q \in Reactors, g \in Fds : parser'[q][g] = -1
      /\ \A g \in Fds : inbox'[g] = 0 /\ sent'[g] = 0 /\ answered'[g] = 0
  BY Zenon DEF WriteRaisesSignal, Nothing
<1> QED
  BY <1>1, <1>2, Zenon DEF AnswerInv, ParserInv, CountInv

\* Every step preserves the answer invariant.
LEMMA AnswerStep == TypeInv /\ OwnInv /\ AnswerInv /\ [Next]_vars => AnswerInv'
<1> SUFFICES ASSUME TypeInv, OwnInv, AnswerInv, [Next]_vars PROVE AnswerInv'
  BY Zenon
<1>1. CASE (\E f \in Fds : Receive(f) \/ Hangup(f)) \/ Wake \/ StartAgain \/ UNCHANGED vars
  <2>1. Quiet
    BY <1>1, OutsideQuiet, Zenon DEF Client
  <2>2. UNCHANGED <<inbox, sent, answered, parser>>
    BY <1>1, Zenon DEF Receive, Hangup, Wake, StartAgain, vars, kernelVars, reactorVars
  <2> QED BY <2>1, <2>2, QuietAnswers
<1>2. ASSUME NEW f \in Fds, Send(f) \/ Accept(f) PROVE AnswerInv'
  BY <1>2, SendAnswers, AcceptAnswers, Zenon
<1>3. ASSUME NEW r \in Reactors, ReactorStep(r) PROVE AnswerInv'
  <2>1. CASE \/ Poll(r) \/ Drain(r) \/ RejectLine(r)
             \/ EndShortRead(r) \/ ReadAgain(r) \/ ReadNothing(r)
             \/ \E f \in Fds : WriteChunk(r, f) \/ WriteToLeaver(r, f) \/ WriteFails(r, f)
    <3>1. Quiet
      BY <2>1, ReactorQuiet, ZenonT(30)
    <3>2. UNCHANGED <<inbox, sent, answered, parser>>
      BY <2>1, Zenon DEF Poll, Drain, RejectLine, EndShortRead, ReadAgain, ReadNothing, WriteChunk, WriteToLeaver,
                  WriteFails, LeaveUnsent, kernelVars
    <3> QED BY <3>1, <3>2, QuietAnswers, Zenon
  <2>2. CASE ReadInput(r) \/ Handle(r)
    BY <2>2, ServeAnswers, Zenon
  <2>3. CASE Take(r) \/ Close(r) \/ Remove(r) \/ \E f \in Fds : WriteRaisesSignal(r, f)
    BY <2>3, TakeAnswers, CloseAnswers, RemoveAnswers, SignalAnswers, Zenon
  <2> QED BY <1>3, <2>1, <2>2, <2>3, Zenon DEF ReactorStep, Scan, Service
<1> QED
  BY <1>1, <1>2, <1>3, Zenon DEF Next, AcceptLoop, Client

\* With one owner for each connection, the answer invariant accounts for all it sent.
LEMMA AnswersOwnIs == TypeInv /\ OwnInv /\ AnswerInv => AnswersOwnRequests
<1> SUFFICES ASSUME TypeInv, OwnInv, AnswerInv, NEW f \in Fds, sock[f] # "free"
             PROVE  2 * answered[f] + inbox[f] <= sent[f]
  BY Zenon DEF AnswersOwnRequests, AnswerInv, CountInv
<1>1. PICK r \in Reactors, i \in Nat : Queued(r, i, f) \/ Polled(r, i, f)
  BY DEF OwnInv, OpenHeld
<1>2. /\ inbox[f] \in Nat /\ sent[f] \in Nat /\ answered[f] \in Nat
      /\ parser[r][f] # -1 => parser[r][f] \in Nat
  BY CountFactsOK DEF CountFacts
<1>3. CASE Queued(r, i, f)
  BY <1>2, <1>3 DEF AnswerInv, CountInv
<1>4. CASE Polled(r, i, f)
  <2>1. parser[r][f] # -1 /\ sent[f] = inbox[f] + parser[r][f] + 2 * answered[f]
    BY <1>4, Zenon DEF AnswerInv, ParserInv, CountInv
  <2> QED BY <1>2, <2>1
<1> QED
  BY <1>1, <1>3, <1>4, Zenon

-----------------------------------------------------------------------------
(* One pass over poll_fds_.                                                *)

\* What the pass has still to serve is what is marked.
DueOf(r) ==
  \A f \in Fds :
    f \in due[r] <=> rpc[r] # "poll" /\ \E i \in Nat : Polled(r, i, f) /\ polled[r][i].ready

DueInv == \A r \in Reactors : DueOf(r)

\* A step that leaves a reactor and what it owes alone keeps its part of the invariant.
LEMMA DueStays ==
  ASSUME NEW r \in Reactors, DueOf(r), polled'[r] = polled[r], rpc'[r] = rpc[r], due'[r] = due[r]
  PROVE  DueOf(r)'
BY PolledStays, Zenon DEF DueOf

\* A step of reactor r from one entry of its poll set to the same.
LEMMA DueMoves ==
  ASSUME NEW r \in Reactors, DueOf(r), polled'[r] = polled[r], due'[r] = due[r],
         rpc[r] \notin {"poll", "remove"}, rpc'[r] \notin {"poll", "remove"}
  PROVE  DueOf(r)'
<1>1. \A i, f : Polled(r, i, f)' <=> Polled(r, i, f)
  <2>1. \A i, f : Polled(r, i, f) <=> i \in DOMAIN polled[r] /\ polled[r][i].fd = f
    BY PolledIs, Zenon
  <2>2. \A i, f : Polled(r, i, f)' <=> i \in DOMAIN polled'[r] /\ polled'[r][i].fd = f
    BY PolledIsNext, Zenon
  <2> QED BY <2>1, <2>2, Zenon
<1>2. rpc[r] # "poll" /\ rpc'[r] # "poll"
  BY Zenon
<1> QED
  BY <1>1, <1>2, Zenon DEF DueOf

\* The entry served is done with: the pass goes on after it.
LEMMA DueServed ==
  ASSUME TypeInv, OwnInv, NEW r \in Reactors, DueOf(r), EndShortRead(r) \/ ReadNothing(r)
  PROVE  DueOf(r)'
<1> DEFINE c == Current(r)
           s == polled[r]
           k == c + 1
           e == Entry(r).fd
<1>1. rpc[r] \in {"scan", "serve"} /\ ScanFrom(r, s, k) /\ due' = [due EXCEPT ![r] = @ \ {e}]
  BY Zenon DEF EndShortRead, ParsedAll, ReadNothing
<1>2. TypeOK /\ ScanInv /\ s \in Seq(Entries) /\ due \in [Reactors -> SUBSET Fds]
  BY TypeParts DEF TypeInv, EntryTypes, ReactorTypes
<1>3. Marked(r) # {}
  BY <1>1, <1>2, Zenon DEF ScanInv, AtEntry
<1>4. c \in Nat /\ c \in DOMAIN s /\ s[c].fd = e /\ \A j \in Marked(r) : c <= j
  BY <1>2, <1>3, CurrentIs, Zenon
<1>5. k \in Nat \ {0}
  BY <1>4
<1>6. \A j \in DOMAIN s : s[j].ready => j \in Nat /\ c <= j
  <2>1. \A j \in DOMAIN s : s[j].ready => c <= j
    BY <1>4, Zenon DEF Marked
  <2> QED BY <1>2, <2>1
<1>7. due'[r] = due[r] \ {e}
  BY <1>1, <1>2, Zenon
<1>8. \A i, f : Polled(r, i, f) <=> i \in DOMAIN s /\ s[i].fd = f
  BY <1>1, PolledIs, Zenon
<1> HIDE DEF s, k
<1>9. /\ DOMAIN polled'[r] = DOMAIN s
      /\ \A j \in DOMAIN s : /\ polled'[r][j].fd = s[j].fd
                             /\ polled'[r][j].ready <=> (j >= k /\ s[j].ready)
      /\ rpc'[r] \in {"poll", "scan"} /\ (rpc'[r] = "scan" <=> Marked(r)' # {})
  BY <1>1, <1>2, <1>5, ScanFromIs, ZenonT(30)
<1>10. \A i, f : Polled(r, i, f)' <=> i \in DOMAIN polled'[r] /\ polled'[r][i].fd = f
  BY <1>9, PolledIsNext, Zenon
<1> HIDE DEF c, e
<1>11. \A j \in DOMAIN s : polled'[r][j].ready <=> j # c /\ s[j].ready
  BY <1>4, <1>6, <1>9 DEF k
<1>12. \A j \in DOMAIN s : j # c => s[j].fd # e
  <2>1. TAKE j \in DOMAIN s
  <2>2. j \in Nat
    BY <1>2
  <2>3. e \in Fds /\ Polled(r, c, e) /\ (s[j].fd = e => Polled(r, j, e))
    <3>1. e \in Fds
      BY <1>2, <1>3, CurrentIs, Zenon DEF e
    <3> QED BY <1>4, <1>8, <3>1, Zenon
  <2> QED BY <1>4, <2>2, <2>3, Zenon DEF OwnInv, HeldOnce
<1> SUFFICES ASSUME NEW f \in Fds
             PROVE  f \in due'[r] <=>
                      rpc'[r] # "poll" /\ \E i \in Nat : Polled(r, i, f)' /\ polled'[r][i].ready
  BY Zenon DEF DueOf
<1>13. f \in due[r] <=> \E i \in DOMAIN s : s[i].fd = f /\ s[i].ready
  <2>1. f \in due[r] <=> \E i \in Nat : Polled(r, i, f) /\ polled[r][i].ready
    BY <1>1, Zenon DEF DueOf
  <2>2. DOMAIN s \subseteq Nat
    BY <1>2
  <2> QED BY <1>8, <2>1, <2>2, ZenonT(30) DEF s
<1>14. f \in due'[r] <=> \E i \in DOMAIN s : s[i].fd = f /\ polled'[r][i].ready
  <2>1. f \in due'[r] <=> f # e /\ \E i \in DOMAIN s : s[i].fd = f /\ s[i].ready
    BY <1>7, <1>13, Zenon
  <2> QED BY <1>4, <1>11, <1>12, <2>1, Zenon
<1>15. (\E i \in DOMAIN s : s[i].fd = f /\ polled'[r][i].ready) <=>
         rpc'[r] # "poll" /\ \E i \in Nat : Polled(r, i, f)' /\ polled'[r][i].ready
  <2>1. DOMAIN s \subseteq Nat
    BY <1>2
  <2>2. \A i \in DOMAIN s : polled'[r][i].ready => i \in Marked(r)'
    BY <1>9, Zenon DEF Marked
  <2>3. Marked(r)' # {} => rpc'[r] # "poll"
    BY <1>9, Zenon
  <2>4. \A i : Polled(r, i, f)' <=> i \in DOMAIN s /\ s[i].fd = f
    BY <1>9, <1>10, Zenon
  <2> QED BY <2>1, <2>2, <2>3, <2>4, Zenon
<1> QED
  BY <1>14, <1>15, Zenon

\* poll starts a pass that owes every ready entry.
LEMMA DuePolled ==
  ASSUME TypeInv, NEW r \in Reactors, Poll(r)
  PROVE  DueOf(r)'
<1> DEFINE s == polled[r]
<1>1. /\ s \in Seq(Entries) /\ DOMAIN s \subseteq Nat /\ polled \in [Reactors -> Seq(Entries)]
      /\ rpc \in [Reactors -> {"poll", "drain", "take", "scan", "serve", "write", "remove"}]
      /\ due \in [Reactors -> SUBSET Fds]
  BY TypeParts DEF TypeInv, EntryTypes, ReactorTypes
<1>2. rpc'[r] # "remove" /\ rpc'[r] # "poll"
  BY <1>1, Zenon DEF Poll
<1>3. polled'[r] = [i \in DOMAIN s |-> [fd |-> s[i].fd, ready |-> Readable(s[i].fd)]]
  BY <1>1, Zenon DEF Poll
<1>4. /\ DOMAIN polled'[r] = DOMAIN s
      /\ \A i \in DOMAIN s : /\ polled'[r][i].fd = s[i].fd
                             /\ polled'[r][i].ready <=> Readable(s[i].fd)
  BY <1>3
<1>5. due'[r] = ReadyFds(r)
  BY <1>1, Zenon DEF Poll
<1>6. \A i, f : Polled(r, i, f)' <=> i \in DOMAIN polled'[r] /\ polled'[r][i].fd = f
  BY <1>2, PolledIsNext, Zenon
<1>7. \A f \in Fds : f \in ReadyFds(r) <=> \E i \in DOMAIN s : s[i].fd = f /\ Readable(s[i].fd)
  BY Zenon DEF ReadyFds
<1> HIDE DEF s
<1> SUFFICES ASSUME NEW f \in Fds
             PROVE  f \in due'[r] <=>
                      rpc'[r] # "poll" /\ \E i \in Nat : Polled(r, i, f)' /\ polled'[r][i].ready
  BY Zenon DEF DueOf
<1>8. \A i : Polled(r, i, f)' <=> i \in DOMAIN s /\ s[i].fd = f
  BY <1>4, <1>6, Zenon
<1>9. f \in due'[r] <=> \E i \in DOMAIN s : s[i].fd = f /\ polled'[r][i].ready
  BY <1>4, <1>5, <1>7, ZenonT(30)
<1> QED
  BY <1>1, <1>2, <1>8, <1>9, Zenon

\* A closed connection is no longer owed.
LEMMA DueClosed ==
  ASSUME TypeInv, OwnInv, NEW r \in Reactors, DueOf(r), Close(r)
  PROVE  DueOf(r)'
<1> DEFINE f == Entry(r).fd
           c == Current(r)
<1>0. f \in Fds /\ c \in Nat /\ Polled(r, c, f)
      /\ \A i \in Nat : Polled(r, i, f) => i = c
  BY AtCurrent, Zenon DEF Close
<1>1. /\ \A g \in Fds : Polled(r, c, g) <=> g = f
      /\ \A i \in Nat, g \in Fds : Polled(r, i, g)' <=> Polled(r, i, g) /\ i # c
  BY CloseMoves, Zenon
<1>2. due \in [Reactors -> SUBSET Fds]
      /\ rpc \in [Reactors -> {"poll", "drain", "take", "scan", "serve", "write", "remove"}]
  BY TypeParts DEF TypeInv, ReactorTypes
<1>3. due'[r] = due[r] \ {f} /\ polled' = polled /\ rpc[r] # "poll" /\ rpc'[r] # "poll"
  BY <1>2, Zenon DEF Close
<1> HIDE DEF f, c
<1> SUFFICES ASSUME NEW g \in Fds
             PROVE  g \in due'[r] <=>
                      rpc'[r] # "poll" /\ \E i \in Nat : Polled(r, i, g)' /\ polled'[r][i].ready
  BY Zenon DEF DueOf
<1>4. g \in due[r] <=> \E i \in Nat : Polled(r, i, g) /\ polled[r][i].ready
  BY <1>3, Zenon DEF DueOf
<1>5. CASE g = f
  <2>1. \A i \in Nat : ~Polled(r, i, g)'
    BY <1>0, <1>1, <1>5, Zenon
  <2> QED BY <1>3, <1>5, <2>1, Zenon
<1>6. CASE g # f
  <2>1. \A i \in Nat : Polled(r, i, g)' <=> Polled(r, i, g)
    BY <1>1, <1>6, Zenon
  <2> QED BY <1>3, <1>4, <1>6, <2>1, Zenon
<1> QED
  BY <1>5, <1>6, Zenon

\* New entries come after the pass and are owed nothing.
LEMMA DueTaken ==
  ASSUME TypeInv, NEW r \in Reactors, DueOf(r), Take(r)
  PROVE  DueOf(r)'
<1>1. PICK n \in Nat : TakenAt(r, n) /\ TakenMarks(r, n)
  BY TakeMoves, Zenon
<1>2. due' = due /\ rpc[r] # "poll"
  BY DEF Take
<1> SUFFICES ASSUME NEW g \in Fds
             PROVE  g \in due'[r] <=>
                      rpc'[r] # "poll" /\ \E i \in Nat : Polled(r, i, g)' /\ polled'[r][i].ready
  BY Zenon DEF DueOf
<1>3. g \in due[r] <=> \E i \in Nat : Polled(r, i, g) /\ polled[r][i].ready
  BY <1>2, Zenon DEF DueOf
<1>4. \A i \in Nat : Polled(r, i, g)' /\ polled'[r][i].ready <=> Polled(r, i, g) /\ polled[r][i].ready
  BY <1>1, Zenon DEF TakenAt, TakenMarks
<1>5. \A i \in Nat : Polled(r, i, g)' /\ polled'[r][i].ready => rpc'[r] # "poll"
  BY <1>1, Zenon DEF TakenMarks, AfterScan
<1> QED
  BY <1>2, <1>3, <1>4, <1>5, Zenon

\* The index stays, so that the entry which filled the gap is served as well.
LEMMA DueRemoved ==
  ASSUME TypeInv, NEW r \in Reactors, DueOf(r), Remove(r)
  PROVE  DueOf(r)'
<1>1. PICK c \in Nat, n \in Nat : RemovedAt(r, c, n) /\ RemovedMarks(r, c, n)
  BY RemoveMoves, Zenon
<1>2. due' = due /\ rpc[r] # "poll"
  BY Zenon DEF Remove
<1> SUFFICES ASSUME NEW g \in Fds
             PROVE  g \in due'[r] <=>
                      rpc'[r] # "poll" /\ \E i \in Nat : Polled(r, i, g)' /\ polled'[r][i].ready
  BY Zenon DEF DueOf
<1>3. g \in due[r] <=> \E i \in Nat : Polled(r, i, g) /\ polled[r][i].ready
  BY <1>2 DEF DueOf
<1>4. ASSUME NEW i \in Nat, Polled(r, i, g)', polled'[r][i].ready
      PROVE  rpc'[r] # "poll" /\ \E j \in Nat : Polled(r, j, g) /\ polled[r][j].ready
  <2>1. rpc'[r] # "poll"
    BY <1>1, <1>4, Zenon DEF RemovedMarks, AfterScan
  <2>2. Polled(r, IF i = c THEN n ELSE i, g) /\ polled[r][IF i = c THEN n ELSE i].ready
    BY <1>1, <1>4, Zenon DEF RemovedAt, RemovedMarks
  <2> QED BY <2>1, <2>2, Zenon
<1>5. ASSUME NEW j \in Nat, Polled(r, j, g), polled[r][j].ready
      PROVE  \E i \in Nat : Polled(r, i, g)' /\ polled'[r][i].ready
  <2>1. c <= n /\ j <= n /\ j # c /\ j >= c
    BY <1>1, <1>5, Zenon DEF RemovedAt, RemovedMarks
  <2>2. CASE j = n
    <3>1. c < n
      BY <2>1, <2>2, SMTT(20)
    <3>2. Polled(r, c, g)'
      BY <1>1, <1>5, <2>2, <3>1, Zenon DEF RemovedAt
    <3>3. polled'[r][c].ready
      BY <1>1, <1>5, <2>2, <3>2, SMTT(20) DEF RemovedMarks
    <3> QED BY <3>2, <3>3, Zenon
  <2>3. CASE j # n
    <3>1. j < n
      BY <2>1, <2>3, SMTT(20)
    <3>2. Polled(r, j, g)'
      BY <1>1, <1>5, <2>1, <3>1, Zenon DEF RemovedAt
    <3>3. polled'[r][j].ready
      BY <1>1, <1>5, <2>1, <3>2, Zenon DEF RemovedMarks
    <3> QED BY <3>2, <3>3, Zenon
  <2> QED BY <2>2, <2>3, Zenon
<1> QED
  BY <1>2, <1>3, <1>4, <1>5, Zenon

\* A step of one reactor leaves the passes of the others alone.
LEMMA DueReactor ==
  ASSUME TypeInv, OwnInv, DueInv, NEW r \in Reactors, ReactorStep(r)
  PROVE  DueInv'
<1>. USE DEF kernelVars, acceptVars
<1>t. /\ DueOf(r) /\ due \in [Reactors -> SUBSET Fds]
      /\ rpc \in [Reactors -> {"poll", "drain", "take", "scan", "serve", "write", "remove"}]
      /\ polled \in [Reactors -> Seq(Entries)]
  BY TypeParts, Zenon DEF TypeInv, DueInv, ReactorTypes, EntryTypes
<1>1. ASSUME NEW f \in Fds, WriteRaisesSignal(r, f) PROVE DueInv'
  <2>1. \A q \in Reactors : rpc'[q] = "poll" /\ due'[q] = {}
    BY <1>1, Zenon DEF WriteRaisesSignal
  <2> QED BY <2>1, Zenon DEF DueInv, DueOf
<1>2. ASSUME DueOf(r)',
             \A q \in Reactors \ {r} : polled'[q] = polled[q] /\ rpc'[q] = rpc[q] /\ due'[q] = due[q]
      PROVE  DueInv'
  <2>1. \A q \in Reactors \ {r} : DueOf(q)'
    BY <1>2, DueStays, Zenon DEF DueInv
  <2> QED BY <1>2, <2>1, Zenon DEF DueInv
<1>3. CASE Poll(r) \/ Take(r) \/ EndShortRead(r) \/ ReadNothing(r) \/ Close(r) \/ Remove(r)
  <2>1. DueOf(r)'
    BY <1>t, <1>3, DuePolled, DueTaken, DueServed, DueClosed, DueRemoved, Zenon
  <2>2. /\ \E s : polled' = [polled EXCEPT ![r] = s]
        /\ \E m : rpc' = [rpc EXCEPT ![r] = m]
        /\ \E d : due' = [due EXCEPT ![r] = d]
    <3>1. due' = due => due' = [due EXCEPT ![r] = due[r]]
      BY <1>t, Zenon
    <3>2. polled' = polled => polled' = [polled EXCEPT ![r] = polled[r]]
      BY <1>t
    <3>3. CASE Poll(r) \/ Close(r)
      BY <3>2, <3>3, Zenon DEF Poll, Close
    <3>4. CASE Take(r) \/ EndShortRead(r) \/ ReadNothing(r) \/ Remove(r)
      BY <3>1, <3>4, Zenon DEF Take, EndShortRead, ReadNothing, Remove, ScanFrom
    <3> QED BY <1>3, <3>3, <3>4, Zenon
  <2>3. \A q \in Reactors \ {r} : polled'[q] = polled[q] /\ rpc'[q] = rpc[q] /\ due'[q] = due[q]
    BY <1>t, <2>2, Zenon
  <2> QED BY <1>2, <2>1, <2>3, Zenon
<1>4. CASE \/ Drain(r) \/ ReadInput(r) \/ Handle(r) \/ RejectLine(r) \/ ReadAgain(r)
           \/ \E f \in Fds : WriteChunk(r, f) \/ WriteToLeaver(r, f) \/ WriteFails(r, f)
  <2>1. /\ polled' = polled /\ due' = due /\ rpc[r] \in {"drain", "scan", "serve", "write"}
        /\ \E m \in {"take", "scan", "serve", "write"} : rpc' = [rpc EXCEPT ![r] = m]
    BY <1>4, Zenon DEF Drain, ReadInput, Handle, RejectLine, ReadAgain, ParsedAll, WriteChunk,
                       WriteToLeaver, WriteFails, LeaveUnsent, Writing
  <2>2. rpc[r] \notin {"poll", "remove"} /\ rpc'[r] \notin {"poll", "remove"}
    BY <1>t, <2>1, Zenon
  <2>3. \A q \in Reactors \ {r} : rpc'[q] = rpc[q]
    BY <1>t, <2>1, Zenon
  <2>4. DueOf(r)'
    BY <1>t, <2>1, <2>2, DueMoves, Zenon
  <2> QED BY <1>2, <2>1, <2>3, <2>4, Zenon
<1> QED
  BY <1>1, <1>3, <1>4, Zenon DEF ReactorStep, Scan, Service

\* Every step preserves the invariant of the pass.
LEMMA DueStep == TypeInv /\ OwnInv /\ DueInv /\ [Next]_vars => DueInv'
<1> SUFFICES ASSUME TypeInv, OwnInv, DueInv, [Next]_vars PROVE DueInv'
  OBVIOUS
<1>1. CASE \/ \E f \in Fds : Client(f) \/ Accept(f)
           \/ Wake \/ StartAgain \/ UNCHANGED vars
  <2>1. UNCHANGED <<rpc, polled, due>>
    BY <1>1, OutsideTypes, Zenon
  <2>2. \A r \in Reactors : polled'[r] = polled[r] /\ rpc'[r] = rpc[r] /\ due'[r] = due[r]
    BY <2>1, Zenon
  <2> QED BY <2>2, DueStays, Zenon DEF DueInv
<1>2. CASE \E r \in Reactors : ReactorStep(r)
  BY <1>2, DueReactor, Zenon
<1> QED
  BY <1>1, <1>2, Zenon DEF Next, AcceptLoop

\* It implies that a pass ends with nothing owed.
LEMMA ScanServesIs == TypeInv /\ DueInv => ScanServesEachOnce
<1> SUFFICES ASSUME TypeInv, DueInv, NEW r \in Reactors
             PROVE  /\ rpc[r] = "poll" => due[r] = {}
                    /\ rpc[r] \in {"scan", "serve", "write"} =>
                         due[r] = {polled[r][i].fd : i \in Marked(r)}
  BY Zenon DEF ScanServesEachOnce
<1>1. due[r] \subseteq Fds /\ polled[r] \in Seq(Entries)
  BY TypeParts, Zenon DEF TypeInv, ReactorTypes, EntryTypes
<1>2. DueOf(r)
  BY DEF DueInv
<1>3. ASSUME rpc[r] \in {"scan", "serve", "write"}
      PROVE  due[r] = {polled[r][i].fd : i \in Marked(r)}
  <2>1. \A i, f : Polled(r, i, f) <=> i \in DOMAIN polled[r] /\ polled[r][i].fd = f
    BY <1>3, PolledIs, Zenon
  <2>2. rpc[r] # "poll"
    BY <1>3, Zenon
  <2>3. \A i \in DOMAIN polled[r] : i \in Nat /\ polled[r][i].fd \in Fds
    <3>1. \A i \in DOMAIN polled[r] : i \in Nat /\ polled[r][i] \in Entries
      BY <1>1
    <3> QED BY <3>1, Zenon DEF Entries
  <2>4. \A f \in Fds : f \in due[r] <=> \E i \in Marked(r) : polled[r][i].fd = f
    <3>1. TAKE f \in Fds
    <3>2. f \in due[r] <=> \E i \in Nat : Polled(r, i, f) /\ polled[r][i].ready
      BY <1>2, <2>2, Zenon DEF DueOf
    <3>3. (\E i \in Nat : Polled(r, i, f) /\ polled[r][i].ready) <=>
            \E i \in DOMAIN polled[r] : polled[r][i].fd = f /\ polled[r][i].ready
      BY <2>1, <2>3, Zenon
    <3> QED BY <3>2, <3>3, Zenon DEF Marked
  <2>5. \A i \in Marked(r) : polled[r][i].fd \in Fds
    BY <2>3, Zenon DEF Marked
  <2> QED BY <1>1, <2>4, <2>5
<1> QED
  BY <1>1, <1>2, <1>3, Zenon DEF DueOf

-----------------------------------------------------------------------------
(* Theorems.                                                               *)

Inv == TypeInv /\ OwnInv /\ AnswerInv /\ DueInv /\ NoLostWakeup

\* The inductive invariant of the server.
LEMMA Invariance == Spec => []Inv
<1>1. Init => Inv
  <2> SUFFICES ASSUME Init PROVE Inv
    BY Zenon
  <2>1. \A q \in Reactors : pending[q] = <<>> /\ polled[q] = <<>> /\ due[q] = {} /\ rpc[q] = "poll"
    BY Zenon DEF Init
  <2>2. \A q \in Reactors : \A i, g : ~Queued(q, i, g) /\ ~Polled(q, i, g)
    <3>1. \A q \in Reactors : \A i : i \notin DOMAIN pending[q] /\ i \notin DOMAIN polled[q]
      BY <2>1
    <3> QED BY <3>1, Zenon DEF Queued, Polled
  <2>3. /\ \A q \in Reactors, g \in Fds : parser[q][g] = -1
        /\ \A g \in Fds : inbox[g] = 0 /\ sent[g] = 0 /\ answered[g] = 0
    BY Zenon DEF Init, Nothing
  <2>4. AnswerInv
    BY <2>2, <2>3, Zenon DEF AnswerInv, ParserInv, CountInv
  <2>5. DueInv /\ NoLostWakeup
    BY <2>1, Zenon DEF DueInv, DueOf, NoLostWakeup
  <2> QED BY <2>4, <2>5, TypeInit, OwnInit DEF Inv
<1>2. Inv /\ [Next]_vars => Inv'
  BY TypeStep, OwnStep, AnswerStep, DueStep, NoLostWakeupStep, Zenon DEF Inv
<1> QED BY <1>1, <1>2, PTL DEF Spec

\* A connection that the accept loop queued is never left to a reactor that
\* sleeps in poll() without a byte in its pipe to wake it (NoLostWakeup).
THEOREM WakeupsAreNotLost == Spec => []NoLostWakeup
<1>1. Inv => NoLostWakeup
  BY Zenon DEF Inv
<1> QED BY <1>1, Invariance, PTL

\* Every open connection is in exactly one queue or poll set, and a closed one
\* in none, however often its descriptor number is given out (OwnedOnce); the
\* variables keep their types (TypeOK).
THEOREM ReactorsOwnDisjointly == Spec => [](OwnedOnce /\ TypeOK)
<1>1. Inv => OwnedOnce /\ TypeOK
  BY OwnedOnceIs, Zenon DEF Inv, TypeInv
<1> QED BY <1>1, Invariance, PTL

\* service_client() handles as many requests on a connection as it received there
\* in whole, and what waits in the parser and in the kernel makes up the rest: no
\* request is lost or handled twice, and none of a previous connection with the
\* same number is counted (AnswersOwnRequests).
THEOREM ConnectionsKeepApart == Spec => []AnswersOwnRequests
<1>1. Inv => AnswersOwnRequests
  BY AnswersOwnIs, Zenon DEF Inv
<1> QED BY <1>1, Invariance, PTL

\* The loop of run() serves every connection that poll() reported once, although
\* close_client() moves entries under it (ScanServesEachOnce).
THEOREM PassesAreComplete == Spec => []ScanServesEachOnce
<1>1. Inv => ScanServesEachOnce
  BY ScanServesIs, Zenon DEF Inv
<1> QED BY <1>1, Invariance, PTL

-----------------------------------------------------------------------------
(* What ConnectionsServed rests on.                                        *)

\* The reactor is in a poll() that does not return.
Asleep(r) == rpc[r] = "poll" /\ pipe[r] = 0 /\ ReadyFds(r) = {}

Has(r, f) ==
  \/ \E i \in DOMAIN pending[r] : pending[r][i] = f
  \/ \E i \in DOMAIN polled[r] : polled[r][i].fd = f

\* A connection with input, or whose client left, has a reactor, which does not
\* sleep unless the accept loop is about to write the byte that wakes it.
WorkIsNoticed ==
  \A f \in Fds : Readable(f) =>
    \E r \in Reactors : Has(r, f) /\ (Asleep(r) => apc = "wake" /\ next = r)

\* service_client() works on a descriptor that is open and has a parser, and
\* only a client that does not read holds up its write_all().
OnlyReadersBlock ==
  \A r \in Reactors : rpc[r] \in {"scan", "serve", "write"} =>
    LET f == Entry(r).fd IN
      /\ sock[f] # "free" /\ parser[r][f] # -1
      /\ rpc[r] = "write" => Blocked(r) \/ outbox[f] < SendBuffer \/ Gone(f)

LEMMA WorkIsNoticedIs == Inv => WorkIsNoticed
<1> SUFFICES ASSUME Inv, NEW f \in Fds, Readable(f)
             PROVE  \E r \in Reactors : Has(r, f) /\ (Asleep(r) => apc = "wake" /\ next = r)
  BY Zenon DEF WorkIsNoticed
<1>1. sock[f] # "free"
  <2>1. inbox[f] > 0 => inbox[f] # 0
    BY CountFactsOK DEF Inv, CountFacts
  <2>2. sock[f] = "free" => inbox[f] = 0
    BY Zenon DEF Inv, AnswerInv, CountInv
  <2> QED BY <2>1, <2>2, Zenon DEF Readable, Gone
<1>2. PICK r \in Reactors, i \in Nat : Queued(r, i, f) \/ Polled(r, i, f)
  BY <1>1, Zenon DEF Inv, OwnInv, OpenHeld
<1>3. CASE Queued(r, i, f)
  <2>1. i \in DOMAIN pending[r] /\ pending[r][i] = f
    BY <1>3, Zenon DEF Queued
  <2>2. pending[r] # <<>>
    BY <2>1
  <2>3. pipe[r] > 0 \/ (apc = "wake" /\ next = r) \/ rpc[r] = "take"
    BY <2>2, Zenon DEF Inv, NoLostWakeup
  <2>4. pipe[r] > 0 => pipe[r] # 0
    BY DEF Inv, TypeInv, TypeOK
  <2> QED BY <2>1, <2>3, <2>4, Zenon DEF Has, Asleep
<1>4. CASE Polled(r, i, f)
  <2>1. i \in DOMAIN polled[r] /\ polled[r][i].fd = f
    BY <1>4, Zenon DEF Polled
  <2>2. f \in ReadyFds(r)
    BY <2>1, Zenon DEF ReadyFds
  <2> QED BY <2>1, <2>2, Zenon DEF Has, Asleep
<1> QED BY <1>2, <1>3, <1>4, Zenon

LEMMA OnlyReadersBlockIs == Inv => OnlyReadersBlock
<1> SUFFICES ASSUME Inv, NEW r \in Reactors, rpc[r] \in {"scan", "serve", "write"}
             PROVE  /\ sock[Entry(r).fd] # "free" /\ parser[r][Entry(r).fd] # -1
                    /\ rpc[r] = "write" => \/ Blocked(r) \/ outbox[Entry(r).fd] < SendBuffer
                                           \/ Gone(Entry(r).fd)
  BY Zenon DEF OnlyReadersBlock
<1>1. /\ Entry(r).fd \in Fds /\ Current(r) \in Nat /\ Polled(r, Current(r), Entry(r).fd)
  BY AtCurrent, Zenon DEF Inv
<1>2. sock[Entry(r).fd] # "free"
  BY <1>1, Zenon DEF Inv, OwnInv, FreeUnheld
<1>3. parser[r][Entry(r).fd] # -1
  BY <1>1, Zenon DEF Inv, AnswerInv, ParserInv
<1>4. CASE sock[Entry(r).fd] = "open" /\ rpc[r] = "write"
  <2>1. outbox[Entry(r).fd] \in 0 .. SendBuffer
    BY <1>1, Zenon DEF Inv, TypeInv, TypeOK
  <2>2. outbox[Entry(r).fd] = SendBuffer \/ outbox[Entry(r).fd] < SendBuffer
    BY <2>1, ServerAssumption
  <2> QED BY <1>1, <1>2, <1>3, <1>4, <2>2, Zenon DEF Blocked, Writing
<1>5. sock[Entry(r).fd] \in {"free", "open", "eof", "reset"}
  BY <1>1, Zenon DEF Inv, TypeInv, TypeOK
<1> QED BY <1>2, <1>3, <1>4, <1>5, Zenon DEF Gone

\* A reactor that has left poll(), and does not have a line that is too long in
\* hand, goes on to the next part of its pass, or is
\* done with one of the connections that are due, or serves one: it answers a
\* request, of which a connection has a bounded number, writes a part of the
\* response, reads what there is, or looks for more.  Nothing of this is undone.
PassAdvances ==
  \A r \in Reactors : ReactorStep(r) /\ rpc[r] # "poll" /\ ~Captured(r) /\ up' =>
    LET f == Entry(r).fd IN
      \/ due'[r] = due[r] /\ \/ rpc[r] = "drain" /\ rpc'[r] = "take"
                             \/ rpc[r] \in {"take", "remove"} /\ rpc'[r] \in {"scan", "poll"}
      \/ f \in due[r] /\ due'[r] = due[r] \ {f}
      \/ /\ due'[r] = due[r] /\ polled'[r] = polled[r]
         /\ \/ answered'[f] = answered[f] + 1
            \/ UNCHANGED answered /\ unsent'[r] < unsent[r]
            \/ UNCHANGED <<answered, unsent>> /\ inbox'[f] < inbox[f]
            \/ UNCHANGED <<answered, unsent, inbox>> /\ rpc[r] = "serve" /\ rpc'[r] = "scan"

LEMMA PassStep ==
  ASSUME Inv, NEW r \in Reactors, ReactorStep(r), rpc[r] # "poll", ~Captured(r), up'
  PROVE  LET f == Entry(r).fd IN
           \/ due'[r] = due[r] /\ \/ rpc[r] = "drain" /\ rpc'[r] = "take"
                                  \/ rpc[r] \in {"take", "remove"} /\ rpc'[r] \in {"scan", "poll"}
           \/ f \in due[r] /\ due'[r] = due[r] \ {f}
           \/ /\ due'[r] = due[r] /\ polled'[r] = polled[r]
              /\ \/ answered'[f] = answered[f] + 1
                 \/ UNCHANGED answered /\ unsent'[r] < unsent[r]
                 \/ UNCHANGED <<answered, unsent>> /\ inbox'[f] < inbox[f]
                 \/ UNCHANGED <<answered, unsent, inbox>> /\ rpc[r] = "serve" /\ rpc'[r] = "scan"
<1> DEFINE f == Entry(r).fd
<1>. USE DEF kernelVars
<1>0. /\ rpc \in [Reactors -> {"poll", "drain", "take", "scan", "serve", "write", "remove"}]
      /\ due \in [Reactors -> SUBSET Fds] /\ inbox \in [Fds -> Nat]
      /\ answered \in [Fds -> Nat] /\ unsent \in [Reactors -> 0 .. ResponseSize]
  BY Zenon DEF Inv, TypeInv, TypeOK
<1>1. ASSUME rpc[r] \in {"scan", "serve", "write"} PROVE f \in Fds /\ f \in due[r]
  <2>1. Marked(r) # {} /\ TypeOK
    BY <1>1, Zenon DEF Inv, TypeInv, ScanInv, AtEntry
  <2>2. Current(r) \in Marked(r) /\ f = polled[r][Current(r)].fd /\ f \in Fds
    BY <2>1, CurrentIs, Zenon
  <2>3. due[r] = {polled[r][i].fd : i \in Marked(r)}
    BY <1>1, ScanServesIs, Zenon DEF Inv, ScanServesEachOnce
  <2> QED BY <2>2, <2>3, Zenon
<1>2. CASE Drain(r) \/ Take(r) \/ Remove(r)
  <2>1. /\ due' = due
        /\ \/ rpc[r] = "drain" /\ rpc' = [rpc EXCEPT ![r] = "take"]
           \/ /\ rpc[r] \in {"take", "remove"}
              /\ \E m \in {"scan", "poll"} : rpc' = [rpc EXCEPT ![r] = m]
    BY <1>2, Zenon DEF Drain, Take, Remove, ScanFrom
  <2> QED BY <1>0, <2>1, Zenon
<1>3. CASE EndShortRead(r) \/ ReadNothing(r) \/ Close(r)
  <2>1. rpc[r] \in {"scan", "serve", "write"} /\ due' = [due EXCEPT ![r] = @ \ {f}]
    BY <1>3, Zenon DEF EndShortRead, ParsedAll, ReadNothing, Close
  <2> QED BY <1>0, <1>1, <2>1, Zenon
<1>4. CASE ReadInput(r)
  <2>1. /\ rpc[r] = "scan" /\ inbox[f] > 0 /\ inbox' = [inbox EXCEPT ![f] = 0]
        /\ UNCHANGED <<due, polled, answered, unsent>>
    BY <1>4, Zenon DEF ReadInput
  <2>2. f \in Fds
    BY <1>1, <2>1, Zenon
  <2>3. inbox'[f] = 0
    BY <1>0, <2>1, <2>2, Zenon
  <2>4. inbox'[f] < inbox[f]
    BY <2>1, <2>3, Zenon
  <2> QED BY <2>1, <2>4, Zenon
<1>5. CASE Handle(r)
  <2>1. /\ rpc[r] = "serve" /\ answered' = [answered EXCEPT ![f] = @ + 1]
        /\ UNCHANGED <<due, polled>>
    BY <1>5, Zenon DEF Handle
  <2>2. f \in Fds
    BY <1>1, <2>1, Zenon
  <2>3. answered'[f] = answered[f] + 1
    BY <1>0, <2>1, <2>2, Zenon
  <2> QED BY <2>1, <2>3, Zenon
<1>6. CASE ReadAgain(r)
  <2>1. /\ UNCHANGED <<due, polled, answered, unsent, inbox>>
        /\ rpc[r] = "serve" /\ rpc' = [rpc EXCEPT ![r] = "scan"]
    BY <1>6, Zenon DEF ReadAgain, ParsedAll
  <2> QED BY <1>0, <2>1, Zenon
<1>7. CASE \E g \in Fds : WriteChunk(r, g) \/ WriteToLeaver(r, g) \/ WriteFails(r, g)
  <2>1. /\ rpc[r] = "write" /\ UNCHANGED <<due, polled, answered>>
        /\ unsent' = [unsent EXCEPT ![r] = unsent[r] - 1] \/ unsent' = [unsent EXCEPT ![r] = 0]
    BY <1>7, Zenon DEF WriteChunk, WriteToLeaver, WriteFails, LeaveUnsent, Writing
  <2>2. unsent[r] > 0 /\ unsent[r] \in Nat
    BY <1>0, <2>1, ServerAssumption DEF Inv, TypeInv, ScanInv
  <2>3. unsent'[r] = unsent[r] - 1 \/ unsent'[r] = 0
    BY <1>0, <2>1, Zenon
  <2>4. unsent'[r] < unsent[r]
    BY <2>2, <2>3
  <2> QED BY <2>1, <2>4, Zenon
<1>8. ASSUME \E g \in Fds : WriteRaisesSignal(r, g) PROVE FALSE
  BY <1>8, Zenon DEF WriteRaisesSignal
<1>9. ASSUME Poll(r) PROVE FALSE
  BY <1>9, Zenon DEF Poll
<1>10. ASSUME RejectLine(r) PROVE FALSE
  BY <1>10, Zenon DEF RejectLine, Captured
<1> HIDE DEF f
<1> QED BY <1>2, <1>3, <1>4, <1>5, <1>6, <1>7, <1>8, <1>9, <1>10, Zenon
        DEF ReactorStep, Scan, Service, f

\* ConnectionsServed, but for fairness: work is never left to a reactor that
\* sleeps, a reactor that does not sleep has a next step, on a connection that
\* it may still touch, unless a client refuses to read, and each of its steps
\* brings it closer to the end of its pass and of the connection it serves, unless
\* it has met a line that is too long.
THEOREM WorkIsTakenUp ==
  Spec => [](WorkIsNoticed /\ OnlyReadersBlock) /\ [][PassAdvances]_vars
<1>1. Inv => WorkIsNoticed /\ OnlyReadersBlock
  BY WorkIsNoticedIs, OnlyReadersBlockIs, Zenon
<1>2. Inv /\ [Next]_vars => [PassAdvances]_vars
  BY PassStep, Zenon DEF PassAdvances
<1> QED BY <1>1, <1>2, Invariance, PTL DEF Spec

\* A reactor that has met a line that is too long never gets away from it.
CaptureLasts == \A r \in Reactors : Captured(r) /\ up' => Captured(r)'

LEMMA CaptureStep ==
  ASSUME Inv, [Next]_vars, NEW r \in Reactors, Captured(r), up'
  PROVE  Captured(r)'
<1> DEFINE f == Entry(r).fd
<1>. USE DEF kernelVars, acceptVars, reactorVars
<1>0. /\ rpc \in [Reactors -> {"poll", "drain", "take", "scan", "serve", "write", "remove"}]
      /\ inbox \in [Fds -> Nat] /\ sent \in [Fds -> Nat]
      /\ polled \in [Reactors -> Seq(Entries)] /\ parser \in [Reactors -> [Fds -> Nat \cup {-1}]]
  BY Zenon DEF Inv, TypeInv, TypeOK, Entries
<1>1. /\ rpc[r] \in {"serve", "write"} /\ f \in LongLines /\ sent[f] = MaxHalves[f]
      /\ inbox[f] = 0 /\ parser[r][f] = 1
  BY Zenon DEF Captured, LineTooLong
<1>2. /\ f \in Fds /\ Current(r) \in Nat /\ Polled(r, Current(r), f)
      /\ \A q \in Reactors, i \in Nat : Polled(q, i, f) => q = r
  BY <1>1, AtCurrent, Zenon DEF Inv
<1>3. ASSUME rpc'[r] \in {"serve", "write"}, polled'[r] = polled[r], sent'[f] = sent[f],
             inbox'[f] = inbox[f], parser'[r][f] = parser[r][f]
      PROVE  Captured(r)'
  <2>1. Entry(r)' = Entry(r)
    BY <1>3, Zenon DEF Entry, Current, Marked
  <2> QED BY <1>1, <1>3, <2>1, Zenon DEF Captured, LineTooLong
<1>4. ASSUME NEW g \in Fds, Client(g) PROVE Captured(r)'
  <2>1. CASE Receive(g) \/ Hangup(g)
    BY <1>1, <1>3, <2>1, Zenon DEF Receive, Hangup
  <2>2. CASE Send(g)
    <3>1. sent[g] < MaxHalves[g] /\ sent' = [sent EXCEPT ![g] = @ + 1]
          /\ inbox' = [inbox EXCEPT ![g] = @ + 1] /\ UNCHANGED <<rpc, polled, parser>>
      BY <2>2, Zenon DEF Send
    <3>2. MaxHalves[f] \in Nat
      BY <1>2, ServerAssumption
    <3>3. ~(sent[f] < MaxHalves[f])
      BY <1>1, <3>2
    <3>4. f # g
      BY <3>1, <3>3, Zenon
    <3>5. sent'[f] = sent[f] /\ inbox'[f] = inbox[f]
      BY <1>0, <1>2, <3>1, <3>4, Zenon
    <3> QED BY <1>1, <1>3, <3>1, <3>5, Zenon
  <2> QED BY <1>4, <2>1, <2>2, Zenon DEF Client
<1>5. CASE (\E g \in Fds : Accept(g)) \/ Wake \/ StartAgain \/ UNCHANGED vars
  BY <1>1, <1>3, <1>5, Zenon DEF Accept, Wake, StartAgain, vars
<1>6. CASE ReactorStep(r)
  <2>1. CASE RejectLine(r) \/ \E g \in Fds : WriteChunk(r, g) \/ WriteToLeaver(r, g) \/ WriteFails(r, g)
    <3>1. /\ UNCHANGED <<polled, sent, inbox, parser>>
          /\ \E m \in {"serve", "write"} : rpc' = [rpc EXCEPT ![r] = m]
      BY <2>1, Zenon DEF RejectLine, WriteChunk, WriteToLeaver, WriteFails, LeaveUnsent
    <3>2. rpc'[r] \in {"serve", "write"}
      BY <1>0, <3>1, Zenon
    <3> QED BY <1>3, <3>1, <3>2, Zenon
  <2>2. ASSUME Handle(r) PROVE FALSE
    <3>1. ~(parser[r][f] >= 2)
      BY <1>1
    <3> QED BY <2>2, <3>1, Zenon DEF Handle
  <2>3. ASSUME EndShortRead(r) \/ ReadAgain(r) PROVE FALSE
    BY <1>1, <2>3, Zenon DEF EndShortRead, ReadAgain, ParsedAll, LineTooLong
  <2>4. ASSUME \/ Poll(r) \/ Drain(r) \/ Take(r) \/ ReadInput(r) \/ ReadNothing(r) \/ Close(r)
               \/ Remove(r)
        PROVE  FALSE
    BY <1>1, <2>4, Zenon DEF Poll, Drain, Take, ReadInput, ReadNothing, Close, Remove
  <2>5. ASSUME \E g \in Fds : WriteRaisesSignal(r, g) PROVE FALSE
    BY <2>5, Zenon DEF WriteRaisesSignal
  <2> HIDE DEF f
  <2> QED BY <1>6, <2>1, <2>2, <2>3, <2>4, <2>5, Zenon DEF ReactorStep, Scan, Service
<1>7. ASSUME NEW q \in Reactors, q # r, ReactorStep(q) PROVE Captured(r)'
  <2>1. ASSUME rpc[q] = "scan" PROVE Entry(q).fd # f
    <3>1. Current(q) \in Nat /\ Polled(q, Current(q), Entry(q).fd)
      BY <2>1, AtCurrent, Zenon DEF Inv
    <3> QED BY <1>2, <1>7, <3>1, Zenon
  <2>2. CASE Poll(q) \/ Take(q) \/ EndShortRead(q) \/ ReadNothing(q) \/ Remove(q)
    <3>1. /\ UNCHANGED <<sent, inbox>> /\ \E m : rpc' = [rpc EXCEPT ![q] = m]
          /\ \E x : polled' = [polled EXCEPT ![q] = x]
          /\ parser' = parser \/ \E x : parser' = [parser EXCEPT ![q] = x]
      BY <2>2, Zenon DEF Poll, Take, EndShortRead, ReadNothing, Remove, ScanFrom, AddParsers
    <3>2. rpc'[r] = rpc[r] /\ polled'[r] = polled[r] /\ parser'[r] = parser[r]
      BY <1>0, <1>7, <3>1, Zenon
    <3> QED BY <1>1, <1>3, <3>1, <3>2, Zenon
  <2>3. CASE \/ Drain(q) \/ RejectLine(q) \/ ReadAgain(q)
             \/ \E g \in Fds : WriteChunk(q, g) \/ WriteToLeaver(q, g) \/ WriteFails(q, g)
    <3>1. UNCHANGED <<sent, inbox, polled, parser>> /\ \E m : rpc' = [rpc EXCEPT ![q] = m]
      BY <2>3, Zenon DEF Drain, RejectLine, ReadAgain, WriteChunk, WriteToLeaver, WriteFails,
                         LeaveUnsent
    <3>2. rpc'[r] = rpc[r]
      BY <1>0, <1>7, <3>1, Zenon
    <3> QED BY <1>1, <1>3, <3>1, <3>2, Zenon
  <2>4. CASE ReadInput(q) \/ Handle(q) \/ Close(q)
    <3>1. /\ polled' = polled /\ \E m : rpc' = [rpc EXCEPT ![q] = m]
          /\ \E x : parser' = [parser EXCEPT ![q][Entry(q).fd] = x]
          /\ \/ UNCHANGED <<sent, inbox>>
             \/ rpc[q] = "scan" /\ UNCHANGED sent /\ inbox' = [inbox EXCEPT ![Entry(q).fd] = 0]
             \/ rpc[q] = "scan" /\ UNCHANGED inbox /\ sent' = [sent EXCEPT ![Entry(q).fd] = 0]
      BY <2>4, Zenon DEF ReadInput, Handle, Close
    <3>2. rpc'[r] = rpc[r] /\ parser'[r] = parser[r]
      BY <1>0, <1>7, <3>1, Zenon
    <3>3. sent'[f] = sent[f] /\ inbox'[f] = inbox[f]
      BY <1>0, <1>2, <2>1, <3>1, Zenon
    <3> QED BY <1>1, <1>3, <3>1, <3>2, <3>3, Zenon
  <2>5. ASSUME \E g \in Fds : WriteRaisesSignal(q, g) PROVE FALSE
    BY <2>5, Zenon DEF WriteRaisesSignal
  <2> HIDE DEF f
  <2> QED BY <1>7, <2>2, <2>3, <2>4, <2>5, Zenon DEF ReactorStep, Scan, Service
<1> HIDE DEF f
<1> QED BY <1>4, <1>5, <1>6, <1>7, Zenon DEF Next, AcceptLoop

\* A line longer than kMaxCommandLineLen keeps its reactor until the process
\* ends: neither its client, which may read, write or leave, nor the accept loop
\* nor another reactor takes service_client() out of its loop, and Captured is
\* the exception that ConnectionsServed and WorkIsTakenUp have to make.
THEOREM LongLineCaptures == Spec => [][CaptureLasts]_vars
<1>1. Inv /\ [Next]_vars => [CaptureLasts]_vars
  BY CaptureStep, Zenon DEF CaptureLasts
<1> QED BY <1>1, Invariance, PTL DEF Spec
=============================================================================
