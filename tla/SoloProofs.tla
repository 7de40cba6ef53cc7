------------------------------ MODULE SoloProofs ------------------------------
(* Theorems about Session as a cursor uses it: one task, every call of         *)
(* asynch/connection.py, cancelled pings and connects included, for every      *)
(* bound.  What is on the wire besides the task's own statement is never made  *)
(* a result of.                                                                *)
EXTENDS Cursor, ConversationProofs

\* The part that a step of the task has to preserve; the rest follows from Effects.
Posture == Undivided /\ CallsMatch /\ SocketKept /\ StreamsMatch /\ NoSocketLeak

SoloKept == TypeOK /\ Posture /\ DeadIsSilent /\ Line

-----------------------------------------------------------------------------
(* One task alone *)

LEMMA OnlyMe ==
  /\ Me \in Tasks /\ \A t \in Tasks : t = Me
  /\ Quiet(Me) /\ \A s : ~Contended(s, Me)
BY CursorAssumption DEF Quiet, Contended

\* What the parts of the invariant say where a step begins.
LEMMA SoloFacts ==
  ASSUME TypeOK, Posture
  PROVE  /\ ReadersHaveSockets
         /\ Connected => socket \in Sockets
         /\ 0 \in 0..MaxQueries
         /\ At \in Waits => on[Me] = socket /\ socket \in Sockets
         /\ ~(At \in {"closing", "reopening"}) => (Writable <=> Connected)
<1>1. socket \in 0..MaxSockets /\ 0 \in 0..MaxQueries
  BY SessionAssumption DEF TypeOK
<1>2. Connected => socket \in Sockets
  BY <1>1, SessionAssumption DEF Connected, Sockets
<1>3. At \in Waits => on[Me] = socket /\ socket # 0
  BY DEF Posture, SocketKept
<1>4. ReadersHaveSockets
  BY <1>2, <1>3, OnlyMe DEF ReadersHaveSockets, Connected, At
<1>5. ~(At \in {"closing", "reopening"}) => (Writable <=> Connected)
  BY DEF Posture, SocketKept, Writable, Connected, At
<1> QED BY <1>1, <1>2, <1>3, <1>4, <1>5 DEF Connected

LEMMA SoloSettle ==
  ASSUME TypeOK, Undivided, NEW place, Settle(Me, place)
  PROVE  At' = place /\ waiters' = <<>>
BY OnlyMe DEF TypeOK, Undivided, Settle, At

\* The ways out of a call: the task leaves it, or closes the socket first.
Leaves ==
  At' = "idle" /\ waiters' = <<>> /\ UNCHANGED <<link, sent, serving>>

ShutsAt(places) ==
  Connected /\ Shut /\ At' \in places /\ waiters' = <<>>

LEMMA SoloEnds ==
  ASSUME TypeOK, Undivided
  PROVE  /\ Leave(Me) => Leaves
         /\ Abort(Me) \/ CloseFirst(Me) =>
              ShutsAt({"closing"}) \/ (~Connected /\ Leaves)
         /\ Fail(Me) => ShutsAt({"closing"})
                        \/ ((~Connected \/ call[Me] = "connect") /\ Leaves)
         /\ Redial(Me) =>
              \/ ShutsAt({"reopening"})
              \/ /\ ~Connected /\ At' = "dialing" /\ waiters' = <<>>
                 /\ UNCHANGED <<link, sent, serving>>
<1>1. Leave(Me) => Leaves
  BY SoloSettle DEF Leave, Leaves
<1>2. Abort(Me) => ShutsAt({"closing"}) \/ (~Connected /\ Leaves)
  BY <1>1, SoloSettle DEF Abort, ShutsAt
<1>3. CloseFirst(Me) => ShutsAt({"closing"}) \/ (~Connected /\ Leaves)
  BY <1>1, OnlyMe DEF CloseFirst, ShutsAt, TypeOK, Undivided, lock, At
<1>4. Redial(Me) =>
        \/ ShutsAt({"reopening"})
        \/ /\ ~Connected /\ At' = "dialing" /\ waiters' = <<>>
           /\ UNCHANGED <<link, sent, serving>>
  BY OnlyMe DEF Redial, ShutsAt, TypeOK, Undivided, At
<1> QED BY <1>1, <1>2, <1>3, <1>4 DEF Fail

-----------------------------------------------------------------------------
(* Lines *)

\* A wire of which packets were taken.
Shrunk(w, v) == v = w \/ v = <<>> \/ (w # <<>> /\ v = Tail(w))

LEMMA ShrunkFacts ==
  ASSUME NEW S, NEW w \in Seq(S), NEW v, Shrunk(w, v)
  PROVE  /\ v \in Seq(S)
         /\ \A i \in DOMAIN v : \E j \in DOMAIN w :
              v[i] = w[j] /\ (j = Len(w) => i = Len(v))
<1>1. CASE v = w
  BY <1>1
<1>2. CASE v = <<>>
  BY <1>2
<1>3. CASE w # <<>> /\ v = Tail(w)
  <2>1. /\ v \in Seq(S) /\ Len(v) = Len(w) - 1
        /\ \A i \in 1..Len(v) : v[i] = w[i + 1]
    BY <1>3, HeadTailProperties
  <2>2. DOMAIN v = 1..Len(v) /\ DOMAIN w = 1..Len(w) /\ Len(w) \in Nat
    BY <2>1, LenProperties
  <2>3. ASSUME NEW i \in DOMAIN v
        PROVE  \E j \in DOMAIN w : v[i] = w[j] /\ (j = Len(w) => i = Len(v))
    <3>1. i + 1 \in DOMAIN w /\ v[i] = w[i + 1] /\ (i + 1 = Len(w) => i = Len(v))
      BY <2>1, <2>2, <2>3
    <3> QED BY <3>1
  <2> QED BY <2>1, <2>3
<1> QED BY <1>1, <1>2, <1>3 DEF Shrunk

\* Taking packets leaves a line what it is.
LEMMA LinesShrink ==
  ASSUME NEW c, NEW d, NEW q, c.wire \in Seq(Packets), Shrunk(c.wire, d.wire),
         d.sent = c.sent, d.serving = c.serving
  PROVE  /\ Strays(c) => Strays(d)
         /\ QueryLine(c, q) => QueryLine(d, q)
<1>1. \A i \in DOMAIN d.wire : \E j \in DOMAIN c.wire :
        d.wire[i] = c.wire[j] /\ (j = Len(c.wire) => i = Len(d.wire))
  BY ShrunkFacts
<1>2. Strays(c) => Strays(d)
  BY <1>1 DEF Strays
<1>3. QueryLine(c, q) => QueryLine(d, q)
  BY <1>1 DEF QueryLine, Asked
<1> QED BY <1>2, <1>3

\* A request is added.
LEMMA LinesAsk ==
  ASSUME NEW c, NEW d, NEW m \in Requests, c.sent \in Seq(Requests),
         c.wire \in Seq(Packets), Shrunk(c.wire, d.wire),
         d.serving = c.serving, d.sent = Append(c.sent, m), Strays(c)
  PROVE  /\ Asked(d, m)
         /\ StrayRequest(m) => Strays(d)
<1>1. \A i \in DOMAIN d.wire : Stray(d.wire[i])
  BY ShrunkFacts DEF Strays
<1>2. /\ Len(d.sent) = Len(c.sent) + 1 /\ d.sent[Len(d.sent)] = m
      /\ DOMAIN d.sent = 1..Len(d.sent) /\ d.sent # <<>>
      /\ \A i \in DOMAIN d.sent : i # Len(d.sent) => StrayRequest(d.sent[i])
  <2>1. /\ d.sent \in Seq(Requests) /\ Len(d.sent) = Len(c.sent) + 1
        /\ \A i \in 1..Len(c.sent) : d.sent[i] = c.sent[i]
        /\ d.sent[Len(c.sent) + 1] = m
    BY AppendProperties
  <2>2. /\ DOMAIN d.sent = 1..Len(d.sent) /\ DOMAIN c.sent = 1..Len(c.sent)
        /\ Len(c.sent) \in Nat
    BY <2>1, LenProperties
  <2>3. d.sent # <<>>
    BY <2>1, <2>2, EmptySeq
  <2> QED BY <2>1, <2>2, <2>3 DEF Strays
<1> QED BY <1>1, <1>2 DEF Asked, Strays

\* The server takes the first of several requests.
LEMMA RestOfRequests ==
  ASSUME NEW r \in Seq(Requests), r # <<>>
  PROVE  /\ Head(r) = r[1] /\ 1 \in DOMAIN r
         /\ \A i \in DOMAIN Tail(r) : Tail(r)[i] = r[i + 1] /\ i + 1 \in DOMAIN r
         /\ Len(r) # 1 =>
              /\ Tail(r) # <<>> /\ Tail(r)[Len(Tail(r))] = r[Len(r)]
              /\ \A i \in DOMAIN Tail(r) : i + 1 = Len(r) <=> i = Len(Tail(r))
         /\ Len(r) = 1 => Tail(r) = <<>>
<1>1. /\ Tail(r) \in Seq(Requests) /\ Len(Tail(r)) = Len(r) - 1
      /\ \A i \in 1..Len(Tail(r)) : Tail(r)[i] = r[i + 1]
      /\ Head(r) = r[1]
  BY HeadTailProperties
<1>2. /\ DOMAIN r = 1..Len(r) /\ Len(r) \in Nat /\ Len(r) # 0
      /\ DOMAIN Tail(r) = 1..Len(Tail(r))
  BY <1>1, LenProperties, EmptySeq
<1>3. Len(Tail(r)) = 0 <=> Tail(r) = <<>>
  BY <1>1, EmptySeq
<1>4. \A i \in DOMAIN Tail(r) : Tail(r)[i] = r[i + 1] /\ i + 1 \in DOMAIN r
  BY <1>1, <1>2
<1>5. ASSUME Len(r) # 1
      PROVE  /\ Tail(r) # <<>> /\ Tail(r)[Len(Tail(r))] = r[Len(r)]
             /\ \A i \in DOMAIN Tail(r) : i + 1 = Len(r) <=> i = Len(Tail(r))
  <2>1. Len(Tail(r)) \in 1..Len(Tail(r)) /\ Len(Tail(r)) + 1 = Len(r)
    BY <1>1, <1>2, <1>5
  <2> QED BY <1>1, <1>2, <1>3, <2>1
<1> QED BY <1>1, <1>2, <1>3, <1>4, <1>5

\* A packet is added.
LEMMA LastPacket ==
  ASSUME NEW w \in Seq(Packets), NEW p \in Packets, NEW v, v = Append(w, p)
  PROVE  /\ Len(v) = Len(w) + 1 /\ v[Len(v)] = p
         /\ DOMAIN w = 1..Len(w) /\ Len(w) \in Nat /\ DOMAIN v = 1..Len(v)
         /\ \A i \in DOMAIN v : i = Len(v) \/ (i \in DOMAIN w /\ v[i] = w[i])
<1>1. /\ v \in Seq(Packets) /\ Len(v) = Len(w) + 1
      /\ \A i \in 1..Len(w) : v[i] = w[i]
      /\ v[Len(w) + 1] = p
  BY AppendProperties
<1>2. /\ DOMAIN w = 1..Len(w) /\ Len(w) \in Nat /\ DOMAIN v = 1..Len(v)
  BY <1>1, LenProperties
<1> QED BY <1>1, <1>2

\* The server works on the line.  On a stray request it answers with a stray packet.
GrowsBy(c, d, packets) ==
  d.wire = c.wire \/ \E p \in packets : d.wire = Append(c.wire, p)

StrayPackets == {p \in Packets : Stray(p)}

LEMMA Grown ==
  ASSUME NEW c, NEW d, NEW packets \in SUBSET Packets, c.wire \in Seq(Packets),
         GrowsBy(c, d, packets)
  PROVE  \A i \in DOMAIN d.wire :
           \/ i \in DOMAIN c.wire /\ d.wire[i] = c.wire[i]
           \/ i = Len(d.wire) /\ d.wire[i] \in packets
<1>1. CASE d.wire = c.wire
  BY <1>1
<1>2. ASSUME NEW p \in packets, d.wire = Append(c.wire, p)
      PROVE  \A i \in DOMAIN d.wire :
               \/ i \in DOMAIN c.wire /\ d.wire[i] = c.wire[i]
               \/ i = Len(d.wire) /\ d.wire[i] \in packets
  <2>1. p \in Packets
    OBVIOUS
  <2> QED BY <1>2, <2>1, LastPacket
<1> QED BY <1>1, <1>2 DEF GrowsBy

LEMMA StrayMessages ==
  ASSUME NEW q \in 0..MaxQueries
  PROVE  /\ \A k \in {"hello", "pong", "exception"} : Message(k, q) \in StrayPackets
         /\ \A k \in {"hello", "pong", "exception"} : Message(k, 0) \in StrayPackets
         /\ \A k \in {"data", "end"} :
              Message(k, q) \in Packets /\ ~Stray(Message(k, q))
         /\ \A k \in {"query", "insert", "rows"} :
              Message(k, q) \in Requests /\ ~StrayRequest(Message(k, q))
         /\ StrayRequest(Message("ping", 0)) /\ Message("ping", 0) \in Requests
         /\ StrayPackets \in SUBSET Packets
<1>1. 0 \in 0..MaxQueries
  BY SessionAssumption
<1>2. {"hello", "pong", "exception", "data", "end"} \subseteq Kinds
  BY DEF Kinds
<1> QED BY <1>1, <1>2, MessageTypes, Messages DEF StrayPackets, Stray, StrayRequest

LEMMA RequestsHave == \A r \in Requests : r.of \in 0..MaxQueries
BY DEF Requests

LEMMA StrayServed ==
  ASSUME NEW c, NEW d, Served(c, d), c.sent \in Seq(Requests), c.sent # <<>>,
         StrayRequest(Head(c.sent)), c.serving = Nothing
  PROVE  /\ d.serving = Nothing
         /\ (d.link = "up" /\ d.sent = Tail(c.sent)) \/ d.sent = <<>>
         /\ GrowsBy(c, d, StrayPackets)
<1>1. Head(c.sent) \in Requests
  BY HeadTailProperties
<1>2. Head(c.sent).of \in 0..MaxQueries
  BY <1>1, RequestsHave
<1>3. Message("exception", Head(c.sent).of) \in StrayPackets
  BY <1>2, StrayMessages
<1>4. \A k \in {"hello", "pong"} : Message(k, 0) \in StrayPackets
  BY <1>2, StrayMessages
<1>5. c.serving.kind = "none"
  BY Messages
<1> QED BY <1>3, <1>4, <1>5 DEF Served, StrayRequest, GrowsBy

LEMMA StraysServed ==
  ASSUME NEW c, NEW d, Served(c, d), c.sent \in Seq(Requests),
         c.wire \in Seq(Packets), Strays(c)
  PROVE  Strays(d)
<1>1. CASE c.sent = <<>>
  <2>1. d.sent = <<>> /\ d.serving = Nothing /\ d.wire = c.wire
    BY <1>1, ServedLast, Messages DEF Strays
  <2> QED BY <2>1 DEF Strays
<1>2. CASE c.sent # <<>>
  <2>1. StrayRequest(Head(c.sent))
    BY <1>2, RestOfRequests DEF Strays
  <2>2. /\ d.serving = Nothing
        /\ (d.link = "up" /\ d.sent = Tail(c.sent)) \/ d.sent = <<>>
        /\ GrowsBy(c, d, StrayPackets)
    BY <1>2, <2>1, StrayServed DEF Strays
  <2>3. \A i \in DOMAIN d.sent : StrayRequest(d.sent[i])
    <3>1. CASE d.sent = <<>>
      BY <3>1
    <3>2. CASE d.sent = Tail(c.sent)
      BY <1>2, <3>2, RestOfRequests DEF Strays
    <3> QED BY <2>2, <3>1, <3>2
  <2>4. \A i \in DOMAIN d.wire : Stray(d.wire[i])
    BY <2>2, Grown DEF Strays, StrayPackets
  <2> QED BY <2>2, <2>3, <2>4 DEF Strays
<1> QED BY <1>1, <1>2

\* While strays are before it, a request stays the last one; otherwise it is next.
LEMMA AskedServed ==
  ASSUME NEW c, NEW d, Served(c, d), c.sent \in Seq(Requests),
         c.wire \in Seq(Packets), NEW m, Asked(c, m), ~StrayRequest(m)
  PROVE  /\ \A i \in DOMAIN c.wire : Stray(c.wire[i])
         /\ \/ c.sent # <<>> /\ Head(c.sent) = m /\ Tail(c.sent) = <<>>
            \/ Asked(d, m)
            \/ /\ d.sent = <<>> /\ d.serving = Nothing
               /\ \A i \in DOMAIN d.wire : Stray(d.wire[i])
<1>1. c.sent # <<>> /\ \A i \in DOMAIN c.wire : Stray(c.wire[i])
  BY DEF Asked
<1>2. CASE Len(c.sent) = 1
  <2>1. Head(c.sent) = m /\ Tail(c.sent) = <<>>
    BY <1>1, <1>2, RestOfRequests DEF Asked
  <2> QED BY <1>1, <2>1
<1>3. CASE Len(c.sent) # 1
  <2>1. StrayRequest(Head(c.sent))
    BY <1>1, <1>3, RestOfRequests DEF Asked
  <2>2. /\ d.serving = Nothing
        /\ (d.link = "up" /\ d.sent = Tail(c.sent)) \/ d.sent = <<>>
        /\ GrowsBy(c, d, StrayPackets)
    BY <1>1, <2>1, StrayServed DEF Asked
  <2>3. \A i \in DOMAIN d.wire : Stray(d.wire[i])
    BY <1>1, <2>2, StrayMessages, Grown DEF StrayPackets
  <2>4. d.sent = Tail(c.sent) => Asked(d, m)
    BY <1>1, <1>3, <2>2, <2>3, RestOfRequests DEF Asked
  <2> QED BY <1>1, <2>2, <2>3, <2>4
<1> QED BY <1>2, <1>3

LEMMA QueryServed ==
  ASSUME NEW c, NEW d, Served(c, d), c.sent \in Seq(Requests),
         c.wire \in Seq(Packets), NEW q \in 0..MaxQueries, QueryLine(c, q)
  PROVE  QueryLine(d, q)
<1> DEFINE m == Message("query", q)
           data == Message("data", q)
           end == Message("end", q)
<1>0. /\ m.kind = "query" /\ m.of = q /\ ~StrayRequest(m) /\ Nothing.kind = "none"
      /\ data \in Packets /\ end \in Packets
      /\ Message("exception", q) \in StrayPackets
      /\ StrayPackets \in SUBSET Packets
  BY StrayMessages, Messages
<1>1. CASE Asked(c, m)
  <2> HIDE DEF m
  <2>1. /\ \A i \in DOMAIN c.wire : Stray(c.wire[i])
        /\ \/ c.sent # <<>> /\ Head(c.sent) = m /\ Tail(c.sent) = <<>>
           \/ Asked(d, m)
           \/ /\ d.sent = <<>> /\ d.serving = Nothing
              /\ \A i \in DOMAIN d.wire : Stray(d.wire[i])
    BY <1>0, <1>1, AskedServed
  <2>2. CASE c.sent # <<>> /\ Head(c.sent) = m /\ Tail(c.sent) = <<>>
    <3>1. /\ d.sent = <<>> /\ d.serving \in {Nothing, m}
          /\ d.wire = c.wire
      BY <1>0, <1>1, <2>2 DEF Served, Asked
    <3> QED BY <2>1, <3>1 DEF QueryLine, m
  <2> QED BY <2>1, <2>2 DEF QueryLine, m
<1>2. CASE /\ c.sent = <<>> /\ c.serving = m
           /\ \A i \in DOMAIN c.wire : Stray(c.wire[i]) \/ c.wire[i] = data
  <2> HIDE DEF m, data, end
  <2>1. c.serving.kind = "query" /\ c.serving.of = q
    BY <1>0, <1>2
  <2>2. \/ /\ d.sent = <<>> /\ d.serving = m /\ GrowsBy(c, d, {data})
        \/ /\ d.sent = <<>> /\ d.serving = Nothing
           /\ GrowsBy(c, d, {end} \cup StrayPackets)
    <3>1. CASE d.link = "lost"
      BY <1>2, <2>1, <3>1 DEF Served, GrowsBy
    <3>2. CASE d.link # "lost"
      <4>1. /\ d.sent = <<>>
            /\ \/ d.serving = m /\ d.wire = Append(c.wire, Message("data", q))
               \/ /\ d.serving = Nothing
                  /\ \E k \in {"end", "exception"} :
                       d.wire = Append(c.wire, Message(k, q))
        BY <1>2, <2>1, <3>2 DEF Served
      <4> QED BY <1>0, <4>1 DEF GrowsBy, data, end
    <3> QED BY <3>1, <3>2
  <2>3. CASE d.sent = <<>> /\ d.serving = m /\ GrowsBy(c, d, {data})
    <3>1. \A i \in DOMAIN d.wire : Stray(d.wire[i]) \/ d.wire[i] = data
      BY <1>0, <1>2, <2>3, Grown
    <3> QED BY <2>3, <3>1 DEF QueryLine, m, data
  <2>4. CASE /\ d.sent = <<>> /\ d.serving = Nothing
             /\ GrowsBy(c, d, {end} \cup StrayPackets)
    <3>1. \A i \in DOMAIN d.wire :
            \/ Stray(d.wire[i]) \/ d.wire[i] = data
            \/ i = Len(d.wire) /\ d.wire[i] = end
      <4>1. {end} \cup StrayPackets \in SUBSET Packets
        BY <1>0
      <4> QED BY <1>2, <2>4, <4>1, Grown DEF StrayPackets
    <3> QED BY <2>4, <3>1 DEF QueryLine, data, end
  <2> QED BY <2>2, <2>3, <2>4
<1>3. CASE /\ c.sent = <<>> /\ c.serving = Nothing
           /\ \A i \in DOMAIN c.wire :
                \/ Stray(c.wire[i]) \/ c.wire[i] = data
                \/ i = Len(c.wire) /\ c.wire[i] = end
  <2>1. d.sent = <<>> /\ d.serving = Nothing /\ d.wire = c.wire
    BY <1>0, <1>3, ServedLast
  <2> QED BY <1>3, <2>1 DEF QueryLine
<1> QED BY <1>1, <1>2, <1>3 DEF QueryLine

LEMMA SampleServed ==
  ASSUME NEW c, NEW d, Served(c, d), c.sent \in Seq(Requests),
         c.wire \in Seq(Packets), NEW q \in 0..MaxQueries, SampleLine(c, q)
  PROVE  SampleLine(d, q)
<1> DEFINE m == Message("insert", q)
           data == Message("data", q)
<1>0. /\ m.kind = "insert" /\ m.of = q /\ ~StrayRequest(m) /\ Nothing.kind = "none"
      /\ data \in Packets
      /\ Message("exception", q) \in StrayPackets
      /\ StrayPackets \in SUBSET Packets
  BY StrayMessages, Messages
<1>1. CASE Asked(c, m)
  <2>1. m = Message("insert", q) /\ data = Message("data", q)
    OBVIOUS
  <2> HIDE DEF m, data
  <2>2. /\ \A i \in DOMAIN c.wire : Stray(c.wire[i])
        /\ \/ c.sent # <<>> /\ Head(c.sent) = m /\ Tail(c.sent) = <<>>
           \/ Asked(d, m)
           \/ /\ d.sent = <<>> /\ d.serving = Nothing
              /\ \A i \in DOMAIN d.wire : Stray(d.wire[i])
    BY <1>0, <1>1, AskedServed
  <2>3. CASE c.sent # <<>> /\ Head(c.sent) = m /\ Tail(c.sent) = <<>>
    <3>1. /\ d.sent = <<>> /\ d.serving \in {Nothing, m}
          /\ GrowsBy(c, d, {data} \cup StrayPackets)
      BY <1>0, <1>1, <2>1, <2>3 DEF Served, Asked, GrowsBy
    <3>2. {data} \cup StrayPackets \in SUBSET Packets
      BY <1>0
    <3>3. \A i \in DOMAIN d.wire :
            Stray(d.wire[i]) \/ (i = Len(d.wire) /\ d.wire[i] = data)
      BY <2>2, <3>1, <3>2, Grown DEF StrayPackets
    <3> QED BY <2>1, <3>1, <3>3 DEF SampleLine
  <2> QED BY <2>1, <2>2, <2>3 DEF SampleLine
<1>2. CASE /\ c.sent = <<>> /\ c.serving \in {Nothing, m}
           /\ \A i \in DOMAIN c.wire :
                Stray(c.wire[i]) \/ (i = Len(c.wire) /\ c.wire[i] = data)
  <2>1. d.sent = <<>> /\ d.serving = Nothing /\ d.wire = c.wire
    BY <1>0, <1>2, ServedLast
  <2> QED BY <1>2, <2>1 DEF SampleLine
<1> QED BY <1>1, <1>2 DEF SampleLine

LEMMA DrainServed ==
  ASSUME NEW c, NEW d, Served(c, d), c.sent \in Seq(Requests),
         c.wire \in Seq(Packets), NEW q \in 0..MaxQueries, DrainLine(c, q)
  PROVE  DrainLine(d, q)
<1> DEFINE m == Message("rows", q)
           end == Message("end", q)
<1>0. /\ m.kind = "rows" /\ m.of = q /\ Nothing.kind = "none"
      /\ Message("insert", q).kind = "insert"
      /\ end \in Packets
      /\ Message("exception", q) \in StrayPackets
      /\ StrayPackets \in SUBSET Packets
  BY StrayMessages, Messages
<1>1. CASE /\ c.sent = <<m>> /\ c.serving \in {Nothing, Message("insert", q)}
           /\ c.wire = <<>>
  <2>1. /\ c.sent # <<>> /\ Head(c.sent) = m /\ Tail(c.sent) = <<>>
        /\ \/ c.serving.kind = "insert" /\ c.serving # Nothing
           \/ c.serving = Nothing
    BY <1>0, <1>1, Singleton
  <2>2. m = Message("rows", q) /\ end = Message("end", q)
    OBVIOUS
  <2> HIDE DEF m, end
  <2>3. /\ d.sent = <<>> /\ d.serving = Nothing
        /\ GrowsBy(c, d, {end} \cup StrayPackets)
    BY <1>0, <2>1, <2>2 DEF Served, GrowsBy
  <2>4. {end} \cup StrayPackets \in SUBSET Packets
    BY <1>0
  <2>5. \A i \in DOMAIN d.wire :
          Stray(d.wire[i]) \/ (i = Len(d.wire) /\ d.wire[i] = end)
    <3>1. DOMAIN c.wire = {}
      BY <1>1
    <3> QED BY <2>3, <2>4, <3>1, Grown DEF StrayPackets
  <2> QED BY <2>2, <2>3, <2>5 DEF DrainLine
<1>2. CASE /\ c.sent = <<>> /\ c.serving = Nothing
           /\ \A i \in DOMAIN c.wire :
                Stray(c.wire[i]) \/ (i = Len(c.wire) /\ c.wire[i] = end)
  <2>1. d.sent = <<>> /\ d.serving = Nothing /\ d.wire = c.wire
    BY <1>0, <1>2, ServedLast
  <2> QED BY <1>2, <2>1 DEF DrainLine
<1> QED BY <1>1, <1>2 DEF DrainLine

-----------------------------------------------------------------------------
(* The server and the network *)

LEMMA TalkTypes ==
  ASSUME TypeOK, socket # 0
  PROVE  /\ socket \in Sockets
         /\ Talk(socket).sent = sent[socket] /\ sent[socket] \in Seq(Requests)
         /\ Talk(socket).wire = wire[socket] /\ wire[socket] \in Seq(Packets)
         /\ Talk(socket).serving = serving[socket]
         /\ Talk(socket).link = link[socket]
         /\ query[Me] \in 0..MaxQueries
<1>1. socket \in Sockets /\ query[Me] \in 0..MaxQueries
  BY OnlyMe, SessionAssumption DEF TypeOK, Sockets
<1> QED BY <1>1 DEF Talk, TypeOK

LEMMA SoloServer ==
  ASSUME SoloKept, NEW s \in Sockets, ServerStep(s)
  PROVE  SoloKept' /\ UNCHANGED client_side
<1>0. TypeOK /\ Posture /\ DeadIsSilent /\ Line
  BY DEF SoloKept
<1>1. /\ ServerTypes /\ WireTypes /\ UNCHANGED client_side
      /\ UNCHANGED <<socket, executing, holder, waiters, pc, call, on, query,
                     stream, blocks, queries>>
  BY <1>0, ServerTyped DEF client_side, client, lock, tasks
<1>2. TypeOK'
  BY <1>0, <1>1 DEF TypeOK, ServerTypes, WireTypes
<1>3. link[s] = "up" /\ socket = s
  BY <1>0 DEF ServerStep, Serve, ServerReads, ServerHangsUp, ServerSendsData,
              ServerEnds, LinkLost, Posture, NoSocketLeak
<1>4. /\ link' = link \/ link' = [link EXCEPT ![s] = "lost"]
  BY DEF ServerStep, Serve, ServerReads, ServerHangsUp, ServerSendsData,
         ServerEnds, LinkLost
<1>5. Posture'
  <2>1. /\ link'[socket] \in {"up", "lost"}
        /\ \A r \in Sockets : r # s => link'[r] = link[r]
    BY <1>0, <1>3, <1>4 DEF TypeOK
  <2>2. At \notin {"closing", "reopening"}
    BY <1>0, <1>3, TalkTypes DEF Posture, SocketKept, Sockets
  <2>3. SocketKept'
    BY <1>0, <1>1, <2>1, <2>2 DEF Posture, SocketKept, At
  <2>4. NoSocketLeak'
    BY <1>0, <1>1, <1>3, <2>1 DEF Posture, NoSocketLeak
  <2>5. (Undivided /\ CallsMatch /\ StreamsMatch)'
    BY <1>0, <1>1 DEF Posture, Undivided, CallsMatch, StreamsMatch, At
  <2> QED BY <2>3, <2>4, <2>5 DEF Posture
<1>6. DeadIsSilent'
  BY <1>0, ServerSilent
<1>7. Line'
  <2>1. Served(Talk(socket), Talk(s)')
    BY <1>0, <1>3, ServedFacts
  <2>2. Talk(socket)' = Talk(s)'
    BY <1>1, <1>3 DEF Talk
  <2>3. socket # 0
    BY <1>3 DEF Sockets
  <2>4. /\ Talk(socket).sent \in Seq(Requests)
        /\ Talk(socket).wire \in Seq(Packets)
        /\ query[Me] \in 0..MaxQueries
    BY <1>0, <2>3, TalkTypes
  <2> DEFINE c == Talk(socket)
             d == Talk(s)'
  <2>5. /\ Strays(c) => Strays(d)
        /\ QueryLine(c, query[Me]) => QueryLine(d, query[Me])
        /\ SampleLine(c, query[Me]) => SampleLine(d, query[Me])
        /\ DrainLine(c, query[Me]) => DrainLine(d, query[Me])
    BY <2>1, <2>4, StraysServed, QueryServed, SampleServed, DrainServed
  <2>6. socket # 0 /\ link[socket] # "shut"
    BY <1>3, <2>3
  <2>7. /\ ~executing => Strays(d)
        /\ executing /\ At \notin {"sampling", "draining"} => QueryLine(d, query[Me])
        /\ At = "sampling" => SampleLine(d, query[Me])
        /\ At = "draining" => DrainLine(d, query[Me])
    BY <1>0, <2>5, <2>6 DEF Line
  <2> HIDE DEF c, d
  <2> QED BY <1>1, <2>2, <2>7 DEF Line, At, d
<1> QED BY <1>1, <1>2, <1>5, <1>6, <1>7 DEF SoloKept

-----------------------------------------------------------------------------
(* The ways a step can end *)

LEMMA SoloTypes ==
  ASSUME LockTypes, ServerTypes, WireTypes, DataTypes
  PROVE  TypeOK'
BY DEF TypeOK, LockTypes, ServerTypes, WireTypes, DataTypes

Shrinks == \A s \in Sockets : Shrunk(wire[s], wire'[s])

LEMMA SoloTaken ==
  ASSUME TypeOK, on[Me] \in Sockets,
         \/ wire[on[Me]] # <<>> /\ Take(Me)
         \/ TakeEof(Me)
         \/ UNCHANGED wire
  PROVE  WireTypes /\ Shrinks
<1>1. WireTypes
  BY OnlyMe, TakeTypes
<1>2. Shrinks
  BY OnlyMe DEF TypeOK, Take, TakeEof, Shrinks, Shrunk
<1> QED BY <1>1, <1>2

LEMMA LineGone ==
  ASSUME socket' = 0 \/ link'[socket'] = "shut"
  PROVE  Line'
BY DEF Line

LEMMA LineStays ==
  ASSUME TypeOK, Line, UNCHANGED <<socket, executing, link, sent, serving>>, Shrinks,
         At \notin {"sampling", "draining"}, At' \notin {"sampling", "draining"},
         executing => query'[Me] = query[Me]
  PROVE  Line'
<1> SUFFICES ASSUME socket # 0, link[socket] # "shut"
             PROVE  /\ ~executing => Strays(Talk(socket)')
                    /\ executing => QueryLine(Talk(socket)', query[Me])
  BY DEF Line
<1>1. /\ socket \in Sockets
      /\ Talk(socket).wire = wire[socket] /\ wire[socket] \in Seq(Packets)
      /\ Talk(socket)'.wire = wire'[socket]
      /\ Talk(socket)'.sent = Talk(socket).sent
      /\ Talk(socket)'.serving = Talk(socket).serving
  BY TalkTypes DEF Talk
<1>2. Shrunk(Talk(socket).wire, Talk(socket)'.wire)
  BY <1>1 DEF Shrinks
<1> DEFINE c == Talk(socket)
           d == Talk(socket)'
<1>3. /\ Strays(c) => Strays(d)
      /\ QueryLine(c, query[Me]) => QueryLine(d, query[Me])
  <2> HIDE DEF c, d
  <2> QED BY <1>1, <1>2, LinesShrink DEF c, d
<1> HIDE DEF d
<1>4. /\ ~executing => Strays(c)
      /\ executing => QueryLine(c, query[Me])
  BY DEF Line
<1> QED BY <1>3, <1>4 DEF d

\* The call is left, or the socket is closed.
LEMMA SoloEnd ==
  ASSUME TypeOK, Posture, Line, ShutsAt({"closing"}) \/ Leaves,
         Leaves => ~Connected \/ ~executing,
         UNCHANGED <<socket, executing>>, Shrinks,
         At \notin {"closing", "reopening"},
         query'[Me] <= queries', stream'[Me] <= queries'
  PROVE  Posture' /\ Line'
<1>1. CASE ShutsAt({"closing"})
  <2>1. /\ socket \in Sockets /\ At' = "closing" /\ waiters' = <<>>
        /\ link' = [link EXCEPT ![socket] = "shut"]
    BY <1>1, SoloFacts DEF ShutsAt, Shut
  <2>2. link'[socket] = "shut" /\ \A s \in Sockets : s # socket => link'[s] = link[s]
    BY <2>1 DEF TypeOK
  <2>3. NoSocketLeak'
    BY <2>2 DEF Posture, NoSocketLeak
  <2>4. (Undivided /\ CallsMatch /\ SocketKept /\ StreamsMatch)'
    BY <2>1, <2>2
       DEF Posture, Undivided, CallsMatch, SocketKept, StreamsMatch, Establishing, Waits
  <2> QED BY <2>2, <2>3, <2>4, LineGone DEF Posture
<1>2. CASE Leaves
  <2>1. ~executing
    BY <1>2 DEF Posture, SocketKept, Connected
  <2>2. At' = "idle" /\ waiters' = <<>> /\ UNCHANGED <<link, sent, serving>>
    BY <1>2 DEF Leaves
  <2>3. NoSocketLeak'
    BY <2>2 DEF Posture, NoSocketLeak
  <2>4. (Undivided /\ CallsMatch /\ SocketKept /\ StreamsMatch)'
    BY <2>1, <2>2
       DEF Posture, Undivided, CallsMatch, SocketKept, StreamsMatch, Establishing, Waits
  <2>5. At \notin {"sampling", "draining"}
    BY <2>1 DEF Posture, SocketKept
  <2>6. Line'
    BY <2>1, <2>2, <2>5, LineStays
  <2> QED BY <2>3, <2>4, <2>6 DEF Posture
<1> QED BY <1>1, <1>2

\* The query goes on in connect().
LEMMA SoloRedial ==
  ASSUME TypeOK, Posture, Line, Redial(Me), ~executing,
         UNCHANGED <<socket, executing, wire>>,
         At \notin {"closing", "reopening"},
         call'[Me] \in Queries, query'[Me] # 0,
         query'[Me] <= queries', stream'[Me] <= queries'
  PROVE  Posture' /\ Line' /\ At' \in {"reopening", "dialing"}
<1>0. Undivided
  BY DEF Posture
<1>1. CASE ShutsAt({"reopening"})
  <2>1. /\ socket \in Sockets /\ At' = "reopening" /\ waiters' = <<>>
        /\ link' = [link EXCEPT ![socket] = "shut"]
    BY <1>1, SoloFacts DEF ShutsAt, Shut
  <2>2. link'[socket] = "shut" /\ \A s \in Sockets : s # socket => link'[s] = link[s]
    BY <2>1 DEF TypeOK
  <2>3. NoSocketLeak'
    BY <2>2 DEF Posture, NoSocketLeak
  <2>4. (Undivided /\ CallsMatch /\ SocketKept /\ StreamsMatch)'
    BY <2>1, <2>2
       DEF Posture, Undivided, CallsMatch, SocketKept, StreamsMatch, Establishing, Waits
  <2> QED BY <2>1, <2>2, <2>3, <2>4, LineGone DEF Posture
<1>2. CASE /\ ~Connected /\ At' = "dialing" /\ waiters' = <<>>
           /\ UNCHANGED <<link, sent, serving>>
  <2>1. socket = 0
    BY <1>2 DEF Connected
  <2>2. NoSocketLeak'
    BY <1>2 DEF Posture, NoSocketLeak
  <2>3. (Undivided /\ CallsMatch /\ SocketKept /\ StreamsMatch)'
    BY <1>2, <2>1
       DEF Posture, Undivided, CallsMatch, SocketKept, StreamsMatch, Establishing, Waits
  <2> QED BY <1>2, <2>1, <2>2, <2>3, LineGone DEF Posture
<1> QED BY <1>0, <1>1, <1>2, SoloEnds

-----------------------------------------------------------------------------
(* force_connect *)

Turned == TypeOK' /\ Posture' /\ Line'

LEMMA SoloEnters ==
  ASSUME TypeOK, Posture, Enters(Me)
  PROVE  /\ At = "idle"
         /\ queries' = queries + 1 /\ query'[Me] = queries' /\ query'[Me] # 0
         /\ call'[Me] \in Queries
         /\ call' \in [Tasks -> AllCalls \cup {"fetch"}]
         /\ query' \in [Tasks -> 0..MaxQueries]
         /\ blocks' \in [Tasks -> SUBSET (0..MaxQueries)]
         /\ queries' \in 0..MaxQueries
<1>1. At = "idle" /\ \E c \in Calls \cap Queries : NewQuery(Me, c)
  BY DEF Enters, Posture, Undivided, At
<1>2. PICK c \in Calls \cap Queries : NewQuery(Me, c)
  BY <1>1
<1>3. queries + 1 \in 0..MaxQueries /\ queries + 1 # 0
  BY <1>2, SessionAssumption DEF NewQuery, TypeOK
<1>4. c \in AllCalls /\ c \in Queries
  BY DEF Queries, AllCalls
<1> QED BY <1>1, <1>2, <1>3, <1>4, OnlyMe DEF NewQuery, TypeOK

LEMMA BeginsTurn ==
  ASSUME SoloKept, Begins
  PROVE  /\ Turned
         /\ At = "idle" /\ ~executing /\ UNCHANGED <<socket, executing, stream>>
         /\ At' \in {"dialing", "reopening", "probing"}
         /\ queries' = queries + 1 /\ query'[Me] = queries' /\ query'[Me] # 0
         /\ call'[Me] \in Queries
<1>0. TypeOK /\ Posture /\ Line
  BY DEF SoloKept
<1>1. Enters(Me) /\ ~executing /\ UNCHANGED <<socket, executing, stream, wire>>
  BY DEF Begins, Dial, Probe, ProbeBroken, client
<1>2. /\ At = "idle"
      /\ queries' = queries + 1 /\ query'[Me] = queries' /\ query'[Me] # 0
      /\ call'[Me] \in Queries
      /\ call' \in [Tasks -> AllCalls \cup {"fetch"}]
      /\ query' \in [Tasks -> 0..MaxQueries]
      /\ blocks' \in [Tasks -> SUBSET (0..MaxQueries)]
      /\ queries' \in 0..MaxQueries
  BY <1>0, <1>1, SoloEnters
<1>3. /\ stream'[Me] <= queries'
      /\ stream[Me] \in 0..MaxQueries /\ queries \in 0..MaxQueries
  <2>1. stream[Me] \in 0..MaxQueries /\ queries \in 0..MaxQueries
    BY <1>0, OnlyMe DEF TypeOK
  <2> QED BY <1>0, <1>1, <1>2, <2>1 DEF Posture, CallsMatch
<1>4. WireTypes
  BY <1>0, <1>1 DEF TypeOK, WireTypes
<1>5. ASSUME Redial(Me), UNCHANGED on PROVE Turned /\ At' \in {"dialing", "reopening"}
  <2>1. Posture' /\ Line' /\ At' \in {"reopening", "dialing"}
    BY <1>0, <1>1, <1>2, <1>3, <1>5, SoloRedial
  <2>2. LockTypes /\ ServerTypes
    BY <1>0, <1>5, OnlyMe, EndTypes
  <2>3. DataTypes
    BY <1>0, <1>1, <1>2, <1>5 DEF DataTypes, TypeOK
  <2> QED BY <1>4, <2>1, <2>2, <2>3, SoloTypes DEF Turned
<1>6. CASE Dial(Me) \/ ProbeBroken(Me)
  <2>1. Redial(Me) /\ UNCHANGED on
    BY <1>6 DEF Dial, ProbeBroken
  <2> QED BY <1>1, <1>2, <1>5, <2>1
<1>7. CASE Probe(Me)
  <2>1. /\ Writable /\ holder' = Me /\ waiters' = waiters
        /\ pc' = [pc EXCEPT ![Me] = "probing"]
        /\ on' = [on EXCEPT ![Me] = socket]
        /\ sent' = Sending(socket, Message("ping", 0))
        /\ UNCHANGED <<link, serving>>
    BY <1>7 DEF Probe
  <2>2. socket \in Sockets /\ socket # 0 /\ socket \in 0..MaxSockets
    BY <1>0, <2>1, SoloFacts DEF Writable, Connected, TypeOK
  <2>3. Message("ping", 0) \in Requests /\ StrayRequest(Message("ping", 0))
    <3>1. 0 \in 0..MaxQueries BY SessionAssumption
    <3> QED BY <3>1, StrayMessages
  <2>4. At' = "probing" /\ on'[Me] = socket /\ waiters' = <<>>
    BY <1>0, <2>1, OnlyMe DEF At, TypeOK, Posture, Undivided
  <2>5. TypeOK'
    <3>1. sent' \in [Sockets -> Seq(Requests)]
      BY <1>0, <2>1, <2>2, <2>3, SendTypes
    <3>2. ServerTypes
      BY <1>0, <2>1, <3>1 DEF ServerTypes, TypeOK
    <3>3. LockTypes
      BY <1>0, <2>1, OnlyMe DEF LockTypes, TypeOK, Places, Waits
    <3>4. DataTypes
      BY <1>0, <1>1, <1>2, <2>1, <2>2 DEF DataTypes, TypeOK
    <3> QED BY <1>4, <3>2, <3>3, <3>4, SoloTypes
  <2>6. Posture'
    <3>1. NoSocketLeak'
      BY <1>0, <1>1, <2>1 DEF Posture, NoSocketLeak
    <3>2. (Undivided /\ CallsMatch /\ SocketKept /\ StreamsMatch)'
      BY <1>0, <1>1, <1>2, <1>3, <2>1, <2>2, <2>4
         DEF Posture, Undivided, CallsMatch, SocketKept, StreamsMatch, Establishing,
             Waits
    <3> QED BY <3>1, <3>2 DEF Posture
  <2>7. Line'
    <3> SUFFICES ASSUME socket # 0, link[socket] # "shut"
                 PROVE  Strays(Talk(socket)')
      BY <1>1, <2>1, <2>4 DEF Line
    <3> DEFINE c == Talk(socket)
               d == Talk(socket)'
    <3>1. Strays(c) /\ c.sent \in Seq(Requests) /\ c.wire \in Seq(Packets)
      BY <1>0, <1>1, TalkTypes DEF Line
    <3>2. /\ d.wire = c.wire /\ d.serving = c.serving
          /\ d.sent = c.sent \/ d.sent = Append(c.sent, Message("ping", 0))
      BY <1>0, <1>1, <2>1, <2>2 DEF Talk, Sending, TypeOK
    <3> HIDE DEF c, d
    <3>3. ASSUME d.sent = c.sent PROVE Strays(d)
      BY <3>1, <3>2, <3>3 DEF Strays
    <3>4. ASSUME d.sent = Append(c.sent, Message("ping", 0)) PROVE Strays(d)
      <4>1. Shrunk(c.wire, d.wire)
        BY <3>2 DEF Shrunk
      <4> QED BY <2>3, <3>1, <3>2, <3>4, <4>1, LinesAsk
    <3> QED BY <3>2, <3>3, <3>4 DEF d
  <2> QED BY <1>1, <1>2, <2>4, <2>5, <2>6, <2>7 DEF Turned
<1> QED BY <1>6, <1>7 DEF Begins

\* The query is sent after whatever the socket had left.
LEMMA SoloProceed ==
  ASSUME SoloKept, At \in {"probing", "greeting"}, call[Me] \in Queries,
         wire[on[Me]] # <<>>, Take(Me), Proceed(Me),
         UNCHANGED <<socket, call, query, blocks, queries>>
  PROVE  /\ Turned /\ executing'
         /\ At' = "idle" => call[Me] = "iterate" /\ stream'[Me] = query[Me]
         /\ At' = "closing" => stream' = stream
         /\ At' = "reading" => call[Me] = "execute" /\ stream' = stream
         /\ At' = "sampling" => call[Me] = "insert" /\ stream' = stream
         /\ At' \in {"idle", "closing", "reading", "sampling"}
<1>0. TypeOK /\ Posture /\ Line /\ DeadIsSilent /\ executing'
  BY DEF SoloKept, Proceed
<1>1. /\ on[Me] = socket /\ socket \in Sockets /\ socket # 0 /\ Connected
      /\ ~executing /\ link[socket] \in {"up", "lost"} /\ Writable
      /\ query[Me] # 0 /\ query[Me] <= queries /\ stream[Me] <= queries
      /\ socket \in 0..MaxSockets
  <2>1. on[Me] = socket /\ socket \in Sockets /\ socket # 0
    BY <1>0, SoloFacts DEF Posture, SocketKept, Waits
  <2>2. /\ ~executing /\ link[socket] \in {"up", "lost"} /\ Writable
        /\ query[Me] # 0 /\ query[Me] <= queries /\ stream[Me] <= queries
    BY <1>0, <2>1
       DEF Posture, SocketKept, CallsMatch, Establishing, Writable, Connected
  <2> QED BY <1>0, <2>1, <2>2 DEF Connected, TypeOK
<1>2. WireTypes /\ Shrinks
  BY <1>0, <1>1, SoloTaken
<1>3. TypeOK'
  <2>1. /\ LockTypes /\ ServerTypes /\ executing' \in BOOLEAN
        /\ on' \in [Tasks -> 0..MaxSockets]
        /\ stream' \in [Tasks -> 0..MaxQueries]
    BY <1>0, OnlyMe, ProceedTypes
  <2>2. DataTypes
    BY <1>0, <2>1 DEF DataTypes, TypeOK
  <2> QED BY <1>2, <2>1, <2>2, SoloTypes
<1>4. CASE Abort(Me) /\ UNCHANGED <<on, stream>>
  <2>1. ShutsAt({"closing"})
    BY <1>0, <1>1, <1>4, SoloEnds DEF Posture
  <2>2. /\ At' = "closing" /\ waiters' = <<>>
        /\ link' = [link EXCEPT ![socket] = "shut"]
    BY <2>1 DEF ShutsAt, Shut
  <2>3. link'[socket] = "shut" /\ \A s \in Sockets : s # socket => link'[s] = link[s]
    BY <1>0, <1>1, <2>2 DEF TypeOK
  <2>4. NoSocketLeak'
    BY <1>0, <2>3 DEF Posture, NoSocketLeak
  <2>5. (Undivided /\ CallsMatch /\ SocketKept /\ StreamsMatch)'
    BY <1>0, <1>1, <1>4, <2>2, <2>3
       DEF Posture, Undivided, CallsMatch, SocketKept, StreamsMatch, Establishing, Waits
  <2>6. Line'
    BY <2>3, LineGone
  <2> QED BY <1>0, <1>3, <1>4, <2>2, <2>4, <2>5, <2>6 DEF Posture, Turned
<1>5. CASE /\ Settle(Me, CASE call[Me] = "execute" -> "reading"
                           [] call[Me] = "insert"  -> "sampling"
                           [] call[Me] = "iterate" -> "idle")
           /\ on' = [on EXCEPT ![Me] = socket]
           /\ sent' = Sending(socket,
                Message(IF call[Me] = "insert" THEN "insert" ELSE "query", query[Me]))
           /\ stream' = IF call[Me] = "iterate"
                          THEN [stream EXCEPT ![Me] = query[Me]] ELSE stream
           /\ UNCHANGED <<link, serving>>
  <2>1. /\ waiters' = <<>>
        /\ \/ call[Me] = "execute" /\ At' = "reading" /\ stream' = stream
           \/ call[Me] = "insert" /\ At' = "sampling" /\ stream' = stream
           \/ call[Me] = "iterate" /\ At' = "idle" /\ stream'[Me] = query[Me]
    <3>1. \E place \in {"reading", "sampling", "idle"} :
            /\ Settle(Me, place)
            /\ place = "reading" <=> call[Me] = "execute"
            /\ place = "sampling" <=> call[Me] = "insert"
      BY <1>5 DEF Queries
    <3>2. stream \in [Tasks -> 0..MaxQueries] /\ Undivided
      BY <1>0 DEF TypeOK, Posture
    <3> QED BY <1>0, <1>5, <3>1, <3>2, OnlyMe, SoloSettle DEF Queries
  <2>2. on'[Me] = socket
    BY <1>0, <1>5, OnlyMe DEF TypeOK
  <2>3. NoSocketLeak'
    BY <1>0, <1>5 DEF Posture, NoSocketLeak
  <2>4. (Undivided /\ CallsMatch /\ SocketKept /\ StreamsMatch)'
    BY <1>0, <1>1, <1>5, <2>1, <2>2
       DEF Posture, Undivided, CallsMatch, SocketKept, StreamsMatch, Establishing, Waits
  <2>5. Line'
    <3> DEFINE c == Talk(socket)
               d == Talk(socket)'
               q == query[Me]
               m == Message(IF call[Me] = "insert" THEN "insert" ELSE "query", q)
    <3>1. /\ Strays(c) /\ c.sent \in Seq(Requests) /\ c.wire \in Seq(Packets)
          /\ q \in 0..MaxQueries
      BY <1>0, <1>1, TalkTypes DEF Line
    <3>2. /\ Shrunk(c.wire, d.wire) /\ d.serving = c.serving
          /\ d.sent = Append(c.sent, m) \/ (c.sent = <<>> /\ d.sent = c.sent)
      BY <1>0, <1>1, <1>2, <1>5 DEF Talk, Sending, TypeOK, Shrinks, Broken, DeadIsSilent
    <3>3. m \in Requests
      BY <3>1, StrayMessages
    <3>4. \A i \in DOMAIN d.wire : Stray(d.wire[i])
      <4> HIDE DEF c, d
      <4> QED BY <3>1, <3>2, ShrunkFacts DEF Strays
    <3>5. Asked(d, m) \/ (d.sent = <<>> /\ d.serving = Nothing)
      <4> HIDE DEF c, d, m
      <4>1. CASE d.sent = Append(c.sent, m)
        BY <3>1, <3>2, <3>3, <4>1, LinesAsk
      <4> QED BY <3>1, <3>2, <4>1 DEF Strays
    <3>6. /\ At' \notin {"sampling", "draining"} => QueryLine(d, q)
          /\ At' = "sampling" => SampleLine(d, q)
      <4>1. At' = "sampling" => m = Message("insert", q)
        BY <2>1
      <4>2. At' # "sampling" => m = Message("query", q)
        BY <2>1
      <4> HIDE DEF c, d, m
      <4> QED BY <3>4, <3>5, <4>1, <4>2 DEF QueryLine, SampleLine
    <3>7. At' # "draining"
      BY <2>1
    <3> QED BY <1>0, <3>6, <3>7 DEF Line
  <2> QED BY <1>0, <1>3, <2>1, <2>3, <2>4, <2>5 DEF Posture, Turned
<1> QED BY <1>4, <1>5 DEF Proceed

LEMMA EndTurn ==
  ASSUME SoloKept, Leave(Me) \/ Abort(Me) \/ Fail(Me) \/ CloseFirst(Me),
         Leave(Me) \/ call[Me] = "connect" => ~executing,
         UNCHANGED <<socket, executing>>, WireTypes, DataTypes, Shrinks,
         At \notin {"closing", "reopening"},
         query'[Me] <= queries', stream'[Me] <= queries'
  PROVE  Turned /\ At' \in {"idle", "closing"}
<1>0. TypeOK /\ Posture /\ Line /\ Undivided
  BY DEF SoloKept, Posture
<1>1. /\ ShutsAt({"closing"}) \/ Leaves
      /\ Leaves /\ ~ShutsAt({"closing"}) => ~Connected \/ ~executing
  BY <1>0, SoloEnds
<1>2. Leaves => ~Connected \/ ~executing
  <2>1. Leaves => ~ShutsAt({"closing"})
    BY DEF Leaves, ShutsAt
  <2> QED BY <1>1, <2>1
<1>3. Posture' /\ Line'
  BY <1>0, <1>1, <1>2, SoloEnd
<1>4. LockTypes /\ ServerTypes
  BY <1>0, OnlyMe, EndTypes
<1>5. At' \in {"idle", "closing"}
  BY <1>1 DEF ShutsAt, Leaves
<1> QED BY <1>3, <1>4, <1>5, SoloTypes DEF Turned

\* reset_state()
LEMMA ResetTurn ==
  ASSUME SoloKept, Reset, At \in {"closing", "reopening"},
         \/ Leave(Me)
         \/ /\ At = "reopening" /\ pc' = [pc EXCEPT ![Me] = "dialing"]
            /\ UNCHANGED <<lock, link, sent, serving>>,
         UNCHANGED <<call, on, query, stream, blocks, wire, queries>>
  PROVE  Turned /\ At' \in {"idle", "dialing"} /\ socket' = 0 /\ ~executing'
<1>0. TypeOK /\ Posture /\ Line /\ Undivided
  BY DEF SoloKept, Posture
<1>1. /\ waiters' = <<>> /\ UNCHANGED <<link, sent, serving>>
      /\ At' = "idle" \/ (At' = "dialing" /\ At = "reopening")
  <2>1. CASE Leave(Me)
    BY <1>0, <2>1, SoloEnds DEF Leaves
  <2>2. CASE /\ At = "reopening" /\ pc' = [pc EXCEPT ![Me] = "dialing"]
             /\ UNCHANGED <<lock, link, sent, serving>>
    BY <1>0, <2>2, OnlyMe DEF At, TypeOK, Undivided, lock
  <2> QED BY <2>1, <2>2
<1>2. socket' = 0 /\ ~executing' /\ executing' = FALSE
  BY DEF Reset
<1>3. NoSocketLeak'
  BY <1>0, <1>1, <1>2 DEF Posture, NoSocketLeak, SocketKept, Sockets
<1>4. (Undivided /\ CallsMatch /\ SocketKept /\ StreamsMatch)'
  BY <1>0, <1>1, <1>2
     DEF Posture, Undivided, CallsMatch, SocketKept, StreamsMatch, Establishing, Waits
<1>5. LockTypes
  <2>1. CASE Leave(Me)
    BY <1>0, <2>1, OnlyMe, EndTypes
  <2>2. CASE UNCHANGED lock /\ pc' = [pc EXCEPT ![Me] = "dialing"]
    BY <1>0, <2>2 DEF LockTypes, TypeOK, lock, Places
  <2> QED BY <2>1, <2>2
<1>6. ServerTypes /\ WireTypes /\ DataTypes
  <2>1. 0 \in 0..MaxSockets
    BY SessionAssumption
  <2> QED BY <1>0, <1>1, <1>2, <2>1 DEF ServerTypes, WireTypes, DataTypes, TypeOK
<1> QED BY <1>1, <1>2, <1>3, <1>4, <1>5, <1>6, SoloTypes, LineGone DEF Turned, Posture

LEMMA Bounded ==
  ASSUME SoloKept, UNCHANGED <<query, stream, queries>>
  PROVE  query'[Me] <= queries' /\ stream'[Me] <= queries'
BY DEF SoloKept, Posture, CallsMatch

LEMMA ConnectTurn ==
  ASSUME SoloKept,
         \/ ProbeAnswered(Me) \/ ProbeFails(Me) \/ ProbeLost(Me)
         \/ DialFails(Me) \/ Greeted(Me) \/ GreetFails(Me) \/ GreetLost(Me)
         \/ Reopened(Me) \/ Closed(Me) \/ CancelDial(Me) \/ CancelClose(Me)
  PROVE  Turned
<1>0. /\ TypeOK /\ Posture /\ Line
      /\ At \in Establishing \cup {"pinging"} => ~executing
      /\ At \in Waits => on[Me] \in Sockets
      /\ At \in {"dialing", "greeting", "probing"} =>
           At \in Establishing /\ At \notin {"closing", "reopening"}
      /\ At \in {"greeting", "probing"} => At \in Waits
  BY SoloFacts DEF SoloKept, Posture, SocketKept, Establishing, Waits
<1>1. ASSUME Leave(Me) \/ Abort(Me) \/ Fail(Me) \/ CloseFirst(Me),
             At \in {"dialing", "greeting", "probing"},
             UNCHANGED <<client, call, on, query, stream, blocks, queries>>,
             WireTypes, Shrinks
      PROVE  Turned
  <2>1. DataTypes
    BY <1>0, <1>1 DEF DataTypes, TypeOK, client
  <2>2. query'[Me] <= queries' /\ stream'[Me] <= queries'
    BY <1>1, Bounded
  <2>3. UNCHANGED <<socket, executing>> /\ ~executing /\ At \notin {"closing", "reopening"}
    BY <1>0, <1>1 DEF client
  <2> QED BY <1>1, <2>1, <2>2, <2>3, EndTurn
<1>2. ASSUME on[Me] \in Sockets,
             \/ wire[on[Me]] # <<>> /\ Take(Me)
             \/ TakeEof(Me)
             \/ UNCHANGED wire
      PROVE  WireTypes /\ Shrinks
  BY <1>0, <1>2, SoloTaken
<1>3. UNCHANGED wire => WireTypes /\ Shrinks
  BY <1>0 DEF WireTypes, TypeOK, Shrinks, Shrunk
<1>4. CASE ProbeAnswered(Me)
  <2>1. At = "probing" /\ call[Me] \in Queries
    BY <1>0, <1>4 DEF ProbeAnswered, At, Posture, CallsMatch
  <2> QED BY <1>4, <2>1, SoloProceed DEF ProbeAnswered, Got
<1>5. CASE ProbeFails(Me)
  <2>1. At = "probing"
    BY <1>5 DEF ProbeFails, At
  <2>2. WireTypes /\ Shrinks
    BY <1>0, <1>2, <1>5, <2>1 DEF ProbeFails, Got
  <2> QED BY <1>1, <1>5, <2>1, <2>2 DEF ProbeFails
<1>6. CASE ProbeLost(Me)
  <2>1. At = "probing" /\ call[Me] \in Queries /\ query[Me] # 0
    BY <1>0, <1>6 DEF ProbeLost, At, Posture, CallsMatch, Establishing
  <2>2. Redial(Me) /\ UNCHANGED <<client, call, on, query, stream, blocks, wire, queries>>
    BY <1>6 DEF ProbeLost
  <2>3. Posture' /\ Line'
    <3>1. query'[Me] <= queries' /\ stream'[Me] <= queries'
      BY <2>2, Bounded
    <3> QED BY <1>0, <2>1, <2>2, <3>1, SoloRedial DEF client
  <2>4. LockTypes /\ ServerTypes
    BY <1>0, <2>2, OnlyMe, EndTypes
  <2>5. DataTypes
    BY <1>0, <2>2 DEF DataTypes, TypeOK, client
  <2> QED BY <1>3, <2>2, <2>3, <2>4, <2>5, SoloTypes DEF Turned
<1>7. CASE DialFails(Me) \/ GreetLost(Me) \/ CancelDial(Me)
  <2>1. At \in {"dialing", "greeting", "probing"} /\ UNCHANGED wire
    BY <1>7 DEF DialFails, GreetLost, CancelDial, At
  <2> QED BY <1>1, <1>3, <1>7, <2>1 DEF DialFails, GreetLost, CancelDial
<1>8. CASE Greeted(Me)
  <2>1. At = "greeting" /\ wire[on[Me]] # <<>> /\ Take(Me)
    BY <1>8 DEF Greeted, At, Got
  <2>2. CASE call[Me] = "connect"
    <3>1. WireTypes /\ Shrinks
      BY <1>0, <1>2, <2>1
    <3> QED BY <1>1, <1>8, <2>1, <2>2, <3>1 DEF Greeted, client
  <2>3. CASE call[Me] # "connect"
    <3>1. call[Me] \in Queries
      BY <1>0, <2>1, <2>3 DEF Posture, CallsMatch
    <3> QED BY <1>8, <2>1, <2>3, <3>1, SoloProceed DEF Greeted
  <2> QED BY <2>2, <2>3
<1>9. CASE GreetFails(Me)
  <2>1. At = "greeting"
    BY <1>9 DEF GreetFails, At
  <2>2. WireTypes /\ Shrinks
    BY <1>0, <1>2, <1>9, <2>1 DEF GreetFails, Got
  <2> QED BY <1>1, <1>9, <2>1, <2>2 DEF GreetFails
<1>10. CASE Reopened(Me)
  BY <1>10, ResetTurn DEF Reopened, At, server
<1>11. CASE Closed(Me) \/ CancelClose(Me)
  <2>1. At \in {"closing", "reopening"} /\ Leave(Me) /\ Reset
        /\ UNCHANGED <<call, on, query, stream, blocks, wire, queries>>
    BY <1>11 DEF Closed, CancelClose, At
  <2> QED BY <2>1, ResetTurn
<1> QED BY <1>4, <1>5, <1>6, <1>7, <1>8, <1>9, <1>10, <1>11

\* A new socket.
LEMMA DialTurn ==
  ASSUME SoloKept, Dialed(Me)
  PROVE  Turned
<1>0. TypeOK /\ Posture /\ Line /\ DeadIsSilent
  BY DEF SoloKept
<1>1. PICK s \in Sockets :
        /\ link[s] = "none" /\ socket' = s
        /\ link' = [link EXCEPT ![s] = "up"]
        /\ on' = [on EXCEPT ![Me] = s]
        /\ sent' = [sent EXCEPT ![s] = <<Message("hello", 0)>>]
  BY DEF Dialed
<1>2. /\ At = "dialing" /\ pc' = [pc EXCEPT ![Me] = "greeting"]
      /\ UNCHANGED <<executing, lock, call, query, stream, blocks, serving, wire, queries>>
  BY DEF Dialed, At
<1>3. /\ At' = "greeting" /\ on'[Me] = s /\ waiters' = <<>> /\ s # 0
      /\ link'[s] = "up" /\ \A r \in Sockets : r # s => link'[r] = link[r]
      /\ s \in 0..MaxSockets /\ socket = 0 /\ ~executing
  BY <1>0, <1>1, <1>2, OnlyMe, SessionAssumption
     DEF TypeOK, At, Posture, Undivided, SocketKept, Establishing, Sockets, lock
<1>4. TypeOK'
  <2>1. Message("hello", 0) \in Requests
    <3>1. 0 \in 0..MaxQueries BY SessionAssumption
    <3> QED BY <3>1, MessageTypes
  <2>2. ServerTypes
    <3>1. <<Message("hello", 0)>> \in Seq(Requests)
      BY <2>1
    <3> QED BY <1>0, <1>1, <1>2, <3>1 DEF ServerTypes, TypeOK
  <2>3. LockTypes /\ WireTypes
    BY <1>0, <1>2 DEF LockTypes, WireTypes, TypeOK, Places, Waits, lock
  <2>4. DataTypes
    BY <1>0, <1>1, <1>2, <1>3 DEF DataTypes, TypeOK
  <2> QED BY <2>2, <2>3, <2>4, SoloTypes
<1>5. Posture'
  <2>1. NoSocketLeak'
    BY <1>0, <1>1, <1>3 DEF Posture, NoSocketLeak, Sockets
  <2>2. (Undivided /\ CallsMatch /\ SocketKept /\ StreamsMatch)'
    BY <1>0, <1>1, <1>2, <1>3
       DEF Posture, Undivided, CallsMatch, SocketKept, StreamsMatch, Establishing, Waits
  <2> QED BY <2>1, <2>2 DEF Posture
<1>6. Line'
  <2>1. sent'[s] = <<Message("hello", 0)>> /\ serving'[s] = Nothing /\ wire'[s] = <<>>
    BY <1>0, <1>1, <1>2 DEF TypeOK, DeadIsSilent
  <2> DEFINE d == Talk(s)'
  <2>2. d.sent = <<Message("hello", 0)>> /\ d.serving = Nothing /\ d.wire = <<>>
    BY <2>1 DEF Talk
  <2>3. Strays(d)
    <3>1. StrayRequest(Message("hello", 0))
      BY Messages DEF StrayRequest
    <3> HIDE DEF d
    <3> QED BY <2>2, <3>1, Singleton DEF Strays
  <2>4. Talk(socket)' = d
    BY <1>1 DEF Talk
  <2> HIDE DEF d
  <2> QED BY <1>2, <1>3, <2>3, <2>4 DEF Line
<1> QED BY <1>4, <1>5, <1>6 DEF Turned

-----------------------------------------------------------------------------
(* Reading *)

LEMMA AbortTurn ==
  ASSUME SoloKept, Abort(Me) \/ CloseFirst(Me), UNCHANGED <<socket, executing>>,
         WireTypes, DataTypes, Shrinks, At \notin {"closing", "reopening"},
         query'[Me] <= queries', stream'[Me] <= queries'
  PROVE  Turned /\ At' \in {"idle", "closing"} /\ (At' = "idle" => ~Connected)
<1>0. TypeOK /\ Posture /\ Line /\ Undivided
  BY DEF SoloKept, Posture
<1>1. ShutsAt({"closing"}) \/ (~Connected /\ Leaves)
  BY <1>0, SoloEnds
<1>2. Leaves => ~ShutsAt({"closing"})
  BY DEF Leaves, ShutsAt
<1>3. Posture' /\ Line'
  BY <1>0, <1>1, <1>2, SoloEnd
<1>4. LockTypes /\ ServerTypes
  BY <1>0, OnlyMe, EndTypes
<1>5. At' \in {"idle", "closing"} /\ (At' = "idle" => ~Connected)
  BY <1>1 DEF ShutsAt, Leaves
<1> QED BY <1>3, <1>4, <1>5, SoloTypes DEF Turned

\* What a reader can find: data and the end of its own statement, and nothing
\* after the end.
LEMMA HeadOfLine ==
  ASSUME SoloKept, At \in {"reading", "sampling", "draining"}, wire[on[Me]] # <<>>,
         NEW h, h = Head(wire[on[Me]]), h.kind \in {"data", "end"}
  PROVE  /\ on[Me] = socket /\ socket \in Sockets /\ executing /\ h.of = query[Me]
         /\ At = "sampling" => h.kind = "data"
         /\ At = "draining" => h.kind = "end"
         /\ At = "sampling" \/ h.kind = "end" =>
              Tail(wire[socket]) = <<>> /\ sent[socket] = <<>>
         /\ h.kind = "end" => serving[socket] = Nothing
         /\ At = "sampling" =>
              serving[socket] \in {Nothing, Message("insert", query[Me])}
<1> DEFINE c == Talk(socket)
           q == query[Me]
<1>0. /\ TypeOK /\ Posture /\ Line
      /\ on[Me] = socket /\ socket \in Sockets /\ socket # 0
      /\ link[socket] \in {"up", "lost"}
  BY SoloFacts DEF SoloKept, Posture, SocketKept, Waits
<1>1. /\ c.wire = wire[socket] /\ c.sent = sent[socket]
      /\ c.serving = serving[socket] /\ c.wire \in Seq(Packets)
  BY <1>0, TalkTypes
<1>2. /\ ~executing => Strays(c)
      /\ executing /\ At \notin {"sampling", "draining"} => QueryLine(c, q)
      /\ At = "sampling" => SampleLine(c, q)
      /\ At = "draining" => DrainLine(c, q)
      /\ At \in {"sampling", "draining"} => executing
  BY <1>0 DEF Line, Posture, SocketKept
<1> HIDE DEF c
<1>3. /\ 1 \in DOMAIN c.wire /\ h = c.wire[1] /\ ~Stray(h) /\ c.wire # <<>>
      /\ Len(c.wire) = 1 => Tail(c.wire) = <<>>
  <2>1. h = c.wire[1] /\ c.wire # <<>> /\ Len(c.wire) \in Nat /\ Len(c.wire) # 0
    BY <1>0, <1>1, HeadTailProperties, LenProperties, EmptySeq
  <2>2. Tail(c.wire) \in Seq(Packets) /\ Len(Tail(c.wire)) = Len(c.wire) - 1
    BY <1>1, <2>1, HeadTailProperties
  <2>3. Len(c.wire) = 1 => Tail(c.wire) = <<>>
    <3>1. Len(c.wire) = 1 => Len(Tail(c.wire)) = 0
      BY <2>2
    <3> QED BY <2>2, <3>1, EmptySeq
  <2>4. 1 \in DOMAIN c.wire
    BY <1>1, <2>1, LenProperties
  <2> QED BY <2>1, <2>3, <2>4 DEF Stray
<1>4. executing
  BY <1>2, <1>3 DEF Strays
<1>5. /\ Message("data", q).kind = "data" /\ Message("data", q).of = q
      /\ Message("end", q).kind = "end" /\ Message("end", q).of = q
      /\ Message("insert", q) # Nothing
  BY Messages
<1>6. CASE At = "reading"
  <2>1. /\ h.of = q
        /\ h.kind = "end" => Len(c.wire) = 1 /\ c.sent = <<>> /\ c.serving = Nothing
    BY <1>2, <1>3, <1>4, <1>5, <1>6 DEF QueryLine, Asked
  <2> QED BY <1>0, <1>1, <1>3, <1>4, <1>6, <2>1
<1>7. CASE At = "sampling"
  <2>1. /\ h.of = q /\ h.kind = "data" /\ Len(c.wire) = 1 /\ c.sent = <<>>
        /\ c.serving \in {Nothing, Message("insert", q)}
    BY <1>2, <1>3, <1>5, <1>7 DEF SampleLine, Asked
  <2> QED BY <1>0, <1>1, <1>3, <1>4, <1>7, <2>1
<1>8. CASE At = "draining"
  <2>1. /\ h.of = q /\ h.kind = "end" /\ Len(c.wire) = 1 /\ c.sent = <<>>
        /\ c.serving = Nothing
    <3>1. /\ c.sent = <<>> /\ c.serving = Nothing
          /\ 1 = Len(c.wire) /\ c.wire[1] = Message("end", q)
      BY <1>2, <1>3, <1>8 DEF DrainLine
    <3> QED BY <1>3, <1>5, <3>1
  <2> QED BY <1>0, <1>1, <1>3, <1>4, <1>8, <2>1
<1> QED BY <1>6, <1>7, <1>8

\* END_OF_STREAM: nothing is left.
LEMMA EndOfLine ==
  ASSUME SoloKept, At \in {"reading", "draining"}, Got(Me, {"end"}), Received(Me),
         EndOfStream(Me), Leave(Me), UNCHANGED <<socket, call, on, query, queries>>,
         \/ UNCHANGED stream
         \/ At = "reading" /\ Exhausted(Me)
  PROVE  Turned /\ At' = "idle" /\ executing /\ ~executing' /\ Origin(Me) = query[Me]
<1> DEFINE h == Head(wire[on[Me]])
<1>0. /\ TypeOK /\ Posture /\ Line /\ Undivided
      /\ wire[on[Me]] # <<>> /\ h.kind = "end"
  BY DEF SoloKept, Posture, Got
<1>1. /\ on[Me] = socket /\ socket \in Sockets /\ executing /\ h.of = query[Me]
      /\ Tail(wire[socket]) = <<>> /\ sent[socket] = <<>>
      /\ serving[socket] = Nothing
  BY <1>0, HeadOfLine
<1>2. /\ At' = "idle" /\ waiters' = <<>> /\ UNCHANGED <<link, sent, serving>>
  BY <1>0, SoloEnds DEF Leaves
<1>3. executing' = FALSE /\ wire'[socket] = <<>>
  <2> DEFINE left == [wire EXCEPT ![on[Me]] = Tail(@)]
  <2>1. left[socket] = <<>> /\ DOMAIN left = Sockets /\ socket # 0
    BY <1>0, <1>1 DEF TypeOK, Sockets
  <2> HIDE DEF left
  <2>2. PICK k \in 0..Len(left[socket]) :
          wire' = [left EXCEPT ![socket] = SubSeq(@, k + 1, Len(@))]
    BY <2>1 DEF EndOfStream, left
  <2>3. left[socket] \in Seq(Packets) /\ Len(left[socket]) = 0
    BY <2>1, EmptySeq
  <2>4. SubSeq(left[socket], k + 1, Len(left[socket])) = <<>>
    BY <2>2, <2>3, NothingLeft
  <2> QED BY <1>1, <2>1, <2>2, <2>4 DEF EndOfStream
<1>4. /\ stream'[Me] <= queries' /\ query'[Me] <= queries'
      /\ stream' \in [Tasks -> 0..MaxQueries]
  <2>1. stream'[Me] \in {stream[Me], 0}
    BY <1>0, OnlyMe DEF Exhausted, TypeOK
  <2>2. stream' \in [Tasks -> 0..MaxQueries]
    BY <1>0, OnlyMe, ExhaustedTypes
  <2>3. queries \in 0..MaxQueries
    BY <1>0 DEF TypeOK
  <2> QED BY <1>0, <2>1, <2>2, <2>3, SessionAssumption DEF Posture, CallsMatch
<1>5. Posture'
  <2>1. NoSocketLeak'
    BY <1>0, <1>2 DEF Posture, NoSocketLeak
  <2>2. At \notin {"closing", "reopening"}
    OBVIOUS
  <2>3. (Undivided /\ CallsMatch /\ SocketKept /\ StreamsMatch)'
    BY <1>0, <1>2, <1>3, <1>4, <2>2
       DEF Posture, Undivided, CallsMatch, SocketKept, StreamsMatch, Establishing, Waits
  <2> QED BY <2>1, <2>3 DEF Posture
<1>6. Line'
  <2> DEFINE d == Talk(socket)'
  <2>1. d.sent = <<>> /\ d.serving = Nothing /\ d.wire = <<>>
    BY <1>1, <1>2, <1>3 DEF Talk
  <2>2. Strays(d)
    <3> HIDE DEF d
    <3> QED BY <2>1 DEF Strays
  <2> QED BY <1>2, <1>3, <2>2 DEF Line
<1>7. TypeOK'
  <2>1. At \in Waits
    BY DEF Waits
  <2>2. blocks' \in [Tasks -> SUBSET (0..MaxQueries)]
    BY <1>0, <2>1, OnlyMe, SoloFacts, ReaderFacts DEF At
  <2>3. WireTypes
    BY <1>0, <1>1, OnlyMe, EndOfStreamTypes
  <2>4. LockTypes /\ ServerTypes
    BY <1>0, OnlyMe, EndTypes
  <2>5. DataTypes
    BY <1>0, <1>3, <1>4, <2>2 DEF DataTypes, TypeOK
  <2> QED BY <2>3, <2>4, <2>5, SoloTypes
<1> QED BY <1>1, <1>2, <1>3, <1>5, <1>6, <1>7 DEF Turned, Origin

LEMMA FetchTurn ==
  ASSUME SoloKept, Fetch(Me)
  PROVE  /\ Turned
         /\ At = "idle" /\ stream[Me] # 0 /\ query'[Me] = stream[Me]
         /\ UNCHANGED <<socket, executing, queries>>
         /\ executing => stream[Me] = query[Me]
         /\ \/ At' = "reading" /\ call'[Me] = "fetch" /\ socket # 0 /\ UNCHANGED stream
            \/ At' = "idle" /\ stream'[Me] = 0 /\ ~executing /\ socket = 0
<1>0. TypeOK /\ Posture /\ Line /\ Undivided
  BY DEF SoloKept, Posture
<1>1. /\ At = "idle" /\ stream[Me] # 0
      /\ call' = [call EXCEPT ![Me] = "fetch"]
      /\ query' = [query EXCEPT ![Me] = stream[Me]]
      /\ blocks' = [blocks EXCEPT ![Me] = {}]
      /\ UNCHANGED <<socket, executing, wire, queries>>
  BY DEF Fetch, At, client
<1>2. /\ query'[Me] = stream[Me] /\ call'[Me] = "fetch"
      /\ stream[Me] \in 0..MaxQueries /\ stream[Me] <= queries
      /\ executing => stream[Me] = query[Me]
  <2>1. executing => stream[Me] \in {0, query[Me]}
    BY <1>0, <1>1 DEF Posture, StreamsMatch
  <2> QED BY <1>0, <1>1, <2>1, OnlyMe DEF TypeOK, Posture, CallsMatch
<1>3. WireTypes /\ Shrinks
  BY <1>0, <1>1 DEF WireTypes, TypeOK, Shrinks, Shrunk
<1>4. ASSUME on' \in [Tasks -> 0..MaxSockets], stream' \in [Tasks -> 0..MaxQueries]
      PROVE  DataTypes
  BY <1>0, <1>1, <1>2, <1>4, OnlyMe DEF DataTypes, TypeOK
<1>5. CASE ReadOn(Me)
  <2>1. /\ socket # 0 /\ pc' = [pc EXCEPT ![Me] = "reading"]
        /\ on' = [on EXCEPT ![Me] = socket]
        /\ UNCHANGED <<holder, waiters, stream, link, sent, serving>>
    BY <1>5 DEF ReadOn, lock
  <2>2. At' = "reading" /\ on'[Me] = socket /\ waiters' = <<>>
    BY <1>0, <2>1, OnlyMe DEF At, TypeOK, Undivided
  <2>3. NoSocketLeak'
    BY <1>0, <1>1, <2>1 DEF Posture, NoSocketLeak
  <2>4. (Undivided /\ CallsMatch /\ SocketKept /\ StreamsMatch)'
    BY <1>0, <1>1, <1>2, <2>1, <2>2
       DEF Posture, Undivided, CallsMatch, SocketKept, StreamsMatch, Establishing, Waits
  <2>5. Line'
    BY <1>0, <1>1, <1>2, <1>3, <2>1, <2>2, LineStays
  <2>6. TypeOK'
    <3>1. LockTypes /\ ServerTypes
      BY <1>0, <2>1, OnlyMe DEF LockTypes, ServerTypes, TypeOK, Places, Waits
    <3>2. DataTypes
      BY <1>0, <1>4, <2>1 DEF TypeOK
    <3> QED BY <1>3, <3>1, <3>2, SoloTypes
  <2> QED BY <1>1, <1>2, <2>1, <2>2, <2>3, <2>4, <2>5, <2>6 DEF Turned, Posture
<1>6. CASE Abort(Me) /\ stream' = [stream EXCEPT ![Me] = 0] /\ UNCHANGED on
           /\ (socket = 0 \/ Contended(socket, Me))
  <2>1. socket = 0 /\ ~executing
    BY <1>0, <1>6, OnlyMe DEF Posture, SocketKept
  <2>2. stream'[Me] = 0 /\ 0 \in 0..MaxQueries /\ queries \in 0..MaxQueries
    BY <1>0, <1>6, OnlyMe, SessionAssumption DEF TypeOK
  <2>3. query'[Me] <= queries' /\ stream'[Me] <= queries'
    BY <1>1, <1>2, <2>2
  <2>4. DataTypes
    BY <1>0, <1>4, <1>6, <2>2 DEF TypeOK
  <2>5. Leave(Me)
    BY <1>6, <2>1 DEF Abort, Connected
  <2>6. At' = "idle" /\ At \notin {"closing", "reopening"}
    BY <1>0, <1>1, <2>5, SoloEnds DEF Leaves
  <2>7. Turned
    BY <1>1, <1>3, <2>1, <2>3, <2>4, <2>5, <2>6, EndTurn
  <2> QED BY <1>1, <1>2, <2>1, <2>2, <2>6, <2>7
<1> QED BY <1>5, <1>6 DEF Fetch

LEMMA DataTurn ==
  ASSUME SoloKept, ReadData(Me)
  PROVE  /\ Turned
         /\ At = "reading" /\ At' = "yielding" /\ executing /\ Origin(Me) = query[Me]
         /\ UNCHANGED <<socket, executing, call, query, stream, queries>>
<1>0. TypeOK /\ Posture /\ Line /\ Undivided
  BY DEF SoloKept, Posture
<1>1. /\ At = "reading" /\ wire[on[Me]] # <<>> /\ Head(wire[on[Me]]).kind = "data"
      /\ Received(Me) /\ Take(Me) /\ pc' = [pc EXCEPT ![Me] = "yielding"]
      /\ UNCHANGED <<socket, executing, holder, waiters, call, on, query, stream, link,
                     sent, serving, queries>>
  BY DEF ReadData, At, Got, client, lock
<1>2. on[Me] = socket /\ socket \in Sockets /\ executing /\ Origin(Me) = query[Me]
  BY <1>1, HeadOfLine DEF Origin
<1>3. WireTypes /\ Shrinks
  BY <1>0, <1>1, <1>2, SoloTaken
<1>4. At' = "yielding"
  BY <1>0, <1>1, OnlyMe DEF At, TypeOK
<1>5. Line'
  BY <1>0, <1>1, <1>3, <1>4, LineStays
<1>6. Posture'
  <2>1. NoSocketLeak'
    BY <1>0, <1>1 DEF Posture, NoSocketLeak
  <2>2. (Undivided /\ CallsMatch /\ SocketKept /\ StreamsMatch)'
    BY <1>0, <1>1, <1>2, <1>4
       DEF Posture, Undivided, CallsMatch, SocketKept, StreamsMatch, Establishing, Waits
  <2> QED BY <2>1, <2>2 DEF Posture
<1>7. TypeOK'
  <2>1. LockTypes /\ ServerTypes
    BY <1>0, <1>1, OnlyMe DEF LockTypes, ServerTypes, TypeOK, Places
  <2>2. blocks' \in [Tasks -> SUBSET (0..MaxQueries)]
    BY <1>0, <1>1, OnlyMe, SoloFacts, ReaderFacts DEF At, Waits
  <2>3. DataTypes
    BY <1>0, <1>1, <2>2 DEF DataTypes, TypeOK
  <2> QED BY <1>3, <2>1, <2>3, SoloTypes
<1> QED BY <1>1, <1>2, <1>4, <1>5, <1>6, <1>7 DEF Turned

LEMMA ResumeTurn ==
  ASSUME SoloKept, Resume(Me)
  PROVE  /\ Turned
         /\ At = "yielding"
         /\ UNCHANGED <<socket, executing, call, query, stream, queries>>
         /\ \/ call[Me] = "fetch" /\ At' = "idle"
            \/ call[Me] = "execute" /\ At' = "reading"
<1>0. TypeOK /\ Posture /\ Line /\ Undivided
  BY DEF SoloKept, Posture
<1>1. /\ At = "yielding" /\ socket # 0 /\ socket \in 0..MaxSockets
      /\ call[Me] \in {"execute", "fetch"}
      /\ UNCHANGED <<socket, executing, call, query, blocks, wire, queries>>
  BY <1>0 DEF Resume, At, client, Posture, SocketKept, CallsMatch, TypeOK
<1>2. /\ waiters' = <<>> /\ UNCHANGED <<stream, link, sent, serving>>
      /\ \/ call[Me] = "fetch" /\ At' = "idle" /\ UNCHANGED on /\ Leave(Me)
         \/ /\ call[Me] = "execute" /\ At' = "reading" /\ on'[Me] = socket
            /\ on' = [on EXCEPT ![Me] = socket] /\ UNCHANGED holder
            /\ pc' = [pc EXCEPT ![Me] = "reading"]
  <2>1. CASE call[Me] = "fetch"
    BY <1>0, <1>1, <2>1, SoloEnds DEF Resume, Leaves
  <2>2. CASE call[Me] # "fetch"
    <3>1. ReadOn(Me)
      BY <1>1, <2>2, OnlyMe DEF Resume, CannotRead
    <3> QED BY <1>0, <1>1, <2>2, <3>1, OnlyMe DEF ReadOn, lock, At, TypeOK, Undivided
  <2> QED BY <2>1, <2>2
<1>3. WireTypes /\ Shrinks
  BY <1>0, <1>1 DEF WireTypes, TypeOK, Shrinks, Shrunk
<1>4. Line'
  BY <1>0, <1>1, <1>2, <1>3, LineStays
<1>5. Posture'
  <2>1. NoSocketLeak'
    BY <1>0, <1>1, <1>2 DEF Posture, NoSocketLeak
  <2>2. (Undivided /\ CallsMatch /\ SocketKept /\ StreamsMatch)'
    BY <1>0, <1>1, <1>2
       DEF Posture, Undivided, CallsMatch, SocketKept, StreamsMatch, Establishing, Waits
  <2> QED BY <2>1, <2>2 DEF Posture
<1>6. TypeOK'
  <2>1. LockTypes
    <3>1. CASE Leave(Me)
      BY <1>0, <3>1, OnlyMe, EndTypes
    <3>2. CASE UNCHANGED holder /\ pc' = [pc EXCEPT ![Me] = "reading"]
      BY <1>0, <1>2, <3>2, OnlyMe DEF LockTypes, TypeOK, Places, Waits, Undivided
    <3> QED BY <1>2, <3>1, <3>2
  <2>2. ServerTypes /\ DataTypes
    BY <1>0, <1>1, <1>2 DEF ServerTypes, DataTypes, TypeOK
  <2> QED BY <1>3, <2>1, <2>2, SoloTypes
<1> QED BY <1>1, <1>2, <1>4, <1>5, <1>6 DEF Turned

LEMMA StreamBounded ==
  ASSUME SoloKept, Exhausted(Me) \/ UNCHANGED stream, UNCHANGED <<query, queries>>
  PROVE  /\ query'[Me] <= queries' /\ stream'[Me] <= queries'
         /\ stream' \in [Tasks -> 0..MaxQueries]
<1>0. TypeOK
  BY DEF SoloKept
<1>1. stream' \in [Tasks -> 0..MaxQueries]
  BY <1>0, OnlyMe, ExhaustedTypes
<1>2. stream'[Me] \in {stream[Me], 0} /\ queries \in 0..MaxQueries
  BY <1>0, OnlyMe DEF Exhausted, TypeOK
<1>3. query[Me] <= queries /\ stream[Me] <= queries
  BY DEF SoloKept, Posture, CallsMatch
<1> QED BY <1>1, <1>2, <1>3, SessionAssumption

LEMMA ReadEndTurn ==
  ASSUME SoloKept, ReadEnd(Me)
  PROVE  /\ Turned
         /\ At = "reading" /\ At' = "idle" /\ executing /\ ~executing'
         /\ Origin(Me) = query[Me]
         /\ Exhausted(Me) /\ UNCHANGED <<socket, call, query, queries>>
BY EndOfLine DEF ReadEnd, At

LEMMA DrainedTurn ==
  ASSUME SoloKept, Drained(Me)
  PROVE  /\ Turned
         /\ At = "draining" /\ At' = "idle" /\ executing /\ ~executing'
         /\ UNCHANGED <<socket, call, query, stream, queries>>
<1>1. /\ At = "draining" /\ Got(Me, {"end"}) /\ Received(Me) /\ EndOfStream(Me)
      /\ Leave(Me) /\ UNCHANGED <<socket, call, on, query, queries>> /\ UNCHANGED stream
  BY DEF Drained, At
<1> QED BY <1>1, EndOfLine

\* A result that cannot be read any further: the socket is closed.
LEMMA BreakTurn ==
  ASSUME SoloKept,
         ReadFails(Me) \/ CancelRead(Me) \/ SampleFails(Me) \/ DrainFails(Me)
  PROVE  /\ Turned
         /\ At \in {"reading", "yielding", "sampling", "draining"} /\ At' = "closing"
         /\ UNCHANGED <<socket, executing, call, query, queries>>
         /\ Exhausted(Me) \/ (UNCHANGED stream /\ At \in {"sampling", "draining"})
<1>0. TypeOK /\ Posture /\ Line
  BY DEF SoloKept
<1>1. /\ At \in {"reading", "yielding", "sampling", "draining"}
      /\ At = "yielding" => CancelRead(Me)
      /\ Abort(Me) /\ UNCHANGED <<socket, call, on, query, queries>>
      /\ UNCHANGED blocks
      /\ Exhausted(Me) \/ (UNCHANGED stream /\ At \in {"sampling", "draining"})
  BY DEF ReadFails, CancelRead, SampleFails, DrainFails, At, client
<1>2. ~(At = "sampling" /\ Got(Me, {"end"}))
  <2> SUFFICES ASSUME At = "sampling", Got(Me, {"end"}) PROVE FALSE
    OBVIOUS
  <2>1. wire[on[Me]] # <<>> /\ Head(wire[on[Me]]).kind = "end"
    BY DEF Got
  <2> QED BY <2>1, HeadOfLine
<1>3. /\ UNCHANGED executing
      /\ \/ wire[on[Me]] # <<>> /\ Take(Me) /\ At # "yielding"
         \/ TakeEof(Me) /\ At # "yielding"
         \/ UNCHANGED wire
  BY <1>2 DEF ReadFails, CancelRead, SampleFails, DrainFails, At, client, Got
<1>4. WireTypes /\ Shrinks
  <2>1. UNCHANGED wire => WireTypes /\ Shrinks
    BY <1>0 DEF WireTypes, TypeOK, Shrinks, Shrunk
  <2>2. At # "yielding" => on[Me] \in Sockets
    BY <1>0, <1>1, SoloFacts DEF Waits
  <2> QED BY <1>0, <1>3, <2>1, <2>2, SoloTaken
<1>5. /\ query'[Me] <= queries' /\ stream'[Me] <= queries'
      /\ stream' \in [Tasks -> 0..MaxQueries]
  BY <1>1, StreamBounded
<1>6. DataTypes
  BY <1>0, <1>1, <1>3, <1>5 DEF DataTypes, TypeOK
<1>7. Turned /\ At' \in {"idle", "closing"} /\ (At' = "idle" => ~Connected)
  BY <1>1, <1>3, <1>4, <1>5, <1>6, AbortTurn
<1>8. Connected
  BY <1>0, <1>1 DEF Posture, SocketKept, Waits, Connected
<1> QED BY <1>1, <1>3, <1>7, <1>8

LEMMA SampledTurn ==
  ASSUME SoloKept, Sampled(Me)
  PROVE  /\ Turned
         /\ At = "sampling" /\ At' \in {"draining", "closing"}
         /\ UNCHANGED <<socket, executing, call, query, stream, queries>>
<1>0. TypeOK /\ Posture /\ Line /\ Undivided /\ DeadIsSilent
  BY DEF SoloKept, Posture
<1>1. /\ At = "sampling" /\ wire[on[Me]] # <<>> /\ Head(wire[on[Me]]).kind = "data"
      /\ Received(Me) /\ Take(Me)
      /\ UNCHANGED <<socket, executing, call, query, stream, queries>>
  BY DEF Sampled, At, Got, client
<1>2. /\ on[Me] = socket /\ socket \in Sockets /\ socket # 0 /\ executing
      /\ Tail(wire[socket]) = <<>> /\ sent[socket] = <<>>
      /\ serving[socket] \in {Nothing, Message("insert", query[Me])}
      /\ socket \in 0..MaxSockets
  <2>1. /\ on[Me] = socket /\ socket \in Sockets /\ executing
        /\ Tail(wire[socket]) = <<>> /\ sent[socket] = <<>>
        /\ serving[socket] \in {Nothing, Message("insert", query[Me])}
    BY <1>1, HeadOfLine
  <2> QED BY <1>0, <2>1 DEF TypeOK, Sockets
<1>3. WireTypes /\ Shrinks
  BY <1>0, <1>1, <1>2, SoloTaken
<1>4. /\ query'[Me] <= queries' /\ stream'[Me] <= queries'
      /\ stream' \in [Tasks -> 0..MaxQueries]
  BY <1>1, StreamBounded
<1>5. blocks' \in [Tasks -> SUBSET (0..MaxQueries)]
  BY <1>0, <1>1, OnlyMe, SoloFacts, ReaderFacts DEF At, Waits
<1>6. on' \in [Tasks -> 0..MaxSockets] => DataTypes
  BY <1>0, <1>1, <1>4, <1>5 DEF DataTypes, TypeOK
<1>7. CASE Abort(Me) /\ UNCHANGED on
  <2>1. DataTypes
    BY <1>0, <1>6, <1>7 DEF TypeOK
  <2>2. Turned /\ At' \in {"idle", "closing"} /\ (At' = "idle" => ~Connected)
    BY <1>1, <1>3, <1>4, <1>7, <2>1, AbortTurn
  <2> QED BY <1>1, <1>2, <2>2 DEF Connected
<1>8. CASE /\ Writable /\ pc' = [pc EXCEPT ![Me] = "draining"]
           /\ on' = [on EXCEPT ![Me] = socket]
           /\ sent' = Sending(socket, Message("rows", query[Me]))
           /\ UNCHANGED <<holder, waiters, link, serving>>
  <2>1. At' = "draining" /\ on'[Me] = socket /\ waiters' = <<>>
    BY <1>0, <1>8, OnlyMe DEF At, TypeOK, Undivided
  <2>2. NoSocketLeak'
    BY <1>0, <1>1, <1>8 DEF Posture, NoSocketLeak
  <2>3. (Undivided /\ CallsMatch /\ SocketKept /\ StreamsMatch)'
    BY <1>0, <1>1, <1>2, <1>4, <1>8, <2>1
       DEF Posture, Undivided, CallsMatch, SocketKept, StreamsMatch, Establishing, Waits
  <2>4. Message("rows", query[Me]) \in Requests
    BY <1>0, OnlyMe, MessageTypes DEF TypeOK
  <2>5. Line'
    <3> DEFINE d == Talk(socket)'
               m == Message("rows", query[Me])
    <3>1. d.wire = <<>> /\ d.serving = serving[socket]
      BY <1>0, <1>1, <1>2, <1>8 DEF Talk, Take, TypeOK
    <3>2. \/ d.sent = <<m>>
          \/ d.sent = <<>> /\ d.serving = Nothing
      <4>1. CASE Broken(socket)
        BY <1>0, <1>1, <1>2, <1>8, <4>1 DEF Talk, Sending, Broken, DeadIsSilent
      <4>2. CASE ~Broken(socket)
        <5>1. sent' = [sent EXCEPT ![socket] = Append(@, m)]
          BY <1>8, <4>2 DEF Sending
        <5>2. sent'[socket] = Append(<<>>, m)
          BY <1>0, <1>2, <5>1 DEF TypeOK
        <5> QED BY <1>1, <5>2, Singleton DEF Talk
      <4> QED BY <4>1, <4>2
    <3>3. DrainLine(d, query[Me])
      <4>1. m = Message("rows", query[Me])
        OBVIOUS
      <4> HIDE DEF d, m
      <4> QED BY <1>2, <3>1, <3>2, <4>1 DEF DrainLine
    <3> QED BY <1>1, <1>2, <2>1, <3>3 DEF Line
  <2>6. TypeOK'
    <3>1. sent' \in [Sockets -> Seq(Requests)]
      BY <1>0, <1>2, <1>8, <2>4, SendTypes
    <3>2. LockTypes /\ ServerTypes
      BY <1>0, <1>8, <3>1, OnlyMe DEF LockTypes, ServerTypes, TypeOK, Places, Waits
    <3>3. DataTypes
      BY <1>0, <1>2, <1>6, <1>8 DEF TypeOK
    <3> QED BY <1>3, <3>2, <3>3, SoloTypes
  <2> QED BY <1>1, <2>1, <2>2, <2>3, <2>5, <2>6 DEF Turned, Posture
<1> QED BY <1>7, <1>8 DEF Sampled, lock

\* The task lets go of its stream, or takes up an earlier one.
SwapsStream ==
  /\ At = "idle"
  /\ \E q \in 0..MaxQueries :
       /\ q <= queries /\ (executing => q = 0)
       /\ stream' = [stream EXCEPT ![Me] = q]
  /\ UNCHANGED <<client, lock, pc, call, on, query, blocks, link, server, queries>>

LEMMA SwapTurn ==
  ASSUME SoloKept, SwapsStream
  PROVE  Turned
<1>0. /\ TypeOK /\ Posture /\ Line /\ At = "idle"
      /\ UNCHANGED <<socket, executing, holder, waiters, pc, call, on, query, blocks,
                     link, sent, serving, wire, queries>>
  BY DEF SwapsStream, SoloKept, client, lock, server
<1>1. PICK q \in 0..MaxQueries :
        /\ q <= queries /\ (executing => q = 0)
        /\ stream' = [stream EXCEPT ![Me] = q]
  BY DEF SwapsStream
<1>2. stream'[Me] = q /\ stream' \in [Tasks -> 0..MaxQueries] /\ stream'[Me] <= queries'
  BY <1>0, <1>1, OnlyMe DEF TypeOK
<1>3. TypeOK'
  BY <1>0, <1>2 DEF TypeOK
<1>4. At' = "idle"
  BY <1>0 DEF At
<1>5. Posture'
  BY <1>0, <1>1, <1>2, <1>4
     DEF Posture, Undivided, CallsMatch, SocketKept, StreamsMatch, NoSocketLeak,
         Establishing, Waits
<1>6. Line'
  BY <1>0, <1>4 DEF Line, Talk
<1> QED BY <1>3, <1>5, <1>6 DEF Turned

-----------------------------------------------------------------------------
(* The calls of asynch/connection.py *)

LEMMA PingTurn ==
  ASSUME SoloKept, Ping(Me)
  PROVE  /\ Turned
         /\ At = "idle" /\ At' \in {"pinging", "closing"} /\ ~executing
         /\ UNCHANGED <<socket, executing, query, stream, queries>>
<1>0. TypeOK /\ Posture /\ Line /\ Undivided
  BY DEF SoloKept, Posture
<1>1. /\ At = "idle" /\ ~executing /\ socket # 0 /\ Connected
      /\ call' = [call EXCEPT ![Me] = "ping"]
      /\ UNCHANGED <<socket, executing, query, stream, blocks, queries>>
  BY DEF Ping, At, client, Connected
<1>2. socket \in Sockets /\ socket \in 0..MaxSockets /\ call'[Me] = "ping"
      /\ query'[Me] <= queries' /\ stream'[Me] <= queries'
  <2>1. query'[Me] <= queries' /\ stream'[Me] <= queries'
    BY <1>1, Bounded
  <2> QED BY <1>0, <1>1, <2>1, OnlyMe DEF TypeOK, Sockets
<1>3. on' \in [Tasks -> 0..MaxSockets] => DataTypes
  BY <1>0, <1>1 DEF DataTypes, TypeOK, AllCalls
<1>4. CASE wire' = [wire EXCEPT ![socket] = <<>>] /\ CloseFirst(Me) /\ UNCHANGED on
  <2>1. WireTypes /\ Shrinks
    BY <1>0, <1>2, <1>4 DEF WireTypes, TypeOK, Shrinks, Shrunk
  <2>2. DataTypes
    BY <1>0, <1>3, <1>4 DEF TypeOK
  <2>3. Turned /\ At' \in {"idle", "closing"} /\ (At' = "idle" => ~Connected)
    BY <1>1, <1>2, <1>4, <2>1, <2>2, AbortTurn
  <2> QED BY <1>1, <2>3
<1>5. CASE /\ pc' = [pc EXCEPT ![Me] = "pinging"]
           /\ on' = [on EXCEPT ![Me] = socket]
           /\ sent' = Sending(socket, Message("ping", 0))
           /\ UNCHANGED <<lock, link, serving, wire>>
  <2>1. Message("ping", 0) \in Requests /\ StrayRequest(Message("ping", 0))
    <3>1. 0 \in 0..MaxQueries BY SessionAssumption
    <3> QED BY <3>1, StrayMessages
  <2>2. At' = "pinging" /\ on'[Me] = socket /\ waiters' = <<>>
    BY <1>0, <1>5, OnlyMe DEF At, TypeOK, Undivided, lock
  <2>3. TypeOK'
    <3>1. sent' \in [Sockets -> Seq(Requests)]
      BY <1>0, <1>2, <1>5, <2>1, SendTypes
    <3>2. ServerTypes /\ WireTypes
      BY <1>0, <1>5, <3>1 DEF ServerTypes, WireTypes, TypeOK
    <3>3. LockTypes
      BY <1>0, <1>5, OnlyMe DEF LockTypes, TypeOK, Places, Waits, lock
    <3>4. DataTypes
      BY <1>0, <1>2, <1>3, <1>5 DEF TypeOK
    <3> QED BY <3>2, <3>3, <3>4, SoloTypes
  <2>4. Posture'
    <3>1. NoSocketLeak'
      BY <1>0, <1>1, <1>5 DEF Posture, NoSocketLeak
    <3>2. (Undivided /\ CallsMatch /\ SocketKept /\ StreamsMatch)'
      BY <1>0, <1>1, <1>2, <1>5, <2>2
         DEF Posture, Undivided, CallsMatch, SocketKept, StreamsMatch, Establishing,
             Waits
    <3> QED BY <3>1, <3>2 DEF Posture
  <2>5. Line'
    <3> SUFFICES ASSUME link[socket] # "shut" PROVE Strays(Talk(socket)')
      BY <1>1, <1>5, <2>2 DEF Line
    <3> DEFINE c == Talk(socket)
               d == Talk(socket)'
    <3>1. Strays(c) /\ c.sent \in Seq(Requests) /\ c.wire \in Seq(Packets)
      BY <1>0, <1>1, TalkTypes DEF Line
    <3>2. /\ d.wire = c.wire /\ d.serving = c.serving
          /\ d.sent = c.sent \/ d.sent = Append(c.sent, Message("ping", 0))
      BY <1>0, <1>1, <1>2, <1>5 DEF Talk, Sending, TypeOK
    <3> HIDE DEF c, d
    <3>3. ASSUME d.sent = c.sent PROVE Strays(d)
      BY <3>1, <3>2, <3>3 DEF Strays
    <3>4. ASSUME d.sent = Append(c.sent, Message("ping", 0)) PROVE Strays(d)
      <4>1. Shrunk(c.wire, d.wire)
        BY <3>2 DEF Shrunk
      <4> QED BY <2>1, <3>1, <3>2, <3>4, <4>1, LinesAsk
    <3> QED BY <3>2, <3>3, <3>4 DEF d
  <2> QED BY <1>1, <2>2, <2>3, <2>4, <2>5 DEF Turned
<1>6. ~Contended(socket, Me)
  BY OnlyMe
<1> QED BY <1>4, <1>5, <1>6 DEF Ping

\* A ping that is over, however it ended.
LEMMA PingEndTurn ==
  ASSUME SoloKept, At = "pinging",
         Leave(Me) \/ CloseFirst(Me),
         \/ wire[on[Me]] # <<>> /\ Take(Me)
         \/ TakeEof(Me)
         \/ UNCHANGED wire,
         UNCHANGED <<client, call, on, query, stream, blocks, queries>>
  PROVE  Turned /\ At' \in {"idle", "closing"} /\ ~executing
<1>0. TypeOK /\ Posture /\ ~executing /\ on[Me] \in Sockets
  BY SoloFacts DEF SoloKept, Posture, SocketKept, Establishing, Waits
<1>1. WireTypes /\ Shrinks
  BY <1>0, SoloTaken
<1>2. DataTypes
  BY <1>0 DEF DataTypes, TypeOK, client
<1>3. query'[Me] <= queries' /\ stream'[Me] <= queries'
  BY Bounded
<1> QED BY <1>0, <1>1, <1>2, <1>3, EndTurn DEF client

LEMMA CloseTurn ==
  ASSUME SoloKept, Close(Me)
  PROVE  /\ Turned
         /\ At = "idle" /\ At' = "closing"
         /\ UNCHANGED <<socket, executing, query, stream, queries>>
<1>0. TypeOK
  BY DEF SoloKept
<1>1. /\ At = "idle" /\ Connected /\ CloseFirst(Me)
      /\ call' = [call EXCEPT ![Me] = "close"]
      /\ UNCHANGED <<socket, executing, on, query, stream, blocks, wire, queries>>
  BY DEF Close, At, client
<1>2. WireTypes /\ Shrinks /\ DataTypes
  BY <1>0, <1>1 DEF WireTypes, DataTypes, TypeOK, Shrinks, Shrunk, AllCalls
<1>3. query'[Me] <= queries' /\ stream'[Me] <= queries'
  BY <1>1, Bounded
<1> QED BY <1>1, <1>2, <1>3, AbortTurn

LEMMA TerminateTurn ==
  ASSUME SoloKept, Terminate(Me)
  PROVE  /\ Turned
         /\ At = "idle" /\ At' = "idle" /\ socket' = 0 /\ ~executing'
         /\ UNCHANGED <<call, query, stream, queries>>
<1>0. TypeOK /\ Posture
  BY DEF SoloKept
<1>1. /\ At = "idle" /\ Connected /\ Shut /\ socket' = 0 /\ executing' = FALSE
      /\ UNCHANGED <<holder, waiters, pc, call, on, query, stream, blocks, wire, queries>>
  BY DEF Terminate, At, Reset, lock, tasks
<1>2. /\ socket \in Sockets /\ At' = "idle"
      /\ link' = [link EXCEPT ![socket] = "shut"]
      /\ sent' = [sent EXCEPT ![socket] = <<>>]
      /\ serving' = [serving EXCEPT ![socket] = Nothing]
  BY <1>0, <1>1, SoloFacts DEF Shut, At
<1>3. TypeOK'
  <2>1. 0 \in 0..MaxSockets /\ Nothing \in Requests
    BY SessionAssumption, MessageTypes
  <2>2. ServerTypes
    BY <1>0, <1>2, <2>1 DEF ServerTypes, TypeOK
  <2>3. LockTypes /\ WireTypes
    BY <1>0, <1>1 DEF LockTypes, WireTypes, TypeOK
  <2>4. DataTypes
    BY <1>0, <1>1, <2>1 DEF DataTypes, TypeOK
  <2> QED BY <2>2, <2>3, <2>4, SoloTypes
<1>4. NoSocketLeak'
  BY <1>0, <1>1, <1>2 DEF Posture, NoSocketLeak, TypeOK
<1>5. (Undivided /\ CallsMatch /\ SocketKept /\ StreamsMatch)'
  BY <1>0, <1>1, <1>2
     DEF Posture, Undivided, CallsMatch, SocketKept, StreamsMatch, Establishing, Waits
<1> QED BY <1>1, <1>2, <1>3, <1>4, <1>5, LineGone DEF Turned, Posture

LEMMA OpenTurn ==
  ASSUME SoloKept, Connect(Me)
  PROVE  /\ Turned
         /\ At = "idle" /\ At' = "dialing" /\ call'[Me] = "connect" /\ ~executing
         /\ UNCHANGED <<socket, executing, query, stream, queries>>
<1>0. TypeOK /\ Posture
  BY DEF SoloKept
<1>1. /\ At = "idle" /\ socket = 0
      /\ call' = [call EXCEPT ![Me] = "connect"]
      /\ pc' = [pc EXCEPT ![Me] = "dialing"]
      /\ UNCHANGED <<socket, executing, holder, waiters, on, query, stream, blocks, link,
                     sent, serving, wire, queries>>
  BY DEF Connect, At, client, lock, server, Connected
<1>2. At' = "dialing" /\ call'[Me] = "connect" /\ ~executing
  BY <1>0, <1>1, OnlyMe DEF At, TypeOK, Posture, SocketKept
<1>3. TypeOK'
  BY <1>0, <1>1 DEF TypeOK, AllCalls, Places
<1>4. NoSocketLeak'
  BY <1>0, <1>1 DEF Posture, NoSocketLeak
<1>5. (Undivided /\ CallsMatch /\ SocketKept /\ StreamsMatch)'
  BY <1>0, <1>1, <1>2
     DEF Posture, Undivided, CallsMatch, SocketKept, StreamsMatch, Establishing, Waits,
         Queries
<1>6. Line'
  BY <1>1, LineGone
<1> QED BY <1>1, <1>2, <1>3, <1>4, <1>5, <1>6 DEF Turned, Posture

-----------------------------------------------------------------------------
(* Every step *)

\* Connection.ping() of a socket that is lost, inside _refresh().
PingsInVain ==
  /\ At = "pinging" /\ Broken(on[Me]) /\ CloseFirst(Me)
  /\ UNCHANGED <<client, call, on, query, stream, blocks, wire, queries>>

SoloTurn ==
  \/ Begins
  \/ At # "idle" /\ (Advance(Me) \/ Cancels)
  \/ Fetch(Me) \/ Ping(Me) \/ Close(Me) \/ Terminate(Me) \/ Connect(Me)
  \/ PingsInVain \/ SwapsStream

\* A call that has not begun enters force_connect only from idle.
LEMMA Suspended ==
  ASSUME SoloKept, At # "idle"
  PROVE  ~Enters(Me)
BY DEF SoloKept, Posture, Undivided, Enters, At

LEMMA TurnTaken ==
  ASSUME SoloKept, SoloTurn
  PROVE  Turned
<1>1. CASE Begins
  BY <1>1, BeginsTurn
<1>2. CASE At # "idle" /\ (Advance(Me) \/ Cancels)
  <2>1. ~(Reject(Me) \/ Dial(Me) \/ Probe(Me) \/ ProbeBroken(Me) \/ ProbeContended(Me))
    BY <1>2, Suspended DEF Reject, Dial, Probe, ProbeBroken, ProbeContended
  <2>2. CASE \/ ProbeAnswered(Me) \/ ProbeFails(Me) \/ ProbeLost(Me)
             \/ DialFails(Me) \/ Greeted(Me) \/ GreetFails(Me) \/ GreetLost(Me)
             \/ Reopened(Me) \/ Closed(Me) \/ CancelDial(Me) \/ CancelClose(Me)
    BY <2>2, ConnectTurn
  <2>3. CASE Dialed(Me)
    BY <2>3, DialTurn
  <2>4. CASE ReadData(Me) \/ Resume(Me) \/ ReadEnd(Me)
    BY <2>4, DataTurn, ResumeTurn, ReadEndTurn
  <2>5. CASE ReadFails(Me) \/ CancelRead(Me) \/ SampleFails(Me) \/ DrainFails(Me)
    BY <2>5, BreakTurn
  <2>6. CASE Sampled(Me) \/ Drained(Me)
    BY <2>6, SampledTurn, DrainedTurn
  <2>7. CASE PingAnswered(Me) \/ PingFails(Me) \/ PingTimeout(Me) \/ PingCancelled(Me)
    <3>1. /\ At = "pinging"
          /\ Leave(Me) \/ CloseFirst(Me)
          /\ \/ wire[on[Me]] # <<>> /\ Take(Me)
             \/ TakeEof(Me)
             \/ UNCHANGED wire
          /\ UNCHANGED <<client, call, on, query, stream, blocks, queries>>
      BY <2>7 DEF PingAnswered, PingFails, PingTimeout, PingCancelled, Got, At
    <3> QED BY <3>1, PingEndTurn
  <2> QED BY <1>2, <2>1, <2>2, <2>3, <2>4, <2>5, <2>6, <2>7 DEF Advance, Cancels
<1>3. CASE Fetch(Me)
  BY <1>3, FetchTurn
<1>4. CASE Ping(Me)
  BY <1>4, PingTurn
<1>5. CASE Close(Me)
  BY <1>5, CloseTurn
<1>6. CASE Terminate(Me)
  BY <1>6, TerminateTurn
<1>7. CASE Connect(Me)
  BY <1>7, OpenTurn
<1>8. CASE PingsInVain
  BY <1>8, PingEndTurn DEF PingsInVain
<1>9. CASE SwapsStream
  BY <1>9, SwapTurn
<1> QED BY <1>1, <1>2, <1>3, <1>4, <1>5, <1>6, <1>7, <1>8, <1>9 DEF SoloTurn

LEMMA SoloSilent ==
  ASSUME SoloKept, SoloTurn
  PROVE  DeadIsSilent'
<1>0. TypeOK /\ ReadersHaveSockets /\ DeadIsSilent
  BY SoloFacts DEF SoloKept
<1>1. CASE Advance(Me) \/ Disturb(Me)
  BY <1>0, <1>1, OnlyMe, Effects, SilentMove
<1>2. CASE PingsInVain
  <2>1. UNCHANGED wire /\ CloseFirst(Me)
    BY <1>2 DEF PingsInVain
  <2>2. Reaches(Me) /\ TakesOnly
    BY <1>0, <2>1, EndReaches, TakingFacts, OnlyMe DEF Reaches
  <2> QED BY <1>0, <2>2, OnlyMe, SilentMove
<1>3. CASE Connect(Me) \/ SwapsStream
  <2>1. UNCHANGED <<link, sent, serving, wire>>
    BY <1>3 DEF Connect, SwapsStream, server
  <2> QED BY <1>0, <2>1 DEF DeadIsSilent
<1> QED BY <1>1, <1>2, <1>3 DEF SoloTurn, Begins, Cancels, Advance, Disturb, Interfere

\* A step of the task, of the server or of the network.
LEMMA SoloStep ==
  ASSUME SoloKept, SoloTurn \/ (\E s \in Sockets : ServerStep(s)) \/ UNCHANGED vars
  PROVE  SoloKept'
<1>1. CASE SoloTurn
  BY <1>1, TurnTaken, SoloSilent DEF Turned, SoloKept
<1>2. CASE \E s \in Sockets : ServerStep(s)
  BY <1>2, SoloServer
<1>3. CASE UNCHANGED vars
  BY <1>3
     DEF vars, SoloKept, TypeOK, Posture, Undivided, CallsMatch, SocketKept, StreamsMatch,
         NoSocketLeak, DeadIsSilent, Line, Talk, At
<1> QED BY <1>1, <1>2, <1>3

LEMMA SoloInit ==
  ASSUME Init
  PROVE  SoloKept
<1>1. TypeOK
  BY KeptInit DEF Kept
<1>2. DeadIsSilent
  BY DEF Init, DeadIsSilent
<1>3. At = "idle" /\ query[Me] = 0 /\ stream[Me] = 0 /\ queries = 0 /\ socket = 0
      /\ executing = FALSE /\ waiters = <<>>
  BY OnlyMe DEF Init, At
<1>4. Undivided /\ CallsMatch /\ SocketKept /\ StreamsMatch /\ Line
  BY <1>3
     DEF Undivided, CallsMatch, SocketKept, StreamsMatch, Line, Establishing, Waits
<1>5. NoSocketLeak
  BY DEF Init, NoSocketLeak
<1> QED BY <1>1, <1>2, <1>4, <1>5 DEF SoloKept, Posture

-----------------------------------------------------------------------------
(* Where the steps of a call lead *)

\* A connection that is being set up, and does not send the query.
Settling ==
  \/ ProbeFails(Me) \/ ProbeLost(Me) \/ Dialed(Me) \/ DialFails(Me)
  \/ GreetFails(Me) \/ GreetLost(Me) \/ CancelDial(Me)
  \/ (Greeted(Me) /\ call[Me] = "connect")

LEMMA SettlingMoves ==
  ASSUME SoloKept, Settling
  PROVE  /\ UNCHANGED <<executing, call, query, stream, queries>> /\ ~executing
         /\ \/ At = "probing" /\ At' \in {"closing", "reopening"}
            \/ At = "dialing" /\ At' \in {"greeting", "idle"}
            \/ At = "greeting" /\ At' = "closing"
            \/ At = "greeting" /\ At' = "idle" /\ call[Me] = "connect"
<1>0. TypeOK /\ Posture /\ Undivided
  BY DEF SoloKept, Posture
<1>1. /\ At \in {"probing", "dialing", "greeting"}
      /\ UNCHANGED <<executing, call, query, stream, queries>>
  BY DEF Settling, ProbeFails, ProbeLost, Dialed, DialFails, GreetFails, GreetLost,
         CancelDial, Greeted, client, At
<1>2. /\ ~executing
      /\ At = "dialing" => ~Connected
      /\ At # "dialing" => Connected
      /\ At = "probing" => call[Me] # "connect"
  BY <1>0, <1>1
     DEF Posture, SocketKept, CallsMatch, Establishing, Waits, Connected, Queries
<1>3. ASSUME Abort(Me) \/ CloseFirst(Me) PROVE At' = IF Connected THEN "closing" ELSE "idle"
  BY <1>0, <1>3, SoloEnds DEF ShutsAt, Leaves, Abort, CloseFirst, Connected
<1>4. ASSUME Leave(Me) PROVE At' = "idle"
  BY <1>0, <1>4, SoloEnds DEF Leaves
<1>5. CASE ProbeFails(Me)
  BY <1>1, <1>2, <1>3, <1>5 DEF ProbeFails, At
<1>6. CASE ProbeLost(Me)
  BY <1>0, <1>1, <1>2, <1>6, SoloEnds DEF ProbeLost, At, ShutsAt
<1>7. CASE Dialed(Me)
  BY <1>0, <1>1, <1>2, <1>7, OnlyMe DEF Dialed, At, TypeOK
<1>8. CASE DialFails(Me) \/ GreetLost(Me)
  BY <1>1, <1>2, <1>3, <1>8 DEF DialFails, GreetLost, At
<1>9. CASE GreetFails(Me) \/ CancelDial(Me)
  BY <1>1, <1>2, <1>3, <1>4, <1>9 DEF GreetFails, CancelDial, At, Fail
<1>10. CASE Greeted(Me) /\ call[Me] = "connect"
  BY <1>1, <1>2, <1>4, <1>10 DEF Greeted, At
<1> QED BY <1>1, <1>2, <1>5, <1>6, <1>7, <1>8, <1>9, <1>10 DEF Settling

\* An exception that leaves the call, or is about to.
LEMMA RaisedMoves ==
  ASSUME SoloKept, Raises
  PROVE  /\ UNCHANGED <<call, query, queries>>
         /\ At' \in {"idle", "closing"}
         /\ At' = "idle" =>
              /\ ~executing' /\ UNCHANGED stream
              /\ At \in {"dialing", "greeting", "closing", "reopening", "pinging"}
              /\ At = "greeting" => call[Me] = "connect"
<1>0. TypeOK /\ Posture /\ Undivided
  BY DEF SoloKept, Posture
<1>1. CASE \/ ProbeFails(Me) \/ DialFails(Me) \/ GreetFails(Me) \/ GreetLost(Me)
           \/ CancelDial(Me)
  <2>1. Settling
    BY <1>1 DEF Settling
  <2>2. At' # "greeting" /\ At' # "reopening"
    <3>1. Leave(Me) \/ Abort(Me) \/ CloseFirst(Me) \/ Fail(Me)
      BY <1>1 DEF ProbeFails, DialFails, GreetFails, GreetLost, CancelDial
    <3> QED BY <1>0, <3>1, SoloEnds DEF Fail, ShutsAt, Leaves
  <2> QED BY <2>1, <2>2, SettlingMoves
<1>2. CASE Closed(Me) \/ CancelClose(Me)
  <2>1. /\ At \in {"closing", "reopening"} /\ Leave(Me) /\ Reset
        /\ UNCHANGED <<call, on, query, stream, blocks, wire, queries>>
    BY <1>2 DEF Closed, CancelClose, At
  <2>2. At' = "idle"
    BY <1>0, <2>1, SoloEnds DEF Leaves
  <2> QED BY <2>1, <2>2 DEF Reset
<1>3. CASE ReadFails(Me) \/ CancelRead(Me) \/ SampleFails(Me) \/ DrainFails(Me)
  BY <1>3, BreakTurn
<1>4. CASE PingCancelled(Me)
  <2>1. /\ At = "pinging" /\ Leave(Me)
        /\ UNCHANGED <<client, call, on, query, stream, blocks, wire, queries>>
    BY <1>4 DEF PingCancelled, At
  <2>2. At' = "idle" /\ ~executing /\ UNCHANGED executing
    BY <1>0, <2>1, SoloEnds DEF Leaves, Posture, SocketKept, client
  <2> QED BY <2>1, <2>2
<1> QED BY <1>1, <1>2, <1>3, <1>4 DEF Raises, Fails, Cancels

\* A step after which the call is still on its way.
LEMMA OnItsWay ==
  ASSUME SoloKept, At # "idle", At' # "idle", Advance(Me) \/ Cancels
  PROVE  /\ UNCHANGED <<call, query, queries>>
         /\ At # "closing" /\ At' \notin {"idle", "locking", "granted", "pinging"}
         /\ At \in {"reading", "yielding", "pinging"} =>
              At' \in {"reading", "yielding", "closing"}
         /\ At = "pinging" => At' = "closing"
         /\ call[Me] = "connect" /\ At \in {"dialing", "greeting"} =>
              At' \in {"greeting", "closing"}
         /\ At' = "reading" => call[Me] = "execute"
         /\ At' = "yielding" =>
              At = "reading" /\ executing /\ executing' /\ Origin(Me) = query[Me]
         /\ At' = "closing" /\ At \in {"reading", "yielding"} => Exhausted(Me)
         /\ At' # "closing" \/ At \notin {"reading", "yielding"} =>
              \/ UNCHANGED stream
              \/ Exhausted(Me) /\ At \in {"sampling", "draining"}
<1>0. TypeOK /\ Posture /\ Undivided
  BY DEF SoloKept, Posture
<1>1. CASE Settling
  BY <1>1, SettlingMoves
<1>2. CASE Raises
  <2>1. At' = "closing" /\ UNCHANGED <<call, query, queries>>
    BY <1>2, RaisedMoves
  <2>2. CASE ReadFails(Me) \/ CancelRead(Me) \/ SampleFails(Me) \/ DrainFails(Me)
    BY <2>1, <2>2, BreakTurn
  <2>3. CASE \/ ProbeFails(Me) \/ DialFails(Me) \/ GreetFails(Me) \/ GreetLost(Me)
             \/ CancelDial(Me)
    BY <1>1, <2>3 DEF Settling
  <2>4. CASE Closed(Me) \/ CancelClose(Me) \/ PingCancelled(Me)
    <3>1. Leave(Me)
      BY <2>4 DEF Closed, CancelClose, PingCancelled
    <3> QED BY <1>0, <3>1, SoloEnds DEF Leaves
  <2> QED BY <1>2, <2>2, <2>3, <2>4 DEF Raises, Fails, Cancels
<1>3. CASE ProbeAnswered(Me) \/ (Greeted(Me) /\ call[Me] # "connect")
  <2>1. /\ At \in {"probing", "greeting"} /\ call[Me] \in Queries
        /\ wire[on[Me]] # <<>> /\ Take(Me) /\ Proceed(Me)
        /\ UNCHANGED <<socket, call, query, blocks, queries>>
    BY <1>0, <1>3 DEF ProbeAnswered, Greeted, Got, At, Posture, CallsMatch
  <2>2. /\ At' = "closing" => stream' = stream
        /\ At' = "reading" => call[Me] = "execute" /\ stream' = stream
        /\ At' = "sampling" => call[Me] = "insert" /\ stream' = stream
        /\ At' \in {"idle", "closing", "reading", "sampling"}
    BY <2>1, SoloProceed
  <2> QED BY <2>1, <2>2 DEF Queries
<1>4. CASE Reopened(Me)
  <2>1. /\ At = "reopening" /\ At' = "dialing"
        /\ UNCHANGED <<call, query, stream, queries>>
    BY <1>0, <1>4, OnlyMe DEF Reopened, At, TypeOK
  <2> QED BY <2>1
<1>5. CASE ReadData(Me)
  BY <1>5, DataTurn
<1>6. CASE Resume(Me)
  BY <1>6, ResumeTurn
<1>7. CASE ReadEnd(Me)
  BY <1>7, ReadEndTurn
<1>8. CASE Sampled(Me)
  BY <1>8, SampledTurn
<1>9. CASE Drained(Me)
  BY <1>9, DrainedTurn
<1>10. CASE PingAnswered(Me) \/ PingFails(Me)
  <2>1. Leave(Me)
    BY <1>10 DEF PingAnswered, PingFails
  <2> QED BY <1>0, <2>1, SoloEnds DEF Leaves
<1>11. CASE PingTimeout(Me)
  <2>1. /\ At = "pinging" /\ CloseFirst(Me)
        /\ UNCHANGED <<client, call, on, query, stream, blocks, wire, queries>>
    BY <1>11 DEF PingTimeout, At
  <2>2. At' = "closing"
    BY <1>0, <2>1, SoloEnds DEF ShutsAt, Leaves
  <2> QED BY <2>1, <2>2
<1>12. ~(Reject(Me) \/ Dial(Me) \/ Probe(Me) \/ ProbeBroken(Me) \/ ProbeContended(Me))
  BY Suspended DEF Reject, Dial, Probe, ProbeBroken, ProbeContended
<1> QED BY <1>1, <1>2, <1>3, <1>4, <1>5, <1>6, <1>7, <1>8, <1>9, <1>10, <1>11, <1>12
        DEF Advance, Raises, Fails, Settling
=============================================================================
