-------------------------- MODULE ConversationProofs --------------------------
(* Theorems about what is under way between the client of Session and its      *)
(* server: for every set of tasks and every bound, the packets a task reads    *)
(* belong to its own statement.                                                *)
EXTENDS SessionProofs

-----------------------------------------------------------------------------
(* Sequences of one element, or none *)

LEMMA Singleton ==
  ASSUME NEW m
  PROVE  /\ <<m>> # <<>> /\ Len(<<m>>) = 1 /\ DOMAIN <<m>> = {1}
         /\ Head(<<m>>) = m /\ <<m>>[1] = m /\ Tail(<<m>>) = <<>>
         /\ Append(<<>>, m) = <<m>>
<1>1. <<m>> \in Seq({m}) /\ <<>> \in Seq({m}) /\ Len(<<m>>) = 1
      /\ <<m>>[1] = m
  OBVIOUS
<1>2. DOMAIN <<m>> = {1}
  <2>1. 1..1 = {1}
    OBVIOUS
  <2> QED BY <1>1, <2>1, LenProperties
<1>3. Tail(<<m>>) = <<>>
  <2>1. <<m>> # <<>>
    OBVIOUS
  <2>2. Tail(<<m>>) \in Seq({m}) /\ Len(Tail(<<m>>)) = Len(<<m>>) - 1
    BY <1>1, <2>1, HeadTailProperties
  <2>3. Len(Tail(<<m>>)) = 0
    BY <1>1, <2>2
  <2> QED BY <2>2, <2>3, EmptySeq
<1>4. Append(<<>>, m) = <<m>>
  OBVIOUS
<1> QED BY <1>1, <1>2, <1>3, <1>4

\* What is left of an empty buffer.
LEMMA NothingLeft ==
  ASSUME NEW S, NEW q \in Seq(S), Len(q) = 0, NEW k \in 0..Len(q)
  PROVE  SubSeq(q, k + 1, Len(q)) = <<>>
<1>1. q = <<>> /\ k = 0
  BY EmptySeq
<1> QED BY <1>1, SubSeqEmpty

-----------------------------------------------------------------------------
(* What a task does to the server's side, and to the packets *)

Reaches(t) ==
  \/ UNCHANGED <<link, sent, serving>>
  \/ Connected /\ Shut
  \/ /\ Connected
     /\ \E m \in Requests : sent' = Sending(socket, m)
     /\ UNCHANGED <<link, serving>>
  \/ Dialed(t)

\* Only the server puts packets on the wire.
TakesOnly == \A s \in Sockets : wire[s] = <<>> => wire'[s] = <<>>

LEMMA TakingFacts ==
  ASSUME TypeOK, NEW t \in Tasks,
         \/ UNCHANGED wire
         \/ on[t] \in Sockets /\ wire[on[t]] # <<>> /\ (Take(t) \/ EndOfStream(t))
         \/ on[t] \in Sockets /\ TakeEof(t)
         \/ socket \in Sockets /\ wire' = [wire EXCEPT ![socket] = <<>>]
  PROVE  TakesOnly
<1> SUFFICES ASSUME NEW s \in Sockets, wire[s] = <<>> PROVE wire'[s] = <<>>
  BY DEF TakesOnly
<1>1. CASE on[t] \in Sockets /\ wire[on[t]] # <<>> /\ EndOfStream(t)
  <2> DEFINE left == [wire EXCEPT ![on[t]] = Tail(@)]
  <2>1. left \in [Sockets -> Seq(Packets)] /\ left[s] = <<>>
    BY <1>1, HeadTailProperties DEF TypeOK
  <2>2. CASE socket = 0
    BY <1>1, <2>1, <2>2 DEF EndOfStream
  <2>3. CASE socket # 0
    <3>1. PICK k \in 0..Len(left[socket]) :
            wire' = [left EXCEPT ![socket] = SubSeq(@, k + 1, Len(@))]
      BY <1>1, <2>3 DEF EndOfStream
    <3> HIDE DEF left
    <3>2. CASE s = socket
      <4>1. left[s] \in Seq(Packets) /\ Len(left[s]) = 0
        BY <2>1
      <4>2. SubSeq(left[s], k + 1, Len(left[s])) = <<>>
        BY <3>1, <3>2, <4>1, NothingLeft
      <4> QED BY <2>1, <3>1, <3>2, <4>2
    <3>3. CASE s # socket
      BY <2>1, <3>1, <3>3
    <3> QED BY <3>2, <3>3
  <2> QED BY <2>2, <2>3
<1> QED BY <1>1 DEF TypeOK, Take, TakeEof

LEMMA EndReaches ==
  ASSUME NEW t \in Tasks,
         Leave(t) \/ Abort(t) \/ Fail(t) \/ CloseFirst(t) \/ Redial(t)
  PROVE  UNCHANGED <<link, sent, serving>> \/ (Connected /\ Shut)
BY DEF Leave, Abort, Fail, CloseFirst, Redial

LEMMA ProceedReaches ==
  ASSUME TypeOK, NEW t \in Tasks, Proceed(t)
  PROVE  Reaches(t)
<1>1. CASE Abort(t)
  BY <1>1, EndReaches DEF Reaches
<1>2. CASE /\ Writable
           /\ sent' = Sending(socket,
                Message(IF call[t] = "insert" THEN "insert" ELSE "query",
                        query[t]))
           /\ UNCHANGED <<link, serving>>
  <2>1. \A k \in {"insert", "query"} : Message(k, query[t]) \in Requests
    BY MessageTypes DEF TypeOK
  <2> QED BY <1>2, <2>1 DEF Reaches, Writable
<1> QED BY <1>1, <1>2 DEF Proceed

LEMMA Effects ==
  ASSUME TypeOK, ReadersHaveSockets, NEW t \in Tasks, Advance(t) \/ Disturb(t)
  PROVE  Reaches(t) /\ TakesOnly
<1>0. /\ TypeOK
      /\ pc[t] \in Waits => on[t] \in Sockets
      /\ \A p \in {"greeting", "probing", "pinging", "reading", "sampling",
                   "draining"} : p \in Waits
      /\ Connected => socket \in Sockets
      /\ 0 \in 0..MaxQueries
  <2>1. socket \in 0..MaxSockets
    BY DEF TypeOK
  <2> QED BY <2>1, SessionAssumption
          DEF ReadersHaveSockets, Waits, Connected, Sockets
<1>1. ASSUME Leave(t) \/ Abort(t) \/ Fail(t) \/ CloseFirst(t) \/ Redial(t)
      PROVE  Reaches(t)
  BY <1>1, EndReaches DEF Reaches
<1>2. ASSUME UNCHANGED wire PROVE TakesOnly
  BY <1>0, <1>2, TakingFacts
<1>3. ASSUME on[t] \in Sockets,
             \/ wire[on[t]] # <<>> /\ (Take(t) \/ EndOfStream(t))
             \/ TakeEof(t)
             \/ UNCHANGED wire
      PROVE  TakesOnly
  BY <1>0, <1>3, TakingFacts
<1>4. ASSUME UNCHANGED <<link, sent, serving>> PROVE Reaches(t)
  BY <1>4 DEF Reaches
<1>5. CASE QueueForLock(t)
  BY <1>2, <1>4, <1>5 DEF QueueForLock, server
<1>6. CASE \/ Reject(t) \/ Dial(t) \/ ProbeBroken(t) \/ ProbeContended(t)
           \/ ProbeLost(t) \/ DialFails(t) \/ GreetLost(t) \/ Closed(t)
           \/ PingTimeout(t) \/ PingCancelled(t) \/ Close(t) \/ CancelDial(t)
           \/ CancelRead(t) \/ CancelClose(t)
  BY <1>1, <1>2, <1>6
     DEF Reject, Dial, ProbeBroken, ProbeContended, ProbeLost, DialFails,
         GreetLost, Closed, PingTimeout, PingCancelled, Close, CancelDial,
         CancelRead, CancelClose
<1>7. CASE Probe(t)
  <2>1. Message("ping", 0) \in Requests
    BY <1>0, MessageTypes
  <2> QED BY <1>2, <1>7, <2>1 DEF Probe, Reaches, Writable
<1>8. CASE ProbeAnswered(t)
  BY <1>0, <1>3, <1>8, ProceedReaches DEF ProbeAnswered, Got
<1>9. CASE \/ ProbeFails(t) \/ GreetFails(t) \/ ReadEnd(t) \/ ReadFails(t)
           \/ SampleFails(t) \/ Drained(t) \/ DrainFails(t) \/ PingAnswered(t)
           \/ PingFails(t)
  <2>1. pc[t] \in {"probing", "greeting", "reading", "sampling", "draining",
                   "pinging"}
    BY <1>9 DEF ProbeFails, GreetFails, ReadEnd, ReadFails, SampleFails, Drained,
                DrainFails, PingAnswered, PingFails
  <2>2. Leave(t) \/ Abort(t) \/ Fail(t)
    BY <1>9 DEF ProbeFails, GreetFails, ReadEnd, ReadFails, SampleFails, Drained,
                DrainFails, PingAnswered, PingFails
  <2>3. \/ wire[on[t]] # <<>> /\ (Take(t) \/ EndOfStream(t))
        \/ TakeEof(t)
        \/ UNCHANGED wire
    BY <1>9 DEF ProbeFails, GreetFails, ReadEnd, ReadFails, SampleFails, Drained,
                DrainFails, PingAnswered, PingFails, Got
  <2> QED BY <1>0, <1>1, <1>3, <2>1, <2>2, <2>3
<1>10. CASE Dialed(t)
  BY <1>2, <1>10 DEF Dialed, Reaches
<1>11. CASE Greeted(t)
  <2>1. Leave(t) \/ Proceed(t)
    BY <1>11 DEF Greeted
  <2>2. Reaches(t)
    BY <1>0, <1>1, <2>1, ProceedReaches
  <2> QED BY <1>0, <1>3, <1>11, <2>2 DEF Greeted, Got
<1>12. CASE Reopened(t)
  BY <1>2, <1>4, <1>12 DEF Reopened, server
<1>13. CASE Fetch(t) \/ Resume(t)
  BY <1>1, <1>2, <1>4, <1>13 DEF Fetch, Resume, ReadOn, CannotRead
<1>14. CASE ReadData(t)
  BY <1>0, <1>3, <1>4, <1>14 DEF ReadData, Got
<1>15. CASE Sampled(t)
  <2>1. Message("rows", query[t]) \in Requests
    BY <1>0, MessageTypes DEF TypeOK
  <2>2. Reaches(t)
    BY <1>1, <1>15, <2>1 DEF Sampled, Reaches, Writable
  <2> QED BY <1>0, <1>3, <1>15, <2>2 DEF Sampled, Got
<1>16. CASE Ping(t)
  <2>1. Message("ping", 0) \in Requests /\ socket \in Sockets
    BY <1>0, <1>16, MessageTypes DEF Ping, Connected
  <2>2. Reaches(t)
    BY <1>1, <1>16, <2>1 DEF Ping, Reaches, Writable
  <2>3. UNCHANGED wire \/ wire' = [wire EXCEPT ![socket] = <<>>]
    BY <1>16 DEF Ping
  <2> QED BY <1>0, <2>1, <2>2, <2>3, TakingFacts
<1>17. CASE Terminate(t)
  BY <1>2, <1>17 DEF Terminate, Reaches
<1>18. CASE CancelWaiter(t)
  <2>1. Reaches(t)
    <3>1. CASE Abort(t)
      BY <1>1, <3>1
    <3>2. CASE ~Abort(t)
      BY <1>18, <3>2 DEF CancelWaiter, Reaches
    <3> QED BY <3>1, <3>2
  <2> QED BY <1>2, <1>18, <2>1 DEF CancelWaiter
<1>19. CASE Connect(t)
  BY <1>2, <1>4, <1>19 DEF Connect, Reaches, server
<1> QED BY <1>5, <1>6, <1>7, <1>8, <1>9, <1>10, <1>11, <1>12, <1>13, <1>14, <1>15,
           <1>16, <1>17, <1>18, <1>19 DEF Advance, Disturb, Interfere

\* A socket that is not up has nothing behind it.
LEMMA SilentMove ==
  ASSUME TypeOK, DeadIsSilent, NEW t \in Tasks, Reaches(t), TakesOnly
  PROVE  DeadIsSilent'
<1>0. Connected => socket \in Sockets
  BY SessionAssumption DEF TypeOK, Connected, Sockets
<1>2. CASE UNCHANGED <<link, sent, serving>>
  BY <1>2 DEF TakesOnly, DeadIsSilent
<1>3. CASE Connected /\ Shut
  BY <1>0, <1>3 DEF TakesOnly, DeadIsSilent, Shut, TypeOK
<1>4. CASE /\ Connected
           /\ \E m \in Requests : sent' = Sending(socket, m)
           /\ UNCHANGED <<link, serving>>
  <2>1. \A s \in Sockets : link[s] # "up" => sent'[s] = sent[s]
    BY <1>0, <1>4 DEF Sending, Broken, TypeOK
  <2> QED BY <1>4, <2>1 DEF TakesOnly, DeadIsSilent
<1>5. CASE Dialed(t)
  <2>1. PICK s \in Sockets :
          /\ link' = [link EXCEPT ![s] = "up"]
          /\ sent' = [sent EXCEPT ![s] = <<Message("hello", 0)>>]
          /\ UNCHANGED <<serving, wire>>
    BY <1>5 DEF Dialed
  <2> QED BY <2>1 DEF DeadIsSilent, TypeOK
<1> QED BY <1>2, <1>3, <1>4, <1>5 DEF Reaches

LEMMA ServerSilent ==
  ASSUME TypeOK, DeadIsSilent, NEW s \in Sockets, ServerStep(s)
  PROVE  DeadIsSilent'
<1>1. /\ link[s] = "up"
      /\ \A r \in Sockets \ {s} :
           /\ link'[r] = link[r] /\ sent'[r] = sent[r]
           /\ serving'[r] = serving[r] /\ wire'[r] = wire[r]
  BY DEF ServerStep, Serve, ServerReads, ServerHangsUp, ServerSendsData,
         ServerEnds, LinkLost, Reply, TypeOK
<1>2. \/ link'[s] = "up"
      \/ link'[s] = "lost" /\ sent'[s] = <<>> /\ serving'[s] = Nothing
  BY DEF ServerStep, Serve, ServerReads, ServerHangsUp, ServerSendsData,
         ServerEnds, LinkLost, TypeOK
<1>3. \A r \in Sockets :
        /\ link'[r] # "up" => sent'[r] = <<>> /\ serving'[r] = Nothing
        /\ link'[r] = "none" => wire'[r] = <<>>
  BY <1>1, <1>2 DEF DeadIsSilent
<1> QED BY <1>3 DEF DeadIsSilent

LEMMA SilentStep == Kept /\ DeadIsSilent /\ [Next]_vars => DeadIsSilent'
<1> SUFFICES ASSUME Kept, DeadIsSilent, [Next]_vars PROVE DeadIsSilent'
  OBVIOUS
<1>1. ASSUME NEW t \in Tasks, Advance(t) \/ Disturb(t)
      PROVE  DeadIsSilent'
  BY <1>1, Effects, SilentMove DEF Kept
<1>2. ASSUME NEW s \in Sockets, ServerStep(s)
      PROVE  DeadIsSilent'
  BY <1>2, ServerSilent DEF Kept
<1>3. CASE UNCHANGED vars
  BY <1>3 DEF vars, DeadIsSilent
<1> QED BY <1>1, <1>2, <1>3, Steps

LEMMA SilentCorrect == Spec => []DeadIsSilent
<1>1. Init => DeadIsSilent
  BY DEF Init, DeadIsSilent
<1> QED BY <1>1, SilentStep, KeptCorrect, PTL DEF Spec

-----------------------------------------------------------------------------
(* What the server does to a conversation *)

\* A step of the server takes the connection from c to d.
Served(c, d) ==
  /\ c.link = "up"
  /\ \/ /\ c.sent # <<>> /\ c.serving.kind # "query"
        /\ d.link = "up" /\ d.sent = Tail(c.sent)
        /\ LET r == Head(c.sent)
           IN  \/ /\ c.serving = Nothing /\ d.serving = Nothing
                  /\ \/ /\ r.kind = "hello"
                        /\ d.wire = Append(c.wire, Message("hello", 0))
                     \/ /\ r.kind = "ping"
                        /\ d.wire = Append(c.wire, Message("pong", 0))
                     \/ /\ r.kind = "insert"
                        /\ d.wire = Append(c.wire, Message("exception", r.of))
               \/ /\ c.serving = Nothing /\ d.serving = r
                  /\ \/ r.kind = "query" /\ d.wire = c.wire
                     \/ /\ r.kind = "insert"
                        /\ d.wire = Append(c.wire, Message("data", r.of))
               \/ /\ c.serving.kind = "insert" /\ r.kind = "rows"
                  /\ d.serving = Nothing
                  /\ \E k \in {"end", "exception"} :
                       d.wire = Append(c.wire, Message(k, r.of))
     \/ /\ c.sent # <<>> /\ c.serving.kind # "query"
        /\ \/ Head(c.sent).kind = "hello"
           \/ Head(c.sent).kind = "rows" /\ c.serving = Nothing
           \/ Head(c.sent).kind # "rows" /\ c.serving.kind = "insert"
        /\ d.link = "lost" /\ d.sent = <<>> /\ d.serving = Nothing
        /\ d.wire = Append(c.wire, Message("exception", Head(c.sent).of))
     \/ /\ c.serving.kind = "query"
        /\ d.link = "up" /\ d.sent = c.sent
        /\ \/ /\ d.serving = c.serving
              /\ d.wire = Append(c.wire, Message("data", c.serving.of))
           \/ /\ d.serving = Nothing
              /\ \E k \in {"end", "exception"} :
                   d.wire = Append(c.wire, Message(k, c.serving.of))
     \/ /\ d.link = "lost" /\ d.sent = <<>> /\ d.serving = Nothing
        /\ d.wire = c.wire

LEMMA ServedFacts ==
  ASSUME TypeOK, NEW s \in Sockets, ServerStep(s)
  PROVE  /\ Served(Talk(s), Talk(s)')
         /\ \A r \in Sockets \ {s} : Talk(r)' = Talk(r)
<1>1. /\ Talk(s).link = link[s] /\ Talk(s).sent = sent[s]
      /\ Talk(s).serving = serving[s] /\ Talk(s).wire = wire[s]
      /\ Talk(s)'.link = link'[s] /\ Talk(s)'.sent = sent'[s]
      /\ Talk(s)'.serving = serving'[s] /\ Talk(s)'.wire = wire'[s]
  BY DEF Talk
<1>2. Served(Talk(s), Talk(s)')
  <2>1. CASE ServerReads(s)
    BY <1>1, <2>1 DEF ServerReads, Reply, TypeOK, Served
  <2>2. CASE ServerHangsUp(s)
    BY <1>1, <2>2 DEF ServerHangsUp, Reply, TypeOK, Served
  <2>3. CASE ServerSendsData(s)
    BY <1>1, <2>3 DEF ServerSendsData, Reply, TypeOK, Served
  <2>4. CASE ServerEnds(s)
    BY <1>1, <2>4 DEF ServerEnds, Reply, TypeOK, Served
  <2>5. CASE LinkLost(s)
    BY <1>1, <2>5 DEF LinkLost, TypeOK, Served
  <2> QED BY <2>1, <2>2, <2>3, <2>4, <2>5 DEF ServerStep, Serve
<1>3. \A r \in Sockets \ {s} :
        /\ link'[r] = link[r] /\ sent'[r] = sent[r]
        /\ serving'[r] = serving[r] /\ wire'[r] = wire[r]
  BY DEF ServerStep, Serve, ServerReads, ServerHangsUp, ServerSendsData,
         ServerEnds, LinkLost, Reply, TypeOK
<1> QED BY <1>2, <1>3 DEF Talk

LEMMA Messages ==
  /\ \A k, q : Message(k, q).kind = k /\ Message(k, q).of = q
  /\ Nothing.kind = "none"
BY DEF Message, Nothing

LEMMA CleanServed ==
  ASSUME NEW c, NEW d, Served(c, d), Clean(c)
  PROVE  Clean(d)
BY Messages DEF Served, Clean

\* A single request is answered, taken up or lost.
LEMMA ServedFirst ==
  ASSUME NEW c, NEW d, Served(c, d), NEW m,
         c.sent = <<m>>, c.wire = <<>>, c.serving = Nothing
  PROVE  /\ d.sent = <<>>
         /\ \/ /\ d.link = "lost" /\ d.serving = Nothing
               /\ \/ d.wire = <<>>
                  \/ /\ m.kind \in {"hello", "rows"}
                     /\ d.wire = <<Message("exception", m.of)>>
            \/ /\ d.link = "up" /\ d.serving = Nothing
               /\ \/ m.kind = "hello" /\ d.wire = <<Message("hello", 0)>>
                  \/ m.kind = "ping" /\ d.wire = <<Message("pong", 0)>>
                  \/ m.kind = "insert" /\ d.wire = <<Message("exception", m.of)>>
            \/ /\ d.link = "up" /\ d.serving = m
               /\ \/ m.kind = "query" /\ d.wire = <<>>
                  \/ m.kind = "insert" /\ d.wire = <<Message("data", m.of)>>
<1>1. /\ c.sent # <<>> /\ Head(c.sent) = m /\ Tail(c.sent) = <<>>
      /\ \A x : Append(c.wire, x) = <<x>>
      /\ c.serving.kind = "none"
  BY Singleton, Messages
<1> QED BY <1>1 DEF Served

\* With no request left the server can only go away.
LEMMA ServedLast ==
  ASSUME NEW c, NEW d, Served(c, d), c.sent = <<>>, c.serving.kind # "query"
  PROVE  d.link = "lost" /\ d.sent = <<>> /\ d.serving = Nothing /\ d.wire = c.wire
BY DEF Served

LEMMA ExchangeServed ==
  ASSUME NEW c, NEW d, Served(c, d), NEW m, NEW answers, Exchange(c, m, answers),
         m.kind = "hello" => /\ Message("hello", 0) \in answers
                             /\ Message("exception", m.of) \in answers,
         m.kind = "ping" => Message("pong", 0) \in answers,
         m.kind \in {"hello", "ping"}
  PROVE  Exchange(d, m, answers)
<1>1. CASE c.sent = <<m>> /\ c.wire = <<>>
  BY <1>1, ServedFirst DEF Exchange
<1>2. CASE c.sent = <<>>
  <2>1. d.link = "lost" /\ d.sent = <<>> /\ d.serving = Nothing /\ d.wire = c.wire
    BY <1>2, ServedLast, Messages DEF Exchange
  <2> QED BY <1>2, <2>1, Singleton DEF Exchange
<1> QED BY <1>1, <1>2 DEF Exchange

LEMMA SamplingServed ==
  ASSUME NEW c, NEW d, Served(c, d), NEW q, Sampling(c, q)
  PROVE  Sampling(d, q)
<1> DEFINE m == Message("insert", q)
<1>0. /\ m.kind = "insert" /\ m.of = q /\ Nothing.kind = "none"
      /\ Message("exception", q) # Message("data", q)
  BY Messages
<1>1. CASE c.sent = <<m>> /\ c.wire = <<>> /\ c.serving = Nothing
  <2> HIDE DEF m
  <2>1. /\ d.sent = <<>>
        /\ \/ d.link = "lost" /\ d.serving = Nothing /\ d.wire = <<>>
           \/ /\ d.link = "up" /\ d.serving = Nothing
              /\ d.wire = <<Message("exception", q)>>
           \/ /\ d.link = "up" /\ d.serving = m
              /\ d.wire = <<Message("data", q)>>
    BY <1>0, <1>1, ServedFirst
  <2>2. <<Message("exception", q)>> # <<Message("data", q)>>
        /\ <<Message("data", q)>> # <<>>
    <3>1. /\ <<Message("exception", q)>>[1] = Message("exception", q)
          /\ <<Message("data", q)>>[1] = Message("data", q)
          /\ <<Message("data", q)>> # <<>>
      BY Singleton
    <3> QED BY <1>0, <3>1
  <2> QED BY <2>1, <2>2 DEF Sampling, Exchange, m
<1>2. CASE c.sent = <<>> /\ c.serving.kind # "query"
  <2>1. d.link = "lost" /\ d.sent = <<>> /\ d.serving = Nothing /\ d.wire = c.wire
    BY <1>2, ServedLast
  <2>2. \/ \E x \in {Message("data", q), Message("exception", q)} : c.wire = <<x>>
        \/ c.wire = <<>>
    BY DEF Sampling, Exchange
  <2> QED BY <2>1, <2>2 DEF Sampling, Exchange
<1> QED BY <1>0, <1>1, <1>2 DEF Sampling, Exchange

LEMMA DrainingServed ==
  ASSUME NEW c, NEW d, Served(c, d), NEW q, Draining(c, q)
  PROVE  Draining(d, q)
<1> DEFINE m == Message("rows", q)
<1>0. m.kind = "rows" /\ m.of = q /\ Message("insert", q).kind = "insert"
      /\ Nothing.kind = "none"
  BY Messages
<1>1. CASE /\ c.link = "up" /\ c.sent = <<m>>
           /\ c.serving = Message("insert", q) /\ c.wire = <<>>
  <2>1. /\ c.sent # <<>> /\ Head(c.sent) = m /\ Tail(c.sent) = <<>>
        /\ \A x : Append(c.wire, x) = <<x>>
        /\ c.serving.kind = "insert" /\ c.serving # Nothing
    BY <1>0, <1>1, Singleton
  <2> HIDE DEF m
  <2>2. /\ d.sent = <<>> /\ d.serving = Nothing
        /\ \/ \E k \in {"end", "exception"} : d.wire = <<Message(k, q)>>
           \/ d.link = "lost" /\ d.wire = <<>>
    BY <1>0, <1>1, <2>1 DEF Served
  <2> QED BY <2>2 DEF Draining
<1>2. CASE /\ c.sent = <<>> /\ c.serving = Nothing
           /\ \/ c.wire \in {<<Message("end", q)>>, <<Message("exception", q)>>}
              \/ c.wire = <<>> /\ c.link # "up"
  <2>1. d.link = "lost" /\ d.sent = <<>> /\ d.serving = Nothing /\ d.wire = c.wire
    BY <1>0, <1>2, ServedLast
  <2> QED BY <1>2, <2>1 DEF Draining
<1> QED BY <1>1, <1>2 DEF Draining

LEMMA AnsweringServed ==
  ASSUME NEW c, NEW d, Served(c, d), NEW q \in 0..MaxQueries, Answering(c, q),
         c.wire \in Seq(Packets)
  PROVE  Answering(d, q)
<1>1. ASSUME NEW k \in {"data", "end", "exception"},
             d.wire = Append(c.wire, Message(k, q))
      PROVE  /\ DOMAIN c.wire = 1..Len(c.wire) /\ Len(c.wire) \in Nat
             /\ Len(d.wire) = Len(c.wire) + 1
             /\ DOMAIN d.wire = 1 .. Len(c.wire) + 1
             /\ \A i \in 1..Len(c.wire) : d.wire[i] = c.wire[i]
             /\ d.wire[Len(c.wire) + 1] = Message(k, q)
             /\ d.wire # <<>>
  <2>1. Message(k, q) \in Packets
    BY MessageTypes DEF Kinds
  <2>2. /\ d.wire \in Seq(Packets) /\ Len(d.wire) = Len(c.wire) + 1
        /\ \A i \in 1..Len(c.wire) : d.wire[i] = c.wire[i]
        /\ d.wire[Len(c.wire) + 1] = Message(k, q)
    BY <1>1, <2>1, AppendProperties
  <2>3. DOMAIN c.wire = 1..Len(c.wire) /\ Len(c.wire) \in Nat
    BY LenProperties
  <2>5. DOMAIN d.wire = 1 .. Len(c.wire) + 1
    BY <2>2, LenProperties
  <2>4. d.wire # <<>>
    BY <2>2, <2>3, EmptySeq
  <2> QED BY <2>2, <2>3, <2>4, <2>5
<1>2. CASE /\ c.link = "up" /\ c.sent = <<Message("query", q)>>
           /\ c.serving = Nothing /\ c.wire = <<>>
  <2> DEFINE m == Message("query", q)
  <2>1. m.kind = "query"
    BY Messages
  <2>2. c.sent = <<m>>
    BY <1>2
  <2> HIDE DEF m
  <2>3. /\ d.sent = <<>> /\ d.wire = <<>>
        /\ \/ d.link = "lost" /\ d.serving = Nothing
           \/ d.link = "up" /\ d.serving = m
    BY <1>2, <2>1, <2>2, ServedFirst
  <2>4. DOMAIN d.wire = {}
    BY <2>3
  <2> QED BY <2>3, <2>4 DEF Answering, m
<1>3. CASE /\ c.link = "up" /\ c.sent = <<>> /\ c.serving = Message("query", q)
           /\ \A i \in DOMAIN c.wire : c.wire[i] = Message("data", q)
  <2>1. c.serving.kind = "query" /\ c.serving.of = q
    BY <1>3, Messages
  <2>2. CASE d.link = "lost"
    BY <1>3, <2>1, <2>2 DEF Served, Answering
  <2>3. CASE /\ d.link = "up" /\ d.sent = c.sent /\ d.serving = c.serving
             /\ d.wire = Append(c.wire, Message("data", c.serving.of))
    <3>1. \A i \in DOMAIN d.wire : d.wire[i] = Message("data", q)
      BY <1>1, <1>3, <2>1, <2>3
    <3> QED BY <1>3, <2>3, <3>1 DEF Answering
  <2>4. CASE /\ d.link = "up" /\ d.sent = c.sent /\ d.serving = Nothing
             /\ \E k \in {"end", "exception"} :
                  d.wire = Append(c.wire, Message(k, c.serving.of))
    <3>1. PICK k \in {"end", "exception"} :
            d.wire = Append(c.wire, Message(k, q))
      BY <2>1, <2>4
    <3>2. /\ DOMAIN c.wire = 1..Len(c.wire) /\ Len(c.wire) \in Nat
          /\ Len(d.wire) = Len(c.wire) + 1
          /\ DOMAIN d.wire = 1 .. Len(c.wire) + 1
          /\ \A i \in 1..Len(c.wire) : d.wire[i] = c.wire[i]
          /\ d.wire[Len(c.wire) + 1] = Message(k, q)
          /\ d.wire # <<>>
      BY <1>1, <3>1
    <3>3. \A i \in DOMAIN d.wire :
            \/ d.wire[i] = Message("data", q)
            \/ /\ i = Len(d.wire)
               /\ d.wire[i] \in {Message("end", q), Message("exception", q)}
      BY <1>3, <3>2
    <3>4. d.wire[Len(d.wire)] # Message("data", q)
      BY <3>2, Messages
    <3> QED BY <1>3, <2>4, <3>2, <3>3, <3>4 DEF Answering
  <2> QED BY <1>3, <2>1, <2>2, <2>3, <2>4 DEF Served
<1>4. CASE /\ c.sent = <<>> /\ c.serving = Nothing
           /\ \A i \in DOMAIN c.wire :
                \/ c.wire[i] = Message("data", q)
                \/ /\ i = Len(c.wire)
                   /\ c.wire[i] \in {Message("end", q), Message("exception", q)}
           /\ c.link = "up" =>
                c.wire # <<>> /\ c.wire[Len(c.wire)] # Message("data", q)
  <2>1. d.link = "lost" /\ d.sent = <<>> /\ d.serving = Nothing /\ d.wire = c.wire
    BY <1>4, Messages DEF Served
  <2> QED BY <1>4, <2>1 DEF Answering
<1> QED BY <1>2, <1>3, <1>4 DEF Answering

-----------------------------------------------------------------------------
(* What a reader takes from a conversation *)

LEMMA ExchangeTaken ==
  ASSUME NEW c, NEW m, NEW answers, Exchange(c, m, answers), c.wire # <<>>
  PROVE  /\ c.sent = <<>> /\ c.serving = Nothing /\ Tail(c.wire) = <<>>
         /\ Head(c.wire) \in answers
<1>1. PICK m0 \in answers : c.sent = <<>> /\ c.wire = <<m0>>
  BY DEF Exchange
<1> QED BY <1>1, Singleton DEF Exchange

LEMMA SamplingTaken ==
  ASSUME NEW c, NEW q, Sampling(c, q), c.wire # <<>>
  PROVE  /\ Head(c.wire).of = q /\ Tail(c.wire) = <<>> /\ c.sent = <<>>
         /\ Head(c.wire).kind = "data" =>
              \/ c.link = "up" /\ c.serving = Message("insert", q)
              \/ c.link # "up" /\ c.serving = Nothing
<1>1. PICK x \in {Message("data", q), Message("exception", q)} : c.wire = <<x>>
  BY DEF Sampling, Exchange
<1>2. Head(c.wire) = x /\ Tail(c.wire) = <<>>
  BY <1>1, Singleton
<1>3. Head(c.wire).of = q /\ (x.kind = "data" => x = Message("data", q))
  BY <1>2, Messages
<1> QED BY <1>1, <1>2, <1>3 DEF Sampling, Exchange

LEMMA DrainingTaken ==
  ASSUME NEW c, NEW q, Draining(c, q), c.wire # <<>>
  PROVE  /\ Head(c.wire).of = q /\ Tail(c.wire) = <<>>
         /\ c.sent = <<>> /\ c.serving = Nothing
<1>1. PICK x \in {Message("end", q), Message("exception", q)} : c.wire = <<x>>
  BY DEF Draining
<1>2. Head(c.wire) = x /\ Tail(c.wire) = <<>>
  BY <1>1, Singleton
<1> QED BY <1>2, Messages DEF Draining

LEMMA AnsweringTaken ==
  ASSUME NEW c, NEW d, NEW q, Answering(c, q), c.wire \in Seq(Packets),
         c.wire # <<>>,
         d.link = c.link, d.sent = c.sent, d.serving = c.serving,
         d.wire = Tail(c.wire)
  PROVE  /\ Head(c.wire).of = q
         /\ Head(c.wire).kind = "data" => Answering(d, q)
         /\ Head(c.wire).kind = "end" => Clean(d)
<1> DEFINE n == Len(c.wire)
<1>1. /\ n \in Nat \ {0} /\ DOMAIN c.wire = 1..n /\ Head(c.wire) = c.wire[1]
      /\ d.wire \in Seq(Packets) /\ Len(d.wire) = n - 1
      /\ DOMAIN d.wire = 1 .. n - 1
      /\ \A i \in 1 .. n - 1 : d.wire[i] = c.wire[i + 1] /\ i + 1 \in 1..n
  <2>1. n \in Nat \ {0} /\ DOMAIN c.wire = 1..n /\ Head(c.wire) = c.wire[1]
    BY EmptySeq, LenProperties
  <2>2. /\ Tail(c.wire) \in Seq(Packets) /\ Len(Tail(c.wire)) = n - 1
        /\ \A i \in 1 .. Len(Tail(c.wire)) : Tail(c.wire)[i] = c.wire[i + 1]
    BY HeadTailProperties
  <2>3. DOMAIN Tail(c.wire) = 1 .. n - 1
    BY <2>2, LenProperties
  <2> QED BY <2>1, <2>2, <2>3
<1> HIDE DEF n
<1>2. CASE /\ c.link = "up" /\ c.sent = <<>> /\ c.serving = Message("query", q)
           /\ \A i \in DOMAIN c.wire : c.wire[i] = Message("data", q)
  <2>1. Head(c.wire) = Message("data", q)
    BY <1>1, <1>2
  <2>2. \A i \in DOMAIN d.wire : d.wire[i] = Message("data", q)
    BY <1>1, <1>2
  <2> QED BY <1>2, <2>1, <2>2, Messages DEF Answering
<1>3. CASE /\ c.sent = <<>> /\ c.serving = Nothing
           /\ \A i \in DOMAIN c.wire :
                \/ c.wire[i] = Message("data", q)
                \/ /\ i = Len(c.wire)
                   /\ c.wire[i] \in {Message("end", q), Message("exception", q)}
           /\ c.link = "up" =>
                c.wire # <<>> /\ c.wire[Len(c.wire)] # Message("data", q)
  <2>1. Head(c.wire).of = q
    BY <1>1, <1>3, Messages
  <2>2. ASSUME Head(c.wire).kind = "end"
        PROVE  Clean(d)
    <3>1. Len(c.wire) = 1
      <4>1. 1 \in DOMAIN c.wire /\ c.wire[1].kind = "end"
        BY <1>1, <2>2
      <4>2. Message("data", q).kind = "data"
        BY Messages
      <4> QED BY <1>3, <4>1, <4>2
    <3>2. d.wire = <<>>
      BY <1>1, <3>1, EmptySeq DEF n
    <3> QED BY <1>3, <3>2 DEF Clean
  <2>3. ASSUME Head(c.wire).kind = "data"
        PROVE  Answering(d, q)
    <3>1. Head(c.wire) = Message("data", q)
      <4>1. Message("end", q).kind = "end" /\ Message("exception", q).kind = "exception"
        BY Messages
      <4> QED BY <1>1, <1>3, <2>3, <4>1
    <3>2. \A i \in DOMAIN d.wire :
            \/ d.wire[i] = Message("data", q)
            \/ /\ i = Len(d.wire)
               /\ d.wire[i] \in {Message("end", q), Message("exception", q)}
      <4> SUFFICES ASSUME NEW i \in 1 .. n - 1
                   PROVE  \/ d.wire[i] = Message("data", q)
                          \/ /\ i = Len(d.wire)
                             /\ d.wire[i] \in {Message("end", q),
                                              Message("exception", q)}
        BY <1>1
      <4> SUFFICES ASSUME d.wire[i] # Message("data", q)
                   PROVE  /\ i = n - 1
                          /\ d.wire[i] \in {Message("end", q),
                                           Message("exception", q)}
        BY <1>1
      <4>1. i + 1 = n /\ d.wire[i] \in {Message("end", q), Message("exception", q)}
        BY <1>1, <1>3 DEF n
      <4> QED BY <1>1, <4>1
    <3>3. ASSUME c.link = "up"
          PROVE  d.wire # <<>> /\ d.wire[Len(d.wire)] # Message("data", q)
      <4>1. n # 1 /\ c.wire[n] # Message("data", q)
        BY <1>1, <1>3, <3>1, <3>3 DEF n
      <4>2. n - 1 \in 1 .. n - 1 /\ (n - 1) + 1 = n
        BY <1>1, <4>1
      <4>3. d.wire[n - 1] = c.wire[n]
        <5>1. d.wire[n - 1] = c.wire[(n - 1) + 1]
          BY <1>1, <4>2
        <5> QED BY <4>2, <5>1
      <4>4. d.wire # <<>>
        <5>1. Len(d.wire) # 0
          BY <1>1, <4>1
        <5> QED BY <1>1, <5>1, EmptySeq
      <4> QED BY <1>1, <4>1, <4>3, <4>4
    <3> QED BY <1>3, <3>2, <3>3 DEF Answering
  <2> QED BY <2>1, <2>2, <2>3
<1> QED BY <1>2, <1>3 DEF Answering

-----------------------------------------------------------------------------
(* What a task does to its conversation *)

Uses(t) == Owns(t) \/ pc[t] \in {"greeting", "probing"}

\* What t is waiting for on a connection.
Expects(t, c) ==
  /\ pc[t] = "greeting" =>
       Exchange(c, Message("hello", 0),
                {Message("hello", 0), Message("exception", 0)})
  /\ pc[t] = "probing" => Exchange(c, Message("ping", 0), {Message("pong", 0)})
  /\ pc[t] = "sampling" => Sampling(c, query[t])
  /\ pc[t] = "draining" => Draining(c, query[t])
  /\ Owns(t) /\ pc[t] \notin {"sampling", "draining"} => Answering(c, Statement(t))

\* The same after a step.
UsesNext(t) == OwnsNext(t) \/ pc'[t] \in {"greeting", "probing"}

ExpectsNext(t, c) ==
  /\ pc'[t] = "greeting" =>
       Exchange(c, Message("hello", 0),
                {Message("hello", 0), Message("exception", 0)})
  /\ pc'[t] = "probing" => Exchange(c, Message("ping", 0), {Message("pong", 0)})
  /\ pc'[t] = "sampling" => Sampling(c, query'[t])
  /\ pc'[t] = "draining" => Draining(c, query'[t])
  /\ OwnsNext(t) /\ pc'[t] \notin {"sampling", "draining"} =>
       Answering(c, IF stream'[t] # 0 THEN stream'[t] ELSE query'[t])

TalkNext(s) ==
  [link |-> link'[s], sent |-> sent'[s], serving |-> serving'[s], wire |-> wire'[s]]

\* The connection is closed, stays as it is, or is used by t alone.
Quits == socket' = 0 \/ link'[socket'] = "shut"

Speaks(t) ==
  \/ Quits
  \/ /\ UNCHANGED <<socket, link, sent, serving, wire>>
     /\ UsesNext(t) <=> Uses(t)
     /\ \A c : Expects(t, c) => ExpectsNext(t, c)
  \/ /\ Alone(t)
     /\ UsesNext(t) \/ Clean(TalkNext(socket'))
     /\ ExpectsNext(t, TalkNext(socket'))

LEMMA ConversationMeans ==
  /\ Conversation <=>
       (socket # 0 /\ link[socket] # "shut" =>
          /\ Clean(Talk(socket)) \/ \E t \in Tasks : Uses(t)
          /\ \A t \in Tasks : Expects(t, Talk(socket)))
  /\ Conversation' <=>
       (socket' # 0 /\ link'[socket'] # "shut" =>
          /\ Clean(TalkNext(socket')) \/ \E t \in Tasks : UsesNext(t)
          /\ \A t \in Tasks : ExpectsNext(t, TalkNext(socket')))
<1>1. Conversation <=>
       (socket # 0 /\ link[socket] # "shut" =>
          /\ Clean(Talk(socket)) \/ \E t \in Tasks : Uses(t)
          /\ \A t \in Tasks : Expects(t, Talk(socket)))
  BY DEF Conversation, Uses, Expects
<1>2. Conversation' <=>
       (socket' # 0 /\ link'[socket'] # "shut" =>
          /\ Clean(TalkNext(socket')) \/ \E t \in Tasks : UsesNext(t)
          /\ \A t \in Tasks : ExpectsNext(t, TalkNext(socket')))
  BY DEF Conversation, UsesNext, ExpectsNext, OwnsNext, Owns, Statement, Talk,
         TalkNext
<1> QED BY <1>1, <1>2

\* While t is alone with the socket nobody else uses it.
LEMMA AloneFacts ==
  ASSUME Serialised, Kept, Users, NEW t \in Tasks, Alone(t), NEW u \in Tasks \ {t}
  PROVE  ~Uses(u)
<1>1. pc[u] \in Establishing => holder = u /\ (executing => pc[u] = "granted")
  BY SerialInside DEF Kept
<1>2. \/ Owns(t) /\ executing
      \/ ~executing /\ holder # u
  BY SessionAssumption DEF Alone, Users, OneUser
<1>3. ~Owns(u)
  BY <1>2 DEF Users, OneUser
<1>4. pc[u] \notin {"greeting", "probing"}
  BY <1>1, <1>2 DEF Establishing
<1> QED BY <1>3, <1>4 DEF Uses

\* A step of t changes nothing for the others.
LEMMA OthersSpeak ==
  ASSUME NEW t \in Tasks, OthersWait(t), Readers(t),
         \A u \in Tasks \ {t} :
           stream'[u] = stream[u] /\ query'[u] = query[u],
         NEW u \in Tasks \ {t}
  PROVE  /\ UsesNext(u) <=> Uses(u)
         /\ \A c : Expects(u, c) => ExpectsNext(u, c)
         /\ \A c : ~Uses(u) => ExpectsNext(u, c)
<1>1. /\ stream'[u] = stream[u] /\ query'[u] = query[u]
      /\ pc'[u] \in Waits \cup {"yielding"} => pc'[u] = pc[u]
      /\ pc[u] \in Waits \cup {"yielding"} => pc'[u] = pc[u]
  BY DEF OthersWait, Readers, Waits
<1>2. (OwnsNext(u) <=> Owns(u)) /\ (UsesNext(u) <=> Uses(u))
  BY <1>1 DEF OwnsNext, Owns, UsesNext, Uses, Waits
<1>3. \A c : Expects(u, c) => ExpectsNext(u, c)
  BY <1>1, <1>2 DEF Expects, ExpectsNext, Statement, Waits
<1>4. \A c : ~Uses(u) => ExpectsNext(u, c)
  BY <1>2 DEF UsesNext, ExpectsNext, OwnsNext
<1> QED BY <1>2, <1>3, <1>4

LEMMA SpeaksStep ==
  ASSUME Serialised, Kept, Users, Conversation, NEW t \in Tasks, Speaks(t),
         OthersWait(t), Readers(t),
         \A u \in Tasks \ {t} :
           stream'[u] = stream[u] /\ query'[u] = query[u]
  PROVE  Conversation'
<1> SUFFICES ASSUME socket' # 0, link'[socket'] # "shut"
             PROVE  /\ \/ Clean(TalkNext(socket'))
                       \/ \E u \in Tasks : UsesNext(u)
                    /\ \A u \in Tasks : ExpectsNext(u, TalkNext(socket'))
  BY ConversationMeans
<1>1. CASE /\ UNCHANGED <<socket, link, sent, serving, wire>>
           /\ UsesNext(t) <=> Uses(t)
           /\ \A c : Expects(t, c) => ExpectsNext(t, c)
  <2>1. TalkNext(socket') = Talk(socket)
    BY <1>1 DEF TalkNext, Talk
  <2>2. /\ Clean(Talk(socket)) \/ \E u \in Tasks : Uses(u)
        /\ \A u \in Tasks : Expects(u, Talk(socket))
    BY <1>1, ConversationMeans
  <2>3. \A u \in Tasks : (UsesNext(u) <=> Uses(u))
                         /\ (\A c : Expects(u, c) => ExpectsNext(u, c))
    BY <1>1, OthersSpeak
  <2> QED BY <2>1, <2>2, <2>3
<1>2. CASE /\ Alone(t)
           /\ UsesNext(t) \/ Clean(TalkNext(socket'))
           /\ ExpectsNext(t, TalkNext(socket'))
  <2>1. \A u \in Tasks \ {t} : ExpectsNext(u, TalkNext(socket'))
    BY <1>2, AloneFacts, OthersSpeak
  <2> QED BY <1>2, <2>1
<1> QED BY <1>1, <1>2 DEF Speaks, Quits

\* Whoever disconnects has nothing more to say.
LEMMA QuitSpeaks ==
  ASSUME Kept, NEW t \in Tasks,
         Abort(t) \/ CloseFirst(t) \/ Redial(t) \/ (Fail(t) /\ call[t] # "connect"),
         UNCHANGED socket
  PROVE  Speaks(t)
<1>1. CASE ~Connected
  BY <1>1 DEF Connected, Speaks, Quits
<1>2. CASE Connected
  <2>1. Shut /\ socket \in Sockets
    BY <1>2, SessionAssumption
       DEF Abort, CloseFirst, Redial, Fail, Kept, TypeOK, Connected, Sockets
  <2>2. link'[socket'] = "shut"
    BY <2>1 DEF Shut, Kept, TypeOK
  <2> QED BY <2>2 DEF Speaks, Quits
<1> QED BY <1>1, <1>2

\* A request on a connection with nothing under way, or for a peer that is gone.
Requested(c, m) ==
  /\ c.serving = Nothing /\ c.wire = <<>>
  /\ \/ c.link = "up" /\ c.sent = <<m>>
     \/ c.link # "up" /\ c.sent = <<>>

LEMMA RequestedFacts ==
  ASSUME NEW c, NEW q
  PROVE  /\ \A m, answers : Requested(c, m) => Exchange(c, m, answers)
         /\ Requested(c, Message("insert", q)) => Sampling(c, q)
         /\ Requested(c, Message("query", q)) => Answering(c, q)
<1>1. \A m, answers : Requested(c, m) => Exchange(c, m, answers)
  BY DEF Requested, Exchange
<1>2. ASSUME Requested(c, Message("insert", q))
      PROVE  Sampling(c, q)
  <2>1. c.wire # <<Message("data", q)>>
    BY <1>2, Singleton DEF Requested
  <2> QED BY <1>1, <1>2, <2>1 DEF Sampling
<1>3. ASSUME Requested(c, Message("query", q))
      PROVE  Answering(c, q)
  <2>1. DOMAIN c.wire = {}
    BY <1>3 DEF Requested
  <2> QED BY <1>3, <2>1 DEF Requested, Answering
<1> QED BY <1>1, <1>2, <1>3

LEMMA SendFacts ==
  ASSUME TypeOK, NEW s \in Sockets, NEW m, sent[s] = <<>>,
         sent' = Sending(s, m), UNCHANGED link
  PROVE  IF link'[s] = "up" THEN sent'[s] = <<m>> ELSE sent'[s] = <<>>
<1>1. Append(<<>>, m) = <<m>>
  BY Singleton
<1> QED BY <1>1 DEF TypeOK, Sending, Broken

\* The statement of t goes out.
LEMMA ProceedSpeaks ==
  ASSUME Serialised, Kept, Users, NEW t \in Tasks, pc[t] \in {"probing", "greeting"},
         Proceed(t), Take(t), UNCHANGED <<socket, query>>,
         NEW m, NEW answers, Exchange(Talk(socket), m, answers),
         wire[on[t]] # <<>>
  PROVE  Speaks(t)
<1>0. /\ TypeOK /\ LockKept /\ holder = t /\ ~executing
      /\ call[t] \in Queries /\ query[t] # 0 /\ pc[t] # "locking"
  BY SerialInside DEF Kept, Establishing
<1>1. /\ Alone(t) /\ stream[t] = 0 /\ on[t] = socket
      /\ socket \in Sockets
  <2>1. ~Owns(t)
    BY <1>0 DEF Users, OneUser
  <2> QED BY <1>0, <2>1
          DEF Users, OneUser, Alone, Owns, Kept, ReadersHaveSockets, Waits
<1>2. CASE Abort(t)
  BY <1>2, QuitSpeaks
<1>3. CASE \E place \in {"idle", "reading", "sampling"} :
             /\ Settle(t, place)
             /\ sent' = Sending(socket,
                  Message(IF call[t] = "insert" THEN "insert" ELSE "query",
                          query[t]))
             /\ place = "idle" <=> call[t] = "iterate"
             /\ place = "sampling" <=> call[t] = "insert"
             /\ stream' = IF call[t] = "iterate" THEN [stream EXCEPT ![t] = query[t]]
                                                 ELSE stream
             /\ UNCHANGED <<link, serving>>
  <2>1. PICK place \in {"idle", "reading", "sampling"} :
             /\ Settle(t, place)
             /\ sent' = Sending(socket,
                  Message(IF call[t] = "insert" THEN "insert" ELSE "query",
                          query[t]))
             /\ place = "idle" <=> call[t] = "iterate"
             /\ place = "sampling" <=> call[t] = "insert"
             /\ stream' = IF call[t] = "iterate" THEN [stream EXCEPT ![t] = query[t]]
                                                 ELSE stream
             /\ UNCHANGED <<link, serving>>
    BY <1>3
  <2>2. pc'[t] = place
    BY <1>0, <2>1, SettleFacts DEF Places, Waits
  <2>3. /\ stream'[t] = IF call[t] = "iterate" THEN query[t] ELSE 0
        /\ query'[t] = query[t]
    BY <1>0, <1>1, <2>1 DEF TypeOK
  <2>4. Talk(socket).wire = wire[socket] /\ wire[socket] # <<>>
        /\ Talk(socket).sent = sent[socket]
        /\ Talk(socket).serving = serving[socket]
    BY <1>1 DEF Talk
  <2>5. sent[socket] = <<>> /\ serving[socket] = Nothing /\ Tail(wire[socket]) = <<>>
    BY <2>4, ExchangeTaken
  <2>6. wire'[socket] = <<>> /\ serving'[socket] = Nothing
    BY <1>0, <1>1, <2>1, <2>5 DEF Take, TypeOK
  <2>7. ASSUME NEW k, k = IF call[t] = "insert" THEN "insert" ELSE "query"
        PROVE  Requested(TalkNext(socket), Message(k, query[t]))
    <3>1. IF link'[socket] = "up" THEN sent'[socket] = <<Message(k, query[t])>>
                                  ELSE sent'[socket] = <<>>
      BY <1>0, <1>1, <2>1, <2>5, <2>7, SendFacts
    <3> QED BY <2>6, <3>1 DEF Requested, TalkNext
  <2>8. IF call[t] = "insert" THEN Sampling(TalkNext(socket), query[t])
                              ELSE Answering(TalkNext(socket), query[t])
    BY <2>7, RequestedFacts
  <2>9. UsesNext(t) \/ Clean(TalkNext(socket))
    <3>1. CASE call[t] = "iterate"
      <4> QED BY <1>0, <2>3, <3>1 DEF UsesNext, OwnsNext
    <3>2. CASE call[t] # "iterate"
      BY <2>1, <2>2, <3>2 DEF UsesNext, OwnsNext
    <3> QED BY <3>1, <3>2
  <2>10. ExpectsNext(t, TalkNext(socket))
    BY <2>1, <2>2, <2>3, <2>8 DEF ExpectsNext
  <2> QED BY <1>1, <2>9, <2>10 DEF Speaks
<1> QED BY <1>0, <1>2, <1>3 DEF Proceed, Queries

\* t goes on without touching the connection.
LEMMA KeepsSpeaks ==
  ASSUME NEW t \in Tasks, UNCHANGED <<socket, link, sent, serving, wire>>,
         stream'[t] = stream[t],
         Owns(t) => stream[t] # 0 \/ query'[t] = query[t],
         pc[t] \in {"idle", "locking", "granted", "yielding"},
         pc'[t] \in {"idle", "locking", "granted", "yielding", "reading"},
         pc[t] = "yielding" /\ stream[t] = 0 <=>
           pc'[t] \in {"reading", "yielding"} /\ stream[t] = 0
  PROVE  Speaks(t)
<1>1. (OwnsNext(t) <=> Owns(t)) /\ (UsesNext(t) <=> Uses(t))
  BY DEF OwnsNext, Owns, UsesNext, Uses
<1>2. \A c : Expects(t, c) => ExpectsNext(t, c)
  BY <1>1 DEF Expects, ExpectsNext, Owns, Statement
<1> QED BY <1>1, <1>2 DEF Speaks

\* The last packet was read, and the buffer dropped.
LEMMA EndSpeaks ==
  ASSUME TypeOK, NEW t \in Tasks, Alone(t), on[t] = socket, socket \in Sockets,
         wire[socket] # <<>>, Tail(wire[socket]) = <<>>,
         sent[socket] = <<>>, serving[socket] = Nothing,
         EndOfStream(t), UNCHANGED <<socket, link, sent, serving>>,
         pc'[t] = "idle", stream'[t] = 0
  PROVE  Speaks(t)
<1> DEFINE left == [wire EXCEPT ![on[t]] = Tail(@)]
<1>1. /\ left \in [Sockets -> Seq(Packets)] /\ left[socket] = <<>>
      /\ Len(left[socket]) = 0
  BY HeadTailProperties DEF TypeOK
<1>2. socket # 0
  BY DEF Sockets
<1>3. PICK k \in 0..Len(left[socket]) :
        wire' = [left EXCEPT ![socket] = SubSeq(@, k + 1, Len(@))]
  BY <1>2 DEF EndOfStream
<1> HIDE DEF left
<1>4. SubSeq(left[socket], k + 1, Len(left[socket])) = <<>>
  BY <1>1, <1>3, NothingLeft
<1>5. wire'[socket] = <<>>
  BY <1>1, <1>3, <1>4
<1>6. Clean(TalkNext(socket'))
  BY <1>5 DEF Clean, TalkNext
<1>7. ExpectsNext(t, TalkNext(socket'))
  BY DEF ExpectsNext, OwnsNext
<1> QED BY <1>6, <1>7 DEF Speaks

\* The user of the socket, and what it is waiting for.
LEMMA UserFacts ==
  ASSUME Serialised, Kept, Users, Conversation, NEW t \in Tasks, Uses(t)
  PROVE  /\ Alone(t) /\ socket \in Sockets /\ Connected
         /\ pc[t] \in Waits => on[t] = socket
         /\ Expects(t, Talk(socket))
         /\ pc[t] \in {"greeting", "probing"} =>
              call[t] # "connect" /\ ~Owns(t) /\ stream[t] = 0
         /\ pc[t] \notin {"greeting", "probing"} => Owns(t) /\ executing
<1>0. TypeOK /\ LockKept /\ OneUser
  BY DEF Kept, Users
<1>1. /\ socket # 0 /\ link[socket] # "shut"
      /\ pc[t] \in Waits => on[t] = socket
  BY <1>0 DEF OneUser, Uses
<1>2. socket \in Sockets
  BY <1>0, <1>1, SessionAssumption DEF TypeOK, Sockets
<1>3. /\ pc[t] \in {"greeting", "probing"} =>
           call[t] # "connect" /\ ~Owns(t) /\ holder = t /\ ~executing
      /\ pc[t] \notin {"greeting", "probing"} => Owns(t) /\ executing
  BY <1>0, SerialInside DEF Establishing, OneUser, Uses
<1>4. Expects(t, Talk(socket))
  BY <1>1, ConversationMeans
<1> QED BY <1>0, <1>1, <1>2, <1>3, <1>4 DEF Alone, Owns, Connected

\* force_connect and connect()
LEMMA ConnectSpeaks ==
  ASSUME Serialised, Kept, Users, Conversation, DeadIsSilent, NEW t \in Tasks,
         \/ QueueForLock(t) \/ Reject(t) \/ Dial(t) \/ Probe(t) \/ ProbeBroken(t)
         \/ ProbeContended(t) \/ ProbeAnswered(t) \/ ProbeFails(t) \/ ProbeLost(t)
         \/ Dialed(t) \/ DialFails(t) \/ Greeted(t) \/ GreetFails(t) \/ GreetLost(t)
         \/ Reopened(t) \/ Closed(t) \/ CancelDial(t) \/ CancelClose(t)
  PROVE  Speaks(t)
<1>0. TypeOK /\ LockKept /\ OneUser
  BY DEF Kept, Users
<1>1. pc[t] \in {"probing", "greeting"} =>
        /\ Uses(t) /\ call[t] # "connect" /\ on[t] = socket
        /\ wire[on[t]] = Talk(socket).wire
  BY UserFacts DEF Uses, Waits, Talk
<1>2. pc[t] \in {"dialing", "greeting", "probing"} => call[t] # "connect"
  BY <1>0, SerialInside DEF Establishing
<1>3. CASE QueueForLock(t)
  <2>1. /\ pc[t] = "idle" /\ pc'[t] = "locking" /\ stream'[t] = stream[t]
        /\ UNCHANGED <<socket, link, sent, serving, wire>>
    BY <1>0, <1>3 DEF QueueForLock, client, server, TypeOK
  <2> QED BY <2>1, KeepsSpeaks DEF Owns
<1>4. CASE Reject(t)
  <2>1. /\ pc[t] \in {"idle", "granted"} /\ Leave(t) /\ stream'[t] = stream[t]
        /\ UNCHANGED <<socket, link, sent, serving, wire>>
    BY <1>0, <1>4 DEF Reject, Enters, client, Leave
  <2>2. pc'[t] = "idle"
    BY <1>0, <2>1, SettleFacts DEF Leave, Places
  <2> QED BY <2>1, <2>2, KeepsSpeaks DEF Owns
<1>5. CASE \/ Dial(t) \/ ProbeBroken(t) \/ ProbeContended(t) \/ ProbeFails(t)
           \/ ProbeLost(t) \/ DialFails(t) \/ GreetFails(t) \/ GreetLost(t)
           \/ CancelDial(t)
  <2>1. UNCHANGED socket
    BY <1>5 DEF Dial, ProbeBroken, ProbeContended, ProbeFails, ProbeLost, DialFails,
                GreetFails, GreetLost, CancelDial, client
  <2>2. Abort(t) \/ CloseFirst(t) \/ Redial(t) \/ (Fail(t) /\ call[t] # "connect")
    BY <1>2, <1>5
       DEF Dial, ProbeBroken, ProbeContended, ProbeFails, ProbeLost, DialFails,
           GreetFails, GreetLost, CancelDial
  <2> QED BY <2>1, <2>2, QuitSpeaks
<1>6. CASE Probe(t)
  <2>1. /\ holder \in {t, NoTask} /\ pc[t] \in {"granted", "idle"} /\ ~executing
        /\ socket \in Sockets /\ link[socket] # "shut"
        /\ pc'[t] = "probing" /\ stream'[t] = stream[t]
        /\ sent' = Sending(socket, Message("ping", 0))
        /\ UNCHANGED <<socket, link, serving, wire>>
    <3>1. Enters(t) /\ ~executing /\ Writable
      BY <1>6 DEF Probe
    <3>2. holder \in {t, NoTask} /\ pc[t] \in {"granted", "idle"}
      BY <1>0, <3>1, EntersFacts
    <3>3. socket \in Sockets /\ link[socket] # "shut"
      BY <1>0, <3>1, SessionAssumption DEF Writable, Connected, TypeOK, Sockets
    <3> QED BY <1>0, <1>6, <3>1, <3>2, <3>3 DEF Probe, client, TypeOK
  <2>2. Alone(t) /\ ~Owns(t) /\ ~Uses(t) /\ stream[t] = 0
    BY <1>0, <2>1 DEF Alone, OneUser, Uses, Owns
  <2>3. \A u \in Tasks : ~Uses(u)
    BY <2>2, AloneFacts
  <2>4. Clean(Talk(socket))
    BY <2>1, <2>3, ConversationMeans DEF Sockets
  <2>5. sent[socket] = <<>> /\ wire[socket] = <<>> /\ serving[socket] = Nothing
    BY <2>4 DEF Clean, Talk
  <2>6. Requested(TalkNext(socket'), Message("ping", 0))
    BY <1>0, <2>1, <2>5, SendFacts DEF Requested, TalkNext
  <2>7. ExpectsNext(t, TalkNext(socket'))
    BY <2>1, <2>2, <2>6, RequestedFacts DEF ExpectsNext, OwnsNext
  <2> QED BY <2>1, <2>2, <2>7 DEF Speaks, UsesNext
<1>7. CASE ProbeAnswered(t)
  <2>1. /\ pc[t] = "probing" /\ wire[on[t]] # <<>> /\ Take(t) /\ Proceed(t)
        /\ UNCHANGED <<socket, query>>
    BY <1>7 DEF ProbeAnswered, Got
  <2>2. Exchange(Talk(socket), Message("ping", 0), {Message("pong", 0)})
    BY <1>1, <2>1, UserFacts DEF Expects
  <2> QED BY <2>1, <2>2, ProceedSpeaks
<1>8. CASE Dialed(t)
  <2>1. /\ holder = t /\ ~executing /\ pc[t] = "dialing"
        /\ pc'[t] = "greeting" /\ stream'[t] = stream[t]
    BY <1>0, <1>8, SerialInside DEF Dialed, Establishing, TypeOK
  <2>2. PICK s \in Sockets :
          /\ link[s] = "none" /\ link' = [link EXCEPT ![s] = "up"]
          /\ socket' = s
          /\ sent' = [sent EXCEPT ![s] = <<Message("hello", 0)>>]
          /\ UNCHANGED <<serving, wire>>
    BY <1>8 DEF Dialed
  <2>3. Alone(t) /\ stream[t] = 0
    BY <1>0, <2>1 DEF Alone, OneUser, Owns
  <2>4. Requested(TalkNext(s), Message("hello", 0))
    BY <1>0, <2>2 DEF Requested, TalkNext, DeadIsSilent, TypeOK
  <2>5. ExpectsNext(t, TalkNext(socket'))
    BY <2>1, <2>2, <2>3, <2>4, RequestedFacts DEF ExpectsNext, OwnsNext
  <2> QED BY <2>1, <2>3, <2>5 DEF Speaks, UsesNext
<1>9. CASE Greeted(t)
  <2>1. /\ pc[t] = "greeting" /\ wire[on[t]] # <<>> /\ Take(t) /\ Proceed(t)
        /\ UNCHANGED <<socket, query>>
    BY <1>2, <1>9 DEF Greeted, Got
  <2>2. Exchange(Talk(socket), Message("hello", 0),
                 {Message("hello", 0), Message("exception", 0)})
    BY <1>1, <2>1, UserFacts DEF Expects
  <2> QED BY <2>1, <2>2, ProceedSpeaks
<1>10. CASE Reopened(t) \/ Closed(t) \/ CancelClose(t)
  BY <1>10 DEF Reopened, Closed, CancelClose, Reset, Speaks, Quits
<1> QED BY <1>3, <1>4, <1>5, <1>6, <1>7, <1>8, <1>9, <1>10

\* Reading a result
LEMMA ReadSpeaks ==
  ASSUME Serialised, Kept, Users, Conversation, NEW t \in Tasks,
         \/ Fetch(t) \/ ReadData(t) \/ Resume(t) \/ ReadEnd(t) \/ ReadFails(t)
         \/ CancelRead(t)
  PROVE  Speaks(t)
<1>0. TypeOK /\ LockKept /\ OneUser /\ FetchesMatch
  BY DEF Kept, Users
<1>1. ASSUME ReadOn(t), UNCHANGED <<socket, wire>>,
             \/ pc[t] = "idle" /\ stream[t] # 0
             \/ pc[t] = "yielding" /\ UNCHANGED query
      PROVE  Speaks(t)
  <2>1. /\ pc'[t] = "reading" /\ stream'[t] = stream[t]
        /\ UNCHANGED <<socket, link, sent, serving, wire>>
    BY <1>0, <1>1 DEF ReadOn, TypeOK
  <2> QED BY <1>1, <2>1, KeepsSpeaks DEF Owns
<1>2. CASE Fetch(t)
  <2>1. pc[t] = "idle" /\ stream[t] # 0 /\ UNCHANGED <<socket, wire>>
    BY <1>2 DEF Fetch, client
  <2> QED BY <1>1, <1>2, <2>1, QuitSpeaks DEF Fetch
<1>3. CASE Resume(t)
  <2>1. pc[t] = "yielding" /\ UNCHANGED <<socket, wire, query>>
    BY <1>3 DEF Resume, client
  <2>2. CASE call[t] = "fetch"
    <3>1. /\ Leave(t) /\ stream'[t] = stream[t]
          /\ UNCHANGED <<link, sent, serving>>
      BY <1>3, <2>2 DEF Resume, Leave
    <3>2. pc'[t] = "idle"
      BY <1>0, <2>1, <3>1, SettleFacts DEF Leave, Places
    <3>3. stream[t] # 0
      BY <1>0, <2>1, <2>2 DEF FetchesMatch
    <3> QED BY <2>1, <3>1, <3>2, <3>3, KeepsSpeaks
  <2>3. CASE call[t] # "fetch"
    BY <1>1, <1>3, <2>1, <2>3, QuitSpeaks DEF Resume, CannotRead
  <2> QED BY <2>2, <2>3
<1>4. CASE ReadFails(t) \/ CancelRead(t)
  BY <1>4, QuitSpeaks DEF ReadFails, CancelRead, client
<1>5. ASSUME pc[t] = "reading", wire[on[t]] # <<>>
      PROVE  /\ Alone(t) /\ on[t] = socket /\ socket \in Sockets
             /\ Answering(Talk(socket), Statement(t))
             /\ Talk(socket).wire \in Seq(Packets) /\ Talk(socket).wire # <<>>
             /\ Talk(socket).wire = wire[socket]
  <2>1. /\ Alone(t) /\ on[t] = socket /\ socket \in Sockets
        /\ Answering(Talk(socket), Statement(t))
    BY <1>5, UserFacts DEF Uses, Owns, Waits, Expects
  <2> QED BY <1>0, <1>5, <2>1 DEF Talk, TypeOK
<1>6. CASE ReadData(t)
  <2>1. /\ pc[t] = "reading" /\ pc'[t] = "yielding" /\ Got(t, {"data"}) /\ Take(t)
        /\ stream'[t] = stream[t] /\ query'[t] = query[t]
        /\ UNCHANGED <<socket, link, sent, serving>>
    BY <1>0, <1>6 DEF ReadData, client, TypeOK
  <2>2. wire[on[t]] # <<>> /\ Head(wire[on[t]]).kind = "data"
    BY <2>1 DEF Got
  <2>3. wire'[socket] = Tail(wire[socket])
    BY <1>0, <1>5, <2>1, <2>2 DEF Take, TypeOK
  <2>4. Answering(TalkNext(socket), Statement(t))
    <3>1. /\ TalkNext(socket).link = Talk(socket).link
          /\ TalkNext(socket).sent = Talk(socket).sent
          /\ TalkNext(socket).serving = Talk(socket).serving
          /\ TalkNext(socket).wire = Tail(Talk(socket).wire)
      BY <2>1, <2>3 DEF TalkNext, Talk
    <3>2. Head(Talk(socket).wire).kind = "data"
      BY <1>5, <2>1, <2>2
    <3> QED BY <1>5, <2>1, <2>2, <3>1, <3>2, AnsweringTaken
  <2>5. ExpectsNext(t, TalkNext(socket'))
    BY <2>1, <2>4 DEF ExpectsNext, Statement
  <2>6. OwnsNext(t)
    BY <2>1 DEF OwnsNext
  <2> QED BY <1>5, <2>1, <2>2, <2>5, <2>6 DEF Speaks, UsesNext
<1>7. CASE ReadEnd(t)
  <2>1. /\ pc[t] = "reading" /\ Leave(t) /\ Got(t, {"end"})
        /\ EndOfStream(t) /\ Exhausted(t)
        /\ UNCHANGED <<socket, link, sent, serving>>
    BY <1>7 DEF ReadEnd, Leave
  <2>2. wire[on[t]] # <<>> /\ Head(wire[on[t]]).kind = "end"
    BY <2>1 DEF Got
  <2>3. pc'[t] = "idle"
    BY <1>0, <2>1, SettleFacts DEF Leave, Places
  <2>4. stream'[t] = 0
    BY <1>0, <2>1 DEF Exhausted, FetchesMatch, TypeOK
  <2> DEFINE d == [link |-> link[socket], sent |-> sent[socket],
                   serving |-> serving[socket], wire |-> Tail(wire[socket])]
  <2>5. Clean(d)
    <3>1. /\ d.link = Talk(socket).link
          /\ d.sent = Talk(socket).sent
          /\ d.serving = Talk(socket).serving
          /\ d.wire = Tail(Talk(socket).wire)
      BY DEF Talk
    <3>2. Head(Talk(socket).wire).kind = "end"
      BY <1>5, <2>1, <2>2
    <3> HIDE DEF d
    <3> QED BY <1>5, <2>1, <2>2, <3>1, <3>2, AnsweringTaken
  <2>6. sent[socket] = <<>> /\ serving[socket] = Nothing /\ Tail(wire[socket]) = <<>>
    BY <2>5 DEF Clean
  <2> QED BY <1>0, <1>5, <2>1, <2>2, <2>3, <2>4, <2>6, EndSpeaks
<1> QED BY <1>2, <1>3, <1>4, <1>6, <1>7

\* INSERT
LEMMA InsertSpeaks ==
  ASSUME Serialised, Kept, Users, Conversation, NEW t \in Tasks,
         Sampled(t) \/ SampleFails(t) \/ Drained(t) \/ DrainFails(t)
  PROVE  Speaks(t)
<1>0. TypeOK /\ LockKept /\ OneUser /\ FetchesMatch
  BY DEF Kept, Users
<1>1. pc[t] \in {"sampling", "draining"} =>
        /\ Alone(t) /\ on[t] = socket /\ socket \in Sockets /\ stream[t] = 0
        /\ Expects(t, Talk(socket))
  BY <1>0, UserFacts DEF Uses, Owns, Waits, FetchesMatch
<1>2. /\ Talk(socket).wire = wire[socket] /\ Talk(socket).sent = sent[socket]
      /\ Talk(socket).link = link[socket] /\ Talk(socket).serving = serving[socket]
  BY DEF Talk
<1>3. CASE SampleFails(t) \/ DrainFails(t)
  BY <1>3, QuitSpeaks DEF SampleFails, DrainFails, client
<1>4. CASE Sampled(t)
  <2>1. /\ pc[t] = "sampling" /\ wire[on[t]] # <<>> /\ Take(t)
        /\ Head(wire[on[t]]).kind = "data"
        /\ UNCHANGED <<socket, query, stream>>
    BY <1>4 DEF Sampled, Got, client
  <2>2. CASE Abort(t)
    BY <2>1, <2>2, QuitSpeaks
  <2>3. CASE /\ pc' = [pc EXCEPT ![t] = "draining"]
             /\ sent' = Sending(socket, Message("rows", query[t]))
             /\ UNCHANGED <<link, serving>>
    <3>1. /\ sent[socket] = <<>> /\ Tail(wire[socket]) = <<>>
          /\ \/ link[socket] = "up" /\ serving[socket] = Message("insert", query[t])
             \/ link[socket] # "up" /\ serving[socket] = Nothing
      <4>1. Sampling(Talk(socket), query[t])
        BY <1>1, <2>1 DEF Expects
      <4> QED BY <1>1, <1>2, <2>1, <4>1, SamplingTaken
    <3>2. wire'[socket] = <<>> /\ pc'[t] = "draining"
      BY <1>0, <1>1, <2>1, <2>3, <3>1 DEF Take, TypeOK
    <3>3. IF link'[socket] = "up" THEN sent'[socket] = <<Message("rows", query[t])>>
                                  ELSE sent'[socket] = <<>>
      BY <1>0, <1>1, <2>1, <2>3, <3>1, SendFacts
    <3>4. Draining(TalkNext(socket'), query'[t])
      BY <2>1, <2>3, <3>1, <3>2, <3>3 DEF Draining, TalkNext
    <3>5. ExpectsNext(t, TalkNext(socket')) /\ UsesNext(t)
      BY <3>2, <3>4 DEF ExpectsNext, UsesNext, OwnsNext
    <3> QED BY <1>1, <2>1, <3>5 DEF Speaks
  <2> QED BY <1>4, <2>2, <2>3 DEF Sampled
<1>5. CASE Drained(t)
  <2>1. /\ pc[t] = "draining" /\ Leave(t) /\ wire[on[t]] # <<>> /\ EndOfStream(t)
        /\ UNCHANGED <<socket, link, sent, serving, stream>>
    BY <1>5 DEF Drained, Leave, Got
  <2>2. pc'[t] = "idle"
    BY <1>0, <2>1, SettleFacts DEF Leave, Places
  <2>3. Draining(Talk(socket), query[t])
    BY <1>1, <2>1 DEF Expects
  <2>4. sent[socket] = <<>> /\ serving[socket] = Nothing /\ Tail(wire[socket]) = <<>>
    BY <1>1, <1>2, <2>1, <2>3, DrainingTaken
  <2> QED BY <1>0, <1>1, <2>1, <2>2, <2>4, EndSpeaks
<1> QED BY <1>3, <1>4, <1>5

LEMMA SpeakMoves ==
  ASSUME Serialised, Kept, Users, Conversation, DeadIsSilent, NEW t \in Tasks,
         Advance(t) \/ Disturb(t)
  PROVE  Speaks(t)
<1>1. pc[t] # "pinging"
  BY DEF Users, OneUser
<1>2. ~(Ping(t) \/ PingAnswered(t) \/ PingFails(t) \/ PingTimeout(t)
        \/ PingCancelled(t) \/ Close(t) \/ Connect(t) \/ Terminate(t)
        \/ CancelWaiter(t))
  BY <1>1 DEF Serialised, Queries, Ping, PingAnswered, PingFails, PingTimeout,
              PingCancelled, Close, Connect, Terminate, CancelWaiter
<1> QED BY <1>2, ConnectSpeaks, ReadSpeaks, InsertSpeaks DEF Advance, Disturb, Interfere

\* The server answers what was asked, in order.
LEMMA ServerSpeaks ==
  ASSUME Serialised, Kept, Users, Conversation, NEW s \in Sockets, ServerStep(s)
  PROVE  Conversation'
<1>0. TypeOK /\ NoSocketLeak
  BY DEF Kept, Users
<1>1. UNCHANGED <<socket, pc, query, stream>>
  BY <1>0, ServerTyped DEF client_side, client, tasks
<1>2. socket = s /\ link[s] = "up"
  BY <1>0 DEF ServerStep, Serve, ServerReads, ServerHangsUp, ServerSendsData,
              ServerEnds, LinkLost, NoSocketLeak
<1>3. Served(Talk(s), TalkNext(s))
  BY <1>0, ServedFacts DEF Talk, TalkNext
<1>4. /\ Clean(Talk(s)) \/ \E t \in Tasks : Uses(t)
      /\ \A t \in Tasks : Expects(t, Talk(s))
  BY <1>2, ConversationMeans DEF Sockets
<1>5. \A t \in Tasks : UsesNext(t) <=> Uses(t)
  BY <1>1 DEF UsesNext, Uses, OwnsNext, Owns
<1>6. Clean(TalkNext(s)) \/ \E t \in Tasks : UsesNext(t)
  BY <1>3, <1>4, <1>5, CleanServed
<1>7. ASSUME NEW t \in Tasks PROVE ExpectsNext(t, TalkNext(s))
  <2> DEFINE c == Talk(s)
             d == TalkNext(s)
  <2>0. /\ Expects(t, c) /\ Served(c, d) /\ c.wire \in Seq(Packets)
        /\ Statement(t) \in 0..MaxQueries
    BY <1>0, <1>3, <1>4 DEF Talk, TypeOK, Statement
  <2> HIDE DEF c, d
  <2>1. Exchange(c, Message("hello", 0),
                 {Message("hello", 0), Message("exception", 0)})
        => Exchange(d, Message("hello", 0),
                    {Message("hello", 0), Message("exception", 0)})
    BY <2>0, ExchangeServed, Messages
  <2>2. Exchange(c, Message("ping", 0), {Message("pong", 0)})
        => Exchange(d, Message("ping", 0), {Message("pong", 0)})
    BY <2>0, ExchangeServed, Messages
  <2>3. /\ Sampling(c, query[t]) => Sampling(d, query[t])
        /\ Draining(c, query[t]) => Draining(d, query[t])
        /\ Answering(c, Statement(t)) => Answering(d, Statement(t))
    BY <2>0, SamplingServed, DrainingServed, AnsweringServed
  <2>4. OwnsNext(t) <=> Owns(t)
    BY <1>1 DEF OwnsNext, Owns
  <2>5. ExpectsNext(t, d)
    BY <1>1, <2>0, <2>1, <2>2, <2>3, <2>4 DEF Expects, ExpectsNext, Statement
  <2> QED BY <2>5 DEF d
<1> QED BY <1>1, <1>2, <1>6, <1>7, ConversationMeans

LEMMA ConversationStep ==
  ASSUME Serialised
  PROVE  Kept /\ Users /\ DeadIsSilent /\ Conversation /\ [Next]_vars
           => Conversation'
<1> SUFFICES ASSUME Kept, Users, DeadIsSilent, Conversation, [Next]_vars
             PROVE  Conversation'
  OBVIOUS
<1>1. ASSUME NEW t \in Tasks, Advance(t) \/ Disturb(t)
      PROVE  Conversation'
  <2>1. Speaks(t)
    BY <1>1, SpeakMoves
  <2>2. LockMove(t) /\ Readers(t) /\ TypeOK /\ LockKept
    BY <1>1, TaskStep DEF TypedMove, Kept
  <2>3. OthersWait(t) /\ \A u \in Tasks \ {t} : query'[u] = query[u]
    BY <2>2, LockMoves DEF LockMove
  <2>4. \A u \in Tasks \ {t} : stream'[u] = stream[u]
    BY <1>1, UserMoves DEF UserMove
  <2> QED BY <2>1, <2>2, <2>3, <2>4, SpeaksStep
<1>2. CASE UNCHANGED vars
  <2>1. \A t \in Tasks : OwnsNext(t) <=> Owns(t)
    BY <1>2 DEF vars, OwnsNext, Owns
  <2>2. Talk(socket) = TalkNext(socket')
    BY <1>2 DEF vars, Talk, TalkNext
  <2>3. \A t \in Tasks :
          /\ UsesNext(t) <=> Uses(t)
          /\ ExpectsNext(t, Talk(socket)) <=> Expects(t, Talk(socket))
    BY <1>2, <2>1 DEF vars, UsesNext, Uses, ExpectsNext, Expects, Statement
  <2>4. socket' = socket /\ link' = link
    BY <1>2 DEF vars
  <2> QED BY <2>2, <2>3, <2>4, ConversationMeans
<1> QED BY <1>1, <1>2, ServerSpeaks, Steps

LEMMA ConversationCorrect ==
  ASSUME Serialised
  PROVE  Spec => []Conversation
<1>1. Init => Conversation
  BY DEF Init, Conversation
<1> QED BY <1>1, ConversationStep, KeptCorrect, UsersCorrect, SilentCorrect, PTL
        DEF Spec

\* While every call goes through force_connect: a connection that accepts the
\* next query has nothing left over from the last one, neither a request the
\* server may still answer nor an answer (the run stale_stream shows what a call
\* that takes no lock does to this).
THEOREM InSyncCorrect ==
  ASSUME Serialised
  PROVE  Spec => []InSync
<1>1. Kept /\ Users /\ Conversation => InSync
  <2> SUFFICES ASSUME Kept, Users, Conversation, NEW s \in Sockets,
                      socket = s, link[s] = "up", ~executing,
                      \A t \in Tasks : ~Touching(t, s)
               PROVE  sent[s] = <<>> /\ wire[s] = <<>> /\ serving[s] = Nothing
    BY DEF InSync
  <2>1. \A t \in Tasks : ~Uses(t)
    BY DEF Users, OneUser, Uses, Touching, Waits
  <2>2. Clean(Talk(s))
    BY <2>1, ConversationMeans DEF Sockets
  <2> QED BY <2>2 DEF Clean, Talk
<1> QED BY <1>1, KeptCorrect, UsersCorrect, ConversationCorrect, PTL

-----------------------------------------------------------------------------
(* One statement at a time *)

\* What is unread is one request, and of a statement only when the server works
\* on no other.
OneRequest(c) ==
  \/ c.sent = <<>>
  \/ \E m : /\ c.sent = <<m>>
            /\ c.serving = Nothing \/ m.kind = "rows"

LEMMA ExpectsOne ==
  ASSUME NEW c, NEW t \in Tasks, Expects(t, c), Uses(t)
  PROVE  OneRequest(c)
<1>1. \A m, answers : Exchange(c, m, answers) => OneRequest(c)
  BY DEF Exchange, OneRequest
<1>2. \A q : Sampling(c, q) => OneRequest(c)
  BY <1>1 DEF Sampling, OneRequest
<1>3. \A q : Draining(c, q) => OneRequest(c)
  BY Messages DEF Draining, OneRequest
<1>4. \A q : Answering(c, q) => OneRequest(c)
  BY DEF Answering, OneRequest
<1> QED BY <1>1, <1>2, <1>3, <1>4 DEF Expects, Uses, Owns

\* While every call goes through force_connect: the server never holds two
\* unfinished statements of one connection, unread or in work
\* (is_query_executing and the lock of force_connect).
THEOREM SingleInFlightCorrect ==
  ASSUME Serialised
  PROVE  Spec => []SingleInFlight
<1>1. ASSUME Kept, Users, DeadIsSilent, Conversation
      PROVE  SingleInFlight
  <2> SUFFICES ASSUME NEW s \in Sockets
               PROVE  Cardinality(Statements(s))
                        + (IF serving[s] = Nothing THEN 0 ELSE 1) <= 1
    BY DEF SingleInFlight
  <2>1. OneRequest(Talk(s))
    <3>1. CASE link[s] = "up"
      <4>1. socket = s
        BY <1>1, <3>1 DEF Users, NoSocketLeak
      <4>2. /\ Clean(Talk(s)) \/ \E t \in Tasks : Uses(t)
            /\ \A t \in Tasks : Expects(t, Talk(s))
        BY <1>1, <3>1, <4>1, ConversationMeans DEF Sockets
      <4> QED BY <4>2, ExpectsOne DEF Clean, OneRequest
    <3>2. CASE link[s] # "up"
      BY <1>1, <3>2 DEF DeadIsSilent, OneRequest, Talk
    <3> QED BY <3>1, <3>2
  <2>2. \/ sent[s] = <<>>
        \/ \E m : /\ sent[s] = <<m>>
                  /\ serving[s] = Nothing \/ m.kind = "rows"
    BY <2>1 DEF OneRequest, Talk
  <2>3. CASE \E m : sent[s] = <<m>> /\ serving[s] = Nothing
    <3>1. Statements(s) = {} \/ Statements(s) = {1}
      BY <2>3, Singleton DEF Statements
    <3>2. Cardinality({}) = 0 /\ Cardinality({1}) = 1
      BY FS_EmptySet, FS_Singleton
    <3>3. Cardinality(Statements(s)) \in {0, 1}
      BY <3>1, <3>2
    <3> QED BY <2>3, <3>3
  <2>4. CASE sent[s] = <<>> \/ \E m : sent[s] = <<m>> /\ m.kind = "rows"
    <3>1. Statements(s) = {}
      BY <2>4, Singleton DEF Statements
    <3>2. Cardinality(Statements(s)) = 0
      BY <3>1, FS_EmptySet
    <3> QED BY <3>2
  <2> QED BY <2>2, <2>3, <2>4
<1> QED BY <1>1, KeptCorrect, UsersCorrect, SilentCorrect, ConversationCorrect, PTL

-----------------------------------------------------------------------------
(* The blocks of a result *)

\* A packet that enters the result of t is the next of its own socket.
Receives(t) ==
  /\ pc[t] \in {"reading", "sampling", "draining"}
  /\ wire[on[t]] # <<>>
  /\ pc[t] = "sampling" => Head(wire[on[t]]).kind = "data"

ResultMove(t) ==
  /\ \A u \in Tasks \ {t} : blocks'[u] = blocks[u]
  /\ \/ blocks'[t] = {}
     \/ blocks'[t] = blocks[t] /\ query'[t] = query[t]
     \/ /\ blocks'[t] = blocks[t] \cup {Origin(t)} /\ query'[t] = query[t]
        /\ Receives(t)

LEMMA ResultMoves ==
  ASSUME TypeOK, NEW t \in Tasks, Advance(t) \/ Disturb(t)
  PROVE  ResultMove(t)
<1>1. ASSUME UNCHANGED <<query, blocks>> PROVE ResultMove(t)
  BY <1>1 DEF ResultMove
<1>2. ASSUME Enters(t) PROVE ResultMove(t)
  <2>1. CASE \E c \in Calls \cap Queries : NewQuery(t, c)
    BY <2>1 DEF NewQuery, ResultMove, TypeOK
  <2> QED BY <1>1, <1>2, <2>1 DEF Enters
<1>3. ASSUME Received(t), UNCHANGED query, Receives(t) PROVE ResultMove(t)
  BY <1>3 DEF Received, ResultMove, TypeOK
<1>4. CASE QueueForLock(t)
  BY <1>4 DEF QueueForLock, NewQuery, ResultMove, TypeOK
<1>5. CASE Reject(t) \/ Dial(t) \/ Probe(t) \/ ProbeBroken(t) \/ ProbeContended(t)
  BY <1>2, <1>5 DEF Reject, Dial, Probe, ProbeBroken, ProbeContended
<1>6. CASE \/ ProbeAnswered(t) \/ ProbeFails(t) \/ ProbeLost(t) \/ Dialed(t)
           \/ DialFails(t) \/ Greeted(t) \/ GreetFails(t) \/ GreetLost(t)
           \/ Reopened(t) \/ Closed(t)
  BY <1>1, <1>6
     DEF ProbeAnswered, ProbeFails, ProbeLost, Dialed, DialFails, Greeted,
         GreetFails, GreetLost, Reopened, Closed
<1>7. CASE \/ Resume(t) \/ ReadFails(t) \/ SampleFails(t) \/ DrainFails(t)
           \/ CancelDial(t) \/ CancelRead(t) \/ CancelClose(t) \/ CancelWaiter(t)
  BY <1>1, <1>7
     DEF Resume, ReadFails, SampleFails, DrainFails, CancelDial, CancelRead,
         CancelClose, CancelWaiter
<1>8. CASE \/ Ping(t) \/ PingAnswered(t) \/ PingFails(t) \/ PingTimeout(t)
           \/ PingCancelled(t) \/ Close(t) \/ Connect(t) \/ Terminate(t)
  BY <1>1, <1>8
     DEF Ping, PingAnswered, PingFails, PingTimeout, PingCancelled, Close,
         Connect, Terminate, tasks
<1>9. CASE Fetch(t)
  BY <1>9 DEF Fetch, ResultMove, TypeOK
<1>10. CASE ReadData(t) \/ ReadEnd(t) \/ Sampled(t) \/ Drained(t)
  <2>1. Received(t) /\ UNCHANGED query
    BY <1>10 DEF ReadData, ReadEnd, Sampled, Drained
  <2>2. Receives(t)
    BY <1>10 DEF ReadData, ReadEnd, Sampled, Drained, Got, Receives
  <2> QED BY <1>3, <2>1, <2>2
<1> QED BY <1>4, <1>5, <1>6, <1>7, <1>8, <1>9, <1>10 DEF Advance, Disturb, Interfere

\* What a reader finds is of its own query.
LEMMA OriginIsOwn ==
  ASSUME Serialised, Kept, Users, Conversation, NEW t \in Tasks, Receives(t)
  PROVE  Origin(t) = query[t]
<1>1. /\ on[t] = socket /\ socket \in Sockets /\ Expects(t, Talk(socket))
      /\ Owns(t)
  BY UserFacts DEF Uses, Owns, Receives, Waits
<1>2. /\ Talk(socket).wire = wire[socket] /\ wire[socket] # <<>>
      /\ Talk(socket).wire \in Seq(Packets)
      /\ Origin(t) = Head(Talk(socket).wire).of
  BY <1>1 DEF Talk, Receives, Kept, TypeOK, Origin
<1>3. CASE pc[t] = "reading"
  <2>1. Statement(t) = query[t]
    BY <1>3 DEF Users, FetchesMatch, Statement
  <2>2. Answering(Talk(socket), query[t])
    BY <1>1, <1>3, <2>1 DEF Expects
  <2> DEFINE c == Talk(socket)
             d == [c EXCEPT !.wire = Tail(c.wire)]
  <2>3. /\ d.link = c.link /\ d.sent = c.sent /\ d.serving = c.serving
        /\ d.wire = Tail(c.wire)
    BY DEF Talk
  <2> HIDE DEF d
  <2> QED BY <1>2, <2>2, <2>3, AnsweringTaken
<1>4. CASE pc[t] = "sampling"
  BY <1>1, <1>2, <1>4, SamplingTaken DEF Expects
<1>5. CASE pc[t] = "draining"
  BY <1>1, <1>2, <1>5, DrainingTaken DEF Expects
<1> QED BY <1>3, <1>4, <1>5 DEF Receives

\* While every call goes through force_connect: no packet of one query becomes
\* part of another query's result, whatever the server, the network and the
\* cancellations do (receive_packet and packet_generator in
\* asynch/proto/connection.py, the results of asynch/proto/result.py).
THEOREM ResultsAreOwnCorrect ==
  ASSUME Serialised
  PROVE  Spec => []ResultsAreOwn
<1>1. Init => ResultsAreOwn
  BY DEF Init, ResultsAreOwn
<1>2. Kept /\ Users /\ Conversation /\ ResultsAreOwn /\ [Next]_vars
        => ResultsAreOwn'
  <2> SUFFICES ASSUME Kept, Users, Conversation, ResultsAreOwn, [Next]_vars
               PROVE  ResultsAreOwn'
    OBVIOUS
  <2>1. ASSUME NEW t \in Tasks, Advance(t) \/ Disturb(t)
        PROVE  ResultsAreOwn'
    <3>1. ResultMove(t)
      BY <2>1, ResultMoves DEF Kept
    <3>2. blocks'[t] \subseteq {query'[t]}
      BY <3>1, OriginIsOwn DEF ResultMove, ResultsAreOwn
    <3>3. \A u \in Tasks \ {t} : query'[u] = query[u]
      <4>1. TypeOK /\ LockKept /\ LockMove(t)
        BY <2>1, TaskStep DEF TypedMove, Kept
      <4> QED BY <4>1, LockMoves DEF LockMove
    <3>4. \A u \in Tasks \ {t} : blocks'[u] \subseteq {query'[u]}
      BY <3>1, <3>3 DEF ResultMove, ResultsAreOwn
    <3> QED BY <3>2, <3>4 DEF ResultsAreOwn
  <2>2. ASSUME NEW s \in Sockets, ServerStep(s)
        PROVE  ResultsAreOwn'
    <3>1. UNCHANGED <<blocks, query>>
      BY <2>2, ServerTyped DEF Kept, client_side, tasks
    <3> QED BY <3>1 DEF ResultsAreOwn
  <2>3. CASE UNCHANGED vars
    BY <2>3 DEF vars, ResultsAreOwn
  <2> QED BY <2>1, <2>2, <2>3, Steps
<1> QED BY <1>1, <1>2, KeptCorrect, UsersCorrect, ConversationCorrect, PTL DEF Spec
=============================================================================
