---------------------------- MODULE SessionProofs ----------------------------
(* Theorems about Session, for every set of tasks and every bound.            *)
EXTENDS Session, SequenceLemmas, FiniteSetTheorems

-----------------------------------------------------------------------------
(* Types of the helpers *)

ServerTypes ==
  /\ link' \in [Sockets -> {"none", "up", "lost", "shut"}]
  /\ sent' \in [Sockets -> Seq(Requests)]
  /\ serving' \in [Sockets -> Requests]

LockTypes ==
  /\ pc' \in [Tasks -> Places]
  /\ holder' \in Tasks \cup {NoTask}
  /\ waiters' \in Seq(Tasks)

WireTypes == wire' \in [Sockets -> Seq(Packets)]

LEMMA MessageTypes ==
  ASSUME NEW q \in 0..MaxQueries
  PROVE  /\ \A k \in {"none", "hello", "ping", "query", "insert", "rows"} :
              Message(k, q) \in Requests
         /\ \A k \in Kinds : Message(k, q) \in Packets
         /\ Nothing \in Requests
<1>1. 0 \in 0..MaxQueries
  BY SessionAssumption
<1> QED BY <1>1 DEF Message, Requests, Packets, Nothing

LEMMA SettleTypes ==
  ASSUME TypeOK, NEW t \in Tasks, NEW place \in Places, Settle(t, place)
  PROVE  LockTypes
<1>1. "granted" \in Places
  BY DEF Places
<1>2. CASE waiters # <<>>
  <2>1. Head(waiters) \in Tasks /\ Tail(waiters) \in Seq(Tasks)
    BY <1>2, HeadTailProperties DEF TypeOK
  <2> QED BY <1>1, <2>1 DEF TypeOK, Settle, LockTypes
<1>3. CASE waiters = <<>>
  BY <1>3 DEF TypeOK, Settle, LockTypes
<1> QED BY <1>2, <1>3

LEMMA ShutTypes ==
  ASSUME TypeOK, Connected, Shut
  PROVE  ServerTypes
<1>1. socket \in Sockets /\ Nothing \in Requests
  <2>1. 0 \in 0..MaxQueries
    BY SessionAssumption
  <2> QED BY <2>1, MessageTypes, SessionAssumption
          DEF TypeOK, Connected, Sockets
<1>2. <<>> \in Seq(Requests)
  OBVIOUS
<1> QED BY <1>1, <1>2 DEF TypeOK, Shut, ServerTypes

\* The ways out of a call.
LEMMA EndTypes ==
  ASSUME TypeOK, NEW t \in Tasks,
         Leave(t) \/ Abort(t) \/ Fail(t) \/ CloseFirst(t) \/ Redial(t)
  PROVE  LockTypes /\ ServerTypes
<1>1. {"idle", "closing", "reopening", "dialing"} \subseteq Places
  BY DEF Places
<1>2. CASE Leave(t)
  BY <1>1, <1>2, SettleTypes DEF Leave, ServerTypes, TypeOK
<1>3. CASE Abort(t)
  BY <1>1, <1>2, <1>3, SettleTypes, ShutTypes DEF Abort
<1>4. CASE Fail(t)
  BY <1>2, <1>3, <1>4 DEF Fail
<1>5. CASE CloseFirst(t)
  <2>1. CASE Connected
    BY <1>1, <1>5, <2>1, ShutTypes DEF CloseFirst, LockTypes, TypeOK, lock
  <2>2. CASE ~Connected
    BY <1>2, <1>5, <2>2 DEF CloseFirst
  <2> QED BY <2>1, <2>2
<1>6. CASE Redial(t)
  <2>1. LockTypes
    BY <1>1, <1>6 DEF Redial, LockTypes, TypeOK
  <2>2. ServerTypes
    <3>1. CASE Connected
      BY <1>6, <3>1, ShutTypes DEF Redial
    <3>2. CASE ~Connected
      BY <1>6, <3>2 DEF Redial, ServerTypes, TypeOK
    <3> QED BY <3>1, <3>2
  <2> QED BY <2>1, <2>2
<1> QED BY <1>2, <1>3, <1>4, <1>5, <1>6

LEMMA TakeTypes ==
  ASSUME TypeOK, NEW t \in Tasks, on[t] \in Sockets,
         \/ wire[on[t]] # <<>> /\ Take(t)
         \/ TakeEof(t)
         \/ UNCHANGED wire
  PROVE  WireTypes
<1>1. wire[on[t]] \in Seq(Packets) /\ <<>> \in Seq(Packets)
  BY DEF TypeOK
<1>2. wire[on[t]] # <<>> => Tail(wire[on[t]]) \in Seq(Packets)
  BY <1>1, HeadTailProperties
<1> QED BY <1>1, <1>2 DEF TypeOK, Take, TakeEof, WireTypes

LEMMA SendTypes ==
  ASSUME TypeOK, NEW s \in Sockets, NEW m \in Requests
  PROVE  Sending(s, m) \in [Sockets -> Seq(Requests)]
<1>1. sent[s] \in Seq(Requests)
  BY DEF TypeOK
<1>2. Append(sent[s], m) \in Seq(Requests)
  BY <1>1
<1> QED BY <1>2 DEF TypeOK, Sending

LEMMA EndOfStreamTypes ==
  ASSUME TypeOK, NEW t \in Tasks, on[t] \in Sockets, wire[on[t]] # <<>>,
         EndOfStream(t)
  PROVE  WireTypes
<1> DEFINE left == [wire EXCEPT ![on[t]] = Tail(@)]
<1>1. left \in [Sockets -> Seq(Packets)]
  BY HeadTailProperties DEF TypeOK
<1>2. CASE socket = 0
  BY <1>1, <1>2 DEF EndOfStream, WireTypes
<1>3. CASE socket # 0
  <2>1. socket \in Sockets
    BY <1>3, SessionAssumption DEF TypeOK, Sockets
  <2> HIDE DEF left
  <2>2. left[socket] \in Seq(Packets) /\ Len(left[socket]) \in Nat
    BY <1>1, <2>1, LenProperties
  <2>3. PICK k \in 0..Len(left[socket]) :
          wire' = [left EXCEPT ![socket] = SubSeq(@, k + 1, Len(@))]
    BY <1>3 DEF EndOfStream, left
  <2>4. SubSeq(left[socket], k + 1, Len(left[socket])) \in Seq(Packets)
    <3>1. k + 1 \in 1 .. Len(left[socket]) + 1
      BY <2>2
    <3> QED BY <2>2, <3>1, SubSeqProperties
  <2> QED BY <1>1, <2>3, <2>4 DEF WireTypes
<1> QED BY <1>2, <1>3

LEMMA ProceedTypes ==
  ASSUME TypeOK, NEW t \in Tasks, call[t] \in Queries, Proceed(t)
  PROVE  /\ LockTypes /\ ServerTypes /\ executing' \in BOOLEAN
         /\ on' \in [Tasks -> 0..MaxSockets]
         /\ stream' \in [Tasks -> 0..MaxQueries]
<1>1. CASE /\ Writable
           /\ Settle(t, CASE call[t] = "execute" -> "reading"
                          [] call[t] = "insert"  -> "sampling"
                          [] call[t] = "iterate" -> "idle")
           /\ on' = [on EXCEPT ![t] = socket]
           /\ sent' = Sending(socket,
                Message(IF call[t] = "insert" THEN "insert" ELSE "query",
                        query[t]))
           /\ stream' = IF call[t] = "iterate"
                          THEN [stream EXCEPT ![t] = query[t]] ELSE stream
           /\ UNCHANGED <<link, serving>>
  <2>1. \E place \in Places : Settle(t, place)
    BY <1>1 DEF Queries, Places, Waits
  <2>2. socket \in Sockets
    BY <1>1, SessionAssumption DEF TypeOK, Writable, Connected, Sockets
  <2>3. \A k \in {"insert", "query"} : Message(k, query[t]) \in Requests
    BY MessageTypes DEF TypeOK
  <2>4. sent' \in [Sockets -> Seq(Requests)]
    BY <1>1, <2>2, <2>3, SendTypes
  <2>5. LockTypes
    BY <2>1, SettleTypes
  <2> QED BY <1>1, <2>2, <2>4, <2>5 DEF Proceed, TypeOK, ServerTypes, Sockets
<1>2. CASE Abort(t) /\ UNCHANGED <<on, stream>>
  BY <1>2, EndTypes DEF Proceed, TypeOK
<1> QED BY <1>1, <1>2 DEF Proceed

-----------------------------------------------------------------------------
(* What a step of one task does to the lock and to the flag *)

Outside == Places \ (Establishing \cup {"locking"})

\* The task leaves the block, or goes on beside it.
GoesOn(t) == \E place \in Outside : pc[t] # "locking" /\ Settle(t, place)

\* The lock stays as it is: with the task, or with somebody else.
Stays(t) ==
  /\ UNCHANGED lock
  /\ pc[t] # "locking"
  /\ \E place \in Places :
       /\ pc' = [pc EXCEPT ![t] = place]
       /\ IF holder = t THEN place \in (Establishing \ {"granted"}) \cup {"closing"}
                        ELSE place \in Outside

\* The task goes on inside the block, which it may have entered just now.
Holds(t) ==
  /\ holder \in {t, NoTask}
  /\ holder' = t /\ UNCHANGED waiters
  /\ pc[t] # "locking"
  /\ \E place \in Establishing \ {"granted"} : pc' = [pc EXCEPT ![t] = place]

Queues(t) ==
  /\ pc[t] = "idle"
  /\ holder # NoTask
  /\ UNCHANGED holder
  /\ waiters' = Append(waiters, t)
  /\ pc' = [pc EXCEPT ![t] = "locking"]

GivesUp(t) ==
  /\ pc[t] = "locking"
  /\ UNCHANGED holder
  /\ \E i \in DOMAIN waiters :
       /\ waiters[i] = t
       /\ waiters' = SubSeq(waiters, 1, i - 1)
                       \o SubSeq(waiters, i + 1, Len(waiters))
  /\ \E place \in {"idle", "closing"} : pc' = [pc EXCEPT ![t] = place]

\* connect() goes on beside the lock.
Dials(t) ==
  /\ UNCHANGED lock
  /\ holder # t /\ pc[t] # "locking"
  /\ call'[t] = "connect"
  /\ \E place \in {"dialing", "greeting"} : pc' = [pc EXCEPT ![t] = place]

LockMove(t) ==
  /\ \/ GoesOn(t) \/ Stays(t) \/ Holds(t) \/ Queues(t) \/ GivesUp(t) \/ Dials(t)
     \/ pc[t] = "idle" /\ UNCHANGED <<pc, lock>>
  /\ \A u \in Tasks \ {t} : call'[u] = call[u] /\ query'[u] = query[u]
  /\ call'[t] = "connect" =>
       /\ "connect" \in Calls /\ holder' # t
       /\ pc'[t] \notin {"locking", "granted", "probing", "reopening"}
  /\ call'[t] # "connect" /\ pc'[t] \in Establishing \cup {"locking"} =>
       call'[t] \in Queries /\ query'[t] # 0
  /\ call'[t] # "connect" /\ pc'[t] \in Establishing \ {"granted"} => ~executing'
  /\ executing' => executing \/ (holder = t /\ holder' # t)

\* What the invariant says of the holder, and of a connect() beside it.
LEMMA InsideFacts ==
  ASSUME LockKept, NEW t \in Tasks,
         \/ pc[t] \in {"granted", "probing", "reopening"}
         \/ pc[t] \in {"dialing", "greeting"} /\ call[t] # "connect"
         \/ pc[t] \in Establishing /\ "connect" \notin Calls
  PROVE  /\ Inside(t) /\ holder = t /\ call[t] # "connect"
         /\ call[t] \in Queries /\ query[t] # 0
         /\ executing => pc[t] = "granted"
<1>1. Inside(t)
  BY DEF LockKept, Inside, Establishing
<1> QED BY <1>1 DEF LockKept, Inside

\* The removal in the middle of the queue.
LEMMA GivesUpFacts ==
  ASSUME TypeOK, LockKept, NEW t \in Tasks, GivesUp(t)
  PROVE  /\ waiters' \in Seq(Tasks)
         /\ \A i, j \in DOMAIN waiters' : waiters'[i] = waiters'[j] => i = j
         /\ \A i \in DOMAIN waiters' :
              waiters'[i] # t /\ \E j \in DOMAIN waiters : waiters'[i] = waiters[j]
         /\ \A j \in DOMAIN waiters : waiters[j] # t =>
              \E i \in DOMAIN waiters' : waiters'[i] = waiters[j]
<1>1. PICK k \in DOMAIN waiters :
        /\ waiters[k] = t
        /\ waiters' = SubSeq(waiters, 1, k - 1)
                        \o SubSeq(waiters, k + 1, Len(waiters))
  BY DEF GivesUp
<1>2. waiters \in Seq(Tasks) /\ k \in 1..Len(waiters) /\ IsInjective(waiters)
  BY LenProperties DEF TypeOK, LockKept, IsInjective
<1>3. /\ IsInjective(waiters')
      /\ \A i \in DOMAIN waiters' :
           \E j \in DOMAIN waiters : j # k /\ waiters'[i] = waiters[j]
      /\ \A j \in DOMAIN waiters : j # k =>
           \E i \in DOMAIN waiters' : waiters'[i] = waiters[j]
      /\ waiters' \in Seq(Tasks)
  BY <1>1, <1>2, RemoveProperties
<1>4. \A j \in DOMAIN waiters : j # k => waiters[j] # t
  BY <1>1 DEF LockKept
<1>5. \A i, j \in DOMAIN waiters' : waiters'[i] = waiters'[j] => i = j
  BY <1>3 DEF IsInjective
<1>6. \A i \in DOMAIN waiters' :
        waiters'[i] # t /\ \E j \in DOMAIN waiters : waiters'[i] = waiters[j]
  BY <1>3, <1>4
<1>7. \A j \in DOMAIN waiters : waiters[j] # t =>
        \E i \in DOMAIN waiters' : waiters'[i] = waiters[j]
  BY <1>1, <1>3
<1> QED BY <1>3, <1>5, <1>6, <1>7

LEMMA LockTypesStep ==
  ASSUME TypeOK, LockKept, NEW t \in Tasks, LockMove(t)
  PROVE  LockTypes
<1>1. CASE GoesOn(t)
  BY <1>1, SettleTypes DEF GoesOn, Outside
<1>2. CASE Stays(t)
  BY <1>2 DEF Stays, LockTypes, TypeOK, lock
<1>3. CASE Holds(t)
  BY <1>3 DEF Holds, LockTypes, TypeOK, Establishing, Places, Waits
<1>4. CASE Queues(t)
  <2>1. waiters' \in Seq(Tasks)
    BY <1>4 DEF Queues, TypeOK
  <2> QED BY <1>4, <2>1 DEF Queues, LockTypes, TypeOK, Places
<1>5. CASE GivesUp(t)
  <2>1. waiters' \in Seq(Tasks)
    BY <1>5, GivesUpFacts
  <2>2. {"idle", "closing"} \subseteq Places
    BY DEF Places
  <2>3. pc' \in [Tasks -> Places] /\ holder' \in Tasks \cup {NoTask}
    BY <1>5, <2>2 DEF GivesUp, TypeOK
  <2> QED BY <2>1, <2>3 DEF LockTypes
<1>6. CASE pc[t] = "idle" /\ UNCHANGED <<pc, lock>>
  BY <1>6 DEF LockTypes, TypeOK, lock
<1>7. CASE Dials(t)
  <2>1. {"dialing", "greeting"} \subseteq Places
    BY DEF Places, Waits
  <2> QED BY <1>7, <2>1 DEF Dials, LockTypes, TypeOK, lock
<1> QED BY <1>1, <1>2, <1>3, <1>4, <1>5, <1>6, <1>7 DEF LockMove

\* Other tasks stay where they are, but for the one the lock is handed to.
OthersWait(t) ==
  \A u \in Tasks \ {t} :
    pc'[u] = pc[u] \/ (pc[u] = "locking" /\ pc'[u] = "granted")

Queued ==
  /\ \A i, j \in DOMAIN waiters : waiters[i] = waiters[j] => i = j
  /\ \A i \in DOMAIN waiters : pc[waiters[i]] = "locking"
  /\ \A t \in Tasks : pc[t] = "locking" => \E i \in DOMAIN waiters : waiters[i] = t
  /\ holder = NoTask => waiters = <<>>

Held ==
  /\ holder # NoTask => pc[holder] \in Establishing \cup {"closing"}
  /\ \A t \in Tasks : Inside(t) => holder = t
  /\ \A t \in Tasks : holder = t => call[t] # "connect"

\* The head of the queue gets the lock.
LEMMA HandOver ==
  ASSUME TypeOK, LockKept, NEW t \in Tasks, NEW place \in Outside,
         pc[t] # "locking", holder = t, waiters # <<>>, Settle(t, place),
         \A u \in Tasks \ {t} : call'[u] = call[u]
  PROVE  OthersWait(t) /\ Queued' /\ Held'
<1> DEFINE h == Head(waiters)
<1>0. waiters \in Seq(Tasks) /\ IsInjective(waiters)
      /\ pc \in [Tasks -> Places] /\ NoTask \notin Tasks
  BY SessionAssumption DEF TypeOK, LockKept, IsInjective
<1>1. /\ h \in Tasks /\ h \in Range(waiters)
      /\ Tail(waiters) \in Seq(Tasks)
      /\ Range(Tail(waiters)) \subseteq Range(waiters)
      /\ IsInjective(Tail(waiters)) /\ h \notin Range(Tail(waiters))
  BY <1>0, TailProperties
<1>2. /\ Len(waiters) \in Nat \ {0} /\ DOMAIN waiters = 1..Len(waiters)
      /\ DOMAIN Tail(waiters) = 1 .. Len(waiters) - 1
      /\ \A i \in 1 .. Len(waiters) - 1 : Tail(waiters)[i] = waiters[i + 1]
      /\ h = waiters[1]
  BY <1>0, EmptySeq, LenProperties, HeadTailProperties
<1>3. \A u \in Range(waiters) : pc[u] = "locking"
  BY DEF Range, LockKept
<1>4. h # t /\ pc[h] = "locking"
  BY <1>1, <1>3
<1> HIDE DEF h
<1>5. /\ pc' = [pc EXCEPT ![t] = place, ![h] = "granted"]
      /\ holder' = h /\ waiters' = Tail(waiters)
  BY DEF Settle, h
<1>6. \A u \in Tasks : pc'[u] = IF u = h THEN "granted"
                                ELSE IF u = t THEN place ELSE pc[u]
  BY <1>0, <1>1, <1>4, <1>5
<1>7. OthersWait(t)
  BY <1>4, <1>6 DEF OthersWait
<1>8. Queued'
  <2>1. \A i \in DOMAIN waiters' : waiters'[i] \in Range(waiters')
    BY DEF Range
  <2>2. \A i \in DOMAIN waiters' : waiters'[i] \in Tasks
    BY <1>1, <1>5, ElementOfSeq, LenProperties
  <2>3. \A i \in DOMAIN waiters' : pc'[waiters'[i]] = "locking"
    <3> SUFFICES ASSUME NEW i \in DOMAIN waiters'
                 PROVE  pc'[waiters'[i]] = "locking"
      OBVIOUS
    <3>1. pc[waiters'[i]] = "locking" /\ waiters'[i] # h /\ waiters'[i] # t
      BY <1>1, <1>3, <1>5, <2>1
    <3> QED BY <1>6, <2>2, <3>1
  <2>4. ASSUME NEW u \in Tasks, pc'[u] = "locking"
        PROVE  \E i \in DOMAIN waiters' : waiters'[i] = u
    <3>1. u # h /\ u # t /\ pc[u] = "locking"
      BY <1>6, <2>4 DEF Outside
    <3>2. PICK i \in DOMAIN waiters : waiters[i] = u
      BY <3>1 DEF LockKept
    <3>3. i - 1 \in 1 .. Len(waiters) - 1 /\ (i - 1) + 1 = i
      BY <1>2, <3>1, <3>2
    <3> QED BY <1>2, <1>5, <3>2, <3>3
  <2>5. holder' # NoTask
    BY <1>0, <1>1, <1>5
  <2> QED BY <1>1, <1>5, <2>3, <2>4, <2>5 DEF Queued, IsInjective
<1>9. Held'
  <2>1. \A u \in Tasks : Inside(u)' => u = h
    BY <1>6 DEF Inside, Outside, LockKept
  <2>2. pc'[h] \in Establishing
    BY <1>1, <1>6 DEF Establishing
  <2>3. call'[h] # "connect"
    BY <1>1, <1>4 DEF LockKept, Queries
  <2> QED BY <1>5, <2>1, <2>2, <2>3 DEF Held
<1> QED BY <1>7, <1>8, <1>9

LEMMA LockMoves ==
  ASSUME TypeOK, LockKept, NEW t \in Tasks, LockMove(t)
  PROVE  OthersWait(t) /\ Queued' /\ Held'
<1>0. /\ pc \in [Tasks -> Places] /\ NoTask \notin Tasks
      /\ waiters \in Seq(Tasks) /\ holder \in Tasks \cup {NoTask}
      /\ "locking" \notin Establishing /\ "closing" \notin Establishing
      /\ \A i \in DOMAIN waiters : waiters[i] \in Tasks
  BY SessionAssumption, ElementOfSeq, LenProperties DEF TypeOK, Establishing
<1>c. /\ \A u \in Tasks \ {t} : call'[u] = call[u]
      /\ holder' = t => call'[t] # "connect"
  BY DEF LockMove
\* The lock stays where it is or becomes free, and nobody but t may begin to
\* establish a connection.
<1>h. ASSUME \A u \in Tasks \ {t} : holder' = u <=> holder = u,
             \A u \in Tasks \ {t} : pc'[u] = pc[u],
             Inside(t)' => holder' = t,
             holder' # NoTask => pc'[holder'] \in Establishing \cup {"closing"}
      PROVE  Held'
  <2>1. ASSUME NEW u \in Tasks \ {t}
        PROVE  /\ Inside(u)' => holder' = u
               /\ holder' = u => call'[u] # "connect"
    BY <1>c, <1>h DEF Inside, LockKept
  <2> QED BY <1>c, <1>h, <2>1 DEF Held
<1>1. CASE GoesOn(t)
  <2>1. PICK place \in Outside : pc[t] # "locking" /\ Settle(t, place)
    BY <1>1 DEF GoesOn
  <2>2. CASE holder = t /\ waiters # <<>>
    BY <1>c, <2>1, <2>2, HandOver
  <2>3. CASE ~(holder = t /\ waiters # <<>>)
    <3>1. /\ pc' = [pc EXCEPT ![t] = place]
          /\ holder' = IF holder = t THEN NoTask ELSE holder
          /\ waiters' = waiters
      BY <2>1, <2>3 DEF Settle
    <3>2. \A u \in Tasks : pc'[u] = IF u = t THEN place ELSE pc[u]
      BY <1>0, <3>1
    <3>3. place \notin Establishing /\ place # "locking"
      BY DEF Outside
    <3>4. OthersWait(t)
      BY <3>2 DEF OthersWait
    <3>5. Queued'
      BY <1>0, <2>1, <2>3, <3>1, <3>2, <3>3 DEF Queued, LockKept
    <3>6. Held'
      <4>1. /\ \A u \in Tasks \ {t} : pc'[u] = pc[u]
            /\ \A u \in Tasks \ {t} : holder' = u <=> holder = u
        BY <1>0, <3>1, <3>2
      <4>2. Inside(t)' => holder' = t
        BY <3>2, <3>3 DEF Inside
      <4>3. holder' # NoTask => pc'[holder'] \in Establishing \cup {"closing"}
        BY <1>0, <3>1, <3>2 DEF LockKept
      <4> QED BY <1>h, <4>1, <4>2, <4>3
    <3> QED BY <3>4, <3>5, <3>6
  <2> QED BY <2>2, <2>3
<1>2. CASE Stays(t)
  <2>1. PICK place \in Places :
          /\ pc' = [pc EXCEPT ![t] = place]
          /\ IF holder = t
               THEN place \in (Establishing \ {"granted"}) \cup {"closing"}
               ELSE place \in Outside
    BY <1>2 DEF Stays
  <2>2. \A u \in Tasks : pc'[u] = IF u = t THEN place ELSE pc[u]
    BY <1>0, <2>1
  <2>3. pc[t] # "locking" /\ holder' = holder /\ waiters' = waiters
    BY <1>2 DEF Stays, lock
  <2>4. place # "locking" /\ (holder # t => place \notin Establishing)
        /\ (holder = t => place \in Establishing \cup {"closing"})
    BY <1>0, <2>1 DEF Outside
  <2>5. OthersWait(t)
    BY <2>2 DEF OthersWait
  <2>6. Queued'
    BY <1>0, <2>2, <2>3, <2>4 DEF Queued, LockKept
  <2>7. Held'
    <3>1. holder' # NoTask => pc'[holder'] \in Establishing \cup {"closing"}
      BY <1>0, <2>2, <2>3, <2>4 DEF LockKept
    <3>2. Inside(t)' => holder' = t
      BY <2>2, <2>3, <2>4 DEF Inside
    <3> QED BY <1>h, <2>2, <2>3, <3>1, <3>2
  <2> QED BY <2>5, <2>6, <2>7
<1>3. CASE Holds(t)
  <2>1. PICK place \in Establishing \ {"granted"} : pc' = [pc EXCEPT ![t] = place]
    BY <1>3 DEF Holds
  <2>2. \A u \in Tasks : pc'[u] = IF u = t THEN place ELSE pc[u]
    BY <1>0, <2>1
  <2>3. /\ pc[t] # "locking" /\ holder' = t /\ waiters' = waiters
        /\ holder \in {t, NoTask}
    BY <1>3 DEF Holds
  <2>4. OthersWait(t)
    BY <2>2 DEF OthersWait
  <2>5. Queued'
    BY <1>0, <2>1, <2>2, <2>3 DEF Queued, LockKept
  <2>6. Held'
    <3>1. \A u \in Tasks \ {t} : ~Inside(u)' /\ holder' # u
      BY <1>0, <1>c, <2>2, <2>3 DEF Inside, LockKept
    <3>2. pc'[t] \in Establishing
      BY <2>1, <2>2
    <3> QED BY <1>c, <2>3, <3>1, <3>2 DEF Held
  <2> QED BY <2>4, <2>5, <2>6
<1>4. CASE Queues(t)
  <2>1. /\ \A u \in Tasks : pc'[u] = IF u = t THEN "locking" ELSE pc[u]
        /\ holder' = holder /\ holder # NoTask /\ pc[t] = "idle"
        /\ waiters' = Append(waiters, t)
    BY <1>0, <1>4 DEF Queues
  <2>2. /\ DOMAIN waiters = 1..Len(waiters) /\ Len(waiters) \in Nat
        /\ DOMAIN waiters' = 1..Len(waiters) + 1
        /\ \A i \in 1..Len(waiters) : waiters'[i] = waiters[i]
        /\ waiters'[Len(waiters) + 1] = t
    BY <1>0, <2>1, AppendProperties, LenProperties
  <2>3. \A i \in DOMAIN waiters : waiters[i] # t
    BY <2>1 DEF LockKept
  <2>4. OthersWait(t)
    BY <2>1 DEF OthersWait
  <2>5. Queued'
    <3>1. \A i, j \in DOMAIN waiters' : waiters'[i] = waiters'[j] => i = j
      BY <2>2, <2>3 DEF LockKept
    <3>2. \A i \in DOMAIN waiters' : pc'[waiters'[i]] = "locking"
      BY <1>0, <2>1, <2>2, <2>3 DEF LockKept
    <3>3. \A u \in Tasks : pc'[u] = "locking" =>
            \E i \in DOMAIN waiters' : waiters'[i] = u
      BY <2>1, <2>2 DEF LockKept
    <3> QED BY <2>1, <3>1, <3>2, <3>3 DEF Queued
  <2>6. Held'
    <3>1. holder # t
      BY <1>0, <2>1 DEF LockKept, Establishing
    <3>2. holder' # NoTask => pc'[holder'] \in Establishing \cup {"closing"}
      BY <1>0, <2>1, <3>1 DEF LockKept
    <3>3. ~Inside(t)'
      BY <1>0, <2>1 DEF Inside
    <3> QED BY <1>h, <2>1, <3>2, <3>3
  <2> QED BY <2>4, <2>5, <2>6
<1>5. CASE GivesUp(t)
  <2>1. PICK place \in {"idle", "closing"} : pc' = [pc EXCEPT ![t] = place]
    BY <1>5 DEF GivesUp
  <2>2. /\ \A u \in Tasks : pc'[u] = IF u = t THEN place ELSE pc[u]
        /\ holder' = holder /\ pc[t] = "locking"
    BY <1>0, <1>5, <2>1 DEF GivesUp
  <2>3. /\ waiters' \in Seq(Tasks)
        /\ \A i, j \in DOMAIN waiters' : waiters'[i] = waiters'[j] => i = j
        /\ \A i \in DOMAIN waiters' :
             waiters'[i] # t /\ \E j \in DOMAIN waiters : waiters'[i] = waiters[j]
        /\ \A j \in DOMAIN waiters : waiters[j] # t =>
             \E i \in DOMAIN waiters' : waiters'[i] = waiters[j]
    BY <1>5, GivesUpFacts
  <2>4. OthersWait(t)
    BY <2>2 DEF OthersWait
  <2>5. Queued'
    <3>1. \A i \in DOMAIN waiters' : pc'[waiters'[i]] = "locking"
      BY <1>0, <2>2, <2>3 DEF LockKept
    <3>2. \A u \in Tasks : pc'[u] = "locking" =>
            \E i \in DOMAIN waiters' : waiters'[i] = u
      BY <2>2, <2>3 DEF LockKept
    <3>3. holder' # NoTask
      <4>1. waiters # <<>>
        BY <1>5 DEF GivesUp
      <4> QED BY <2>2, <4>1 DEF LockKept
    <3> QED BY <2>3, <3>1, <3>2, <3>3 DEF Queued
  <2>6. Held'
    <3>1. holder # t
      BY <1>0, <2>2 DEF LockKept, Establishing
    <3>2. holder' # NoTask => pc'[holder'] \in Establishing \cup {"closing"}
      BY <1>0, <2>2, <3>1 DEF LockKept
    <3>3. ~Inside(t)'
      BY <1>0, <2>1, <2>2 DEF Inside, Establishing
    <3> QED BY <1>h, <2>2, <3>2, <3>3
  <2> QED BY <2>4, <2>5, <2>6
<1>6. CASE pc[t] = "idle" /\ UNCHANGED <<pc, lock>>
  <2>1. pc' = pc /\ holder' = holder /\ waiters' = waiters
    BY <1>6 DEF lock
  <2>2. Inside(t)' => holder' = t
    BY <1>6, <2>1 DEF Inside, Establishing
  <2>3. holder' # NoTask => pc'[holder'] \in Establishing \cup {"closing"}
    BY <2>1 DEF LockKept
  <2>4. Held'
    BY <1>h, <2>1, <2>2, <2>3
  <2> QED BY <2>1, <2>4 DEF OthersWait, Queued, LockKept
<1>7. CASE Dials(t)
  <2>1. PICK place \in {"dialing", "greeting"} : pc' = [pc EXCEPT ![t] = place]
    BY <1>7 DEF Dials
  <2>2. /\ \A u \in Tasks : pc'[u] = IF u = t THEN place ELSE pc[u]
        /\ holder' = holder /\ waiters' = waiters /\ holder # t
        /\ pc[t] # "locking" /\ call'[t] = "connect"
    BY <1>0, <1>7, <2>1 DEF Dials, lock
  <2>3. OthersWait(t)
    BY <2>2 DEF OthersWait
  <2>4. Queued'
    BY <1>0, <2>1, <2>2 DEF Queued, LockKept
  <2>5. Held'
    <3>1. holder' # NoTask => pc'[holder'] \in Establishing \cup {"closing"}
      BY <1>0, <2>2 DEF LockKept
    <3>2. ~Inside(t)'
      BY <2>2 DEF Inside
    <3> QED BY <1>h, <2>2, <3>1, <3>2
  <2> QED BY <2>3, <2>4, <2>5
<1> QED BY <1>1, <1>2, <1>3, <1>4, <1>5, <1>6, <1>7 DEF LockMove

LEMMA LockStep ==
  ASSUME TypeOK, LockKept, NEW t \in Tasks, LockMove(t)
  PROVE  LockKept'
<1> DEFINE
    Entry(u) ==
      /\ pc[u] \in Establishing /\ call[u] = "connect" =>
           pc[u] \in {"dialing", "greeting"}
      /\ Inside(u) => (executing => pc[u] = "granted")
      /\ Inside(u) \/ pc[u] = "locking" => call[u] \in Queries /\ query[u] # 0
      /\ call[u] = "connect" => "connect" \in Calls
<1>1. OthersWait(t) /\ Queued' /\ Held'
  BY LockMoves
<1>2. ASSUME NEW u \in Tasks \ {t}
      PROVE  Entry(u)'
  <2>1. call'[u] = call[u] /\ query'[u] = query[u]
    BY DEF LockMove
  <2>2. pc'[u] = pc[u] \/ (pc[u] = "locking" /\ pc'[u] = "granted")
    BY <1>1 DEF OthersWait
  <2>3. Entry(u) /\ (pc[u] = "locking" => call[u] # "connect")
    BY DEF LockKept, Queries
  <2>4. Inside(u) => holder # t
    BY DEF LockKept
  <2>5. executing' => executing \/ holder = t
    BY DEF LockMove
  <2> QED BY <2>1, <2>2, <2>3, <2>4, <2>5 DEF Inside, Establishing
<1>3. Entry(t)'
  BY DEF LockMove, Inside, Establishing
<1>4. \A u \in Tasks : Entry(u)'
  BY <1>2, <1>3
<1> QED BY <1>1, <1>4 DEF LockKept, Queued, Held

-----------------------------------------------------------------------------
(* The steps of one task *)

\* After leaving the block a task does not hold the lock.
LEMMA SettleFacts ==
  ASSUME TypeOK, LockKept, NEW t \in Tasks, pc[t] # "locking",
         NEW place \in Places, Settle(t, place)
  PROVE  pc'[t] = place /\ holder' # t
<1>1. /\ pc \in [Tasks -> Places] /\ waiters \in Seq(Tasks)
      /\ t # NoTask
  BY SessionAssumption DEF TypeOK
<1>2. CASE holder = t /\ waiters # <<>>
  <2>1. Head(waiters) \in Tasks /\ pc[Head(waiters)] = "locking"
    <3>1. 1 \in DOMAIN waiters /\ Head(waiters) = waiters[1]
      BY <1>1, <1>2, EmptySeq, LenProperties
    <3> QED BY <1>1, <3>1, ElementOfSeq, LenProperties DEF LockKept
  <2>2. pc' = [pc EXCEPT ![t] = place, ![Head(waiters)] = "granted"]
        /\ holder' = Head(waiters)
    BY <1>2 DEF Settle
  <2> QED BY <1>1, <2>1, <2>2
<1>3. CASE ~(holder = t /\ waiters # <<>>)
  BY <1>1, <1>3 DEF Settle
<1> QED BY <1>2, <1>3

\* The ways out of a call, as moves of the lock.
LEMMA EndMoves ==
  ASSUME TypeOK, LockKept, NEW t \in Tasks, pc[t] # "locking",
         Leave(t) \/ Abort(t) \/ Fail(t) \/ CloseFirst(t)
  PROVE  /\ GoesOn(t) \/ Stays(t)
         /\ pc'[t] \in {"idle", "closing"}
<1>1. {"idle", "closing"} \subseteq Outside /\ {"idle", "closing"} \subseteq Places
  BY DEF Outside, Places, Establishing
<1>2. CASE Leave(t)
  BY <1>1, <1>2, SettleFacts DEF Leave, GoesOn
<1>3. CASE Abort(t)
  BY <1>1, <1>2, <1>3, SettleFacts DEF Abort, GoesOn
<1>4. CASE Fail(t)
  BY <1>2, <1>3, <1>4 DEF Fail
<1>5. CASE CloseFirst(t)
  <2>1. CASE Connected
    BY <1>1, <1>5, <2>1 DEF CloseFirst, Stays, TypeOK
  <2>2. CASE ~Connected
    BY <1>2, <1>5, <2>2 DEF CloseFirst
  <2> QED BY <2>1, <2>2
<1> QED BY <1>2, <1>3, <1>4, <1>5

LEMMA RedialMoves ==
  ASSUME TypeOK, NEW t \in Tasks, pc[t] # "locking", holder \in {t, NoTask},
         Redial(t)
  PROVE  Holds(t) /\ pc'[t] \in {"reopening", "dialing"}
<1>1. {"reopening", "dialing"} \subseteq Establishing \ {"granted"}
  BY DEF Establishing
<1> QED BY <1>1 DEF Redial, Holds, TypeOK

LEMMA ProceedMoves ==
  ASSUME TypeOK, LockKept, NEW t \in Tasks, Inside(t), Proceed(t)
  PROVE  /\ GoesOn(t) /\ holder = t /\ holder' # t /\ call[t] \in Queries
         /\ pc'[t] \in {"idle", "closing", "reading", "sampling"}
         /\ pc'[t] \in Waits => on'[t] \in Sockets
         /\ \A u \in Tasks \ {t} : on'[u] = on[u]
<1>0. call[t] \in Queries /\ holder = t /\ pc[t] # "locking"
  BY DEF LockKept, Inside, Establishing
<1>1. {"idle", "closing", "reading", "sampling"} \subseteq Outside \cap Places
  BY DEF Outside, Places, Waits, Establishing
<1>2. CASE \E place \in {"idle", "reading", "sampling"} :
             /\ Writable /\ Settle(t, place) /\ on' = [on EXCEPT ![t] = socket]
  <2>1. socket \in Sockets
    BY <1>2, SessionAssumption DEF TypeOK, Writable, Connected, Sockets
  <2> QED BY <1>0, <1>1, <1>2, <2>1, SettleFacts DEF GoesOn, TypeOK
<1>3. CASE Abort(t) /\ UNCHANGED on
  <2>1. \E place \in {"idle", "closing"} : Settle(t, place)
    BY <1>3 DEF Abort, Leave
  <2>2. GoesOn(t) /\ pc'[t] \in {"idle", "closing"} /\ holder' # t
    BY <1>0, <1>1, <2>1, SettleFacts DEF GoesOn
  <2> QED BY <1>0, <1>3, <2>2 DEF Waits
<1> QED BY <1>0, <1>2, <1>3 DEF Proceed, Queries

\* A call that begins, or that goes on with the lock.
LEMMA EntersFacts ==
  ASSUME TypeOK, LockKept, NEW t \in Tasks, Enters(t)
  PROVE  /\ holder \in {t, NoTask} /\ pc[t] \in {"granted", "idle"}
         /\ call'[t] \in Queries /\ query'[t] # 0
         /\ \A u \in Tasks \ {t} : call'[u] = call[u] /\ query'[u] = query[u]
         /\ call' \in [Tasks -> AllCalls \cup {"fetch"}]
         /\ query' \in [Tasks -> 0..MaxQueries]
         /\ blocks' \in [Tasks -> SUBSET (0..MaxQueries)]
         /\ queries' \in 0..MaxQueries
<1>1. CASE pc[t] = "granted" /\ UNCHANGED <<call, query, blocks, queries>>
  BY <1>1, InsideFacts DEF TypeOK
<1>2. ASSUME NEW c \in Calls \cap Queries, NewQuery(t, c), pc[t] = "idle",
             holder = NoTask
      PROVE  /\ holder \in {t, NoTask} /\ pc[t] \in {"granted", "idle"}
             /\ call'[t] \in Queries /\ query'[t] # 0
             /\ \A u \in Tasks \ {t} : call'[u] = call[u] /\ query'[u] = query[u]
             /\ call' \in [Tasks -> AllCalls \cup {"fetch"}]
             /\ query' \in [Tasks -> 0..MaxQueries]
             /\ blocks' \in [Tasks -> SUBSET (0..MaxQueries)]
             /\ queries' \in 0..MaxQueries
  <2>1. queries + 1 \in 0..MaxQueries /\ queries + 1 # 0
    BY <1>2, SessionAssumption DEF NewQuery, TypeOK
  <2>2. c \in AllCalls
    BY DEF Queries, AllCalls
  <2> QED BY <1>2, <2>1, <2>2 DEF NewQuery, TypeOK
<1> QED BY <1>1, <1>2 DEF Enters

DataTypes ==
  /\ socket' \in 0..MaxSockets
  /\ executing' \in BOOLEAN
  /\ call' \in [Tasks -> AllCalls \cup {"fetch"}]
  /\ on' \in [Tasks -> 0..MaxSockets]
  /\ query' \in [Tasks -> 0..MaxQueries]
  /\ stream' \in [Tasks -> 0..MaxQueries]
  /\ blocks' \in [Tasks -> SUBSET (0..MaxQueries)]
  /\ queries' \in 0..MaxQueries

\* Only the task itself turns to another socket, and to one that was opened.
Readers(t) ==
  /\ \A u \in Tasks \ {t} : on'[u] = on[u]
  /\ pc'[t] \in Waits => on'[t] \in Sockets

TypedMove(t) ==
  LockMove(t) /\ ServerTypes /\ WireTypes /\ DataTypes /\ Readers(t)

\* force_connect
LEMMA EnterSteps ==
  ASSUME TypeOK, LockKept, ReadersHaveSockets, NEW t \in Tasks,
         \/ QueueForLock(t)
         \/ Reject(t) \/ Dial(t) \/ Probe(t) \/ ProbeBroken(t) \/ ProbeContended(t)
  PROVE  TypedMove(t)
<1>1. CASE QueueForLock(t)
  <2>1. PICK c \in Calls \cap Queries : NewQuery(t, c)
    BY <1>1 DEF QueueForLock
  <2>2. queries + 1 \in 0..MaxQueries /\ queries + 1 # 0
    BY <2>1, SessionAssumption DEF NewQuery, TypeOK
  <2>3. c \in AllCalls /\ c \in Queries
    BY DEF Queries, AllCalls
  <2>4. /\ pc'[t] = "locking" /\ call'[t] \in Queries /\ query'[t] # 0
        /\ \A u \in Tasks \ {t} : call'[u] = call[u] /\ query'[u] = query[u]
        /\ call' \in [Tasks -> AllCalls \cup {"fetch"}]
        /\ query' \in [Tasks -> 0..MaxQueries]
        /\ blocks' \in [Tasks -> SUBSET (0..MaxQueries)]
        /\ queries' \in 0..MaxQueries
    BY <1>1, <2>1, <2>2, <2>3 DEF QueueForLock, NewQuery, TypeOK
  <2>5. LockMove(t)
    BY <1>1, <2>4 DEF QueueForLock, LockMove, Queues, client, Establishing, Queries
  <2>6. ServerTypes /\ WireTypes
    BY <1>1 DEF QueueForLock, server, TypeOK, ServerTypes, WireTypes
  <2>7. DataTypes
    BY <1>1, <2>4 DEF QueueForLock, client, TypeOK, DataTypes
  <2>8. Readers(t)
    BY <1>1, <2>4 DEF QueueForLock, Readers, Waits
  <2> QED BY <2>5, <2>6, <2>7, <2>8 DEF TypedMove
<1>2. ASSUME Enters(t) PROVE
        /\ holder \in {t, NoTask} /\ pc[t] \in {"granted", "idle"}
        /\ pc[t] # "locking"
        /\ call'[t] \in Queries /\ query'[t] # 0
        /\ \A u \in Tasks \ {t} : call'[u] = call[u] /\ query'[u] = query[u]
        /\ call' \in [Tasks -> AllCalls \cup {"fetch"}]
        /\ query' \in [Tasks -> 0..MaxQueries]
        /\ blocks' \in [Tasks -> SUBSET (0..MaxQueries)]
        /\ queries' \in 0..MaxQueries
  BY <1>2, EntersFacts
<1>3. ASSUME Enters(t), Leave(t) \/ Abort(t),
             UNCHANGED <<client, on, stream, wire>>
      PROVE  TypedMove(t)
  <2>1. GoesOn(t) \/ Stays(t)
    BY <1>2, <1>3, EndMoves
  <2>2. pc'[t] \in {"idle", "closing"}
    BY <1>2, <1>3, EndMoves
  <2>3. LockMove(t)
    BY <1>2, <1>3, <2>1, <2>2 DEF LockMove, client, Establishing, Queries
  <2>4. ServerTypes
    BY <1>3, EndTypes
  <2>5. WireTypes /\ DataTypes /\ Readers(t)
    BY <1>2, <1>3, <2>2 DEF WireTypes, DataTypes, Readers, TypeOK, client, Waits
  <2> QED BY <2>3, <2>4, <2>5 DEF TypedMove
<1>4. ASSUME Enters(t), Redial(t), ~executing,
             UNCHANGED <<client, on, stream, wire>>
      PROVE  TypedMove(t)
  <2>1. Holds(t) /\ pc'[t] \in {"reopening", "dialing"}
    BY <1>2, <1>4, RedialMoves
  <2>3. LockMove(t)
    BY <1>2, <1>4, <2>1 DEF LockMove, client, Establishing, Queries
  <2>4. ServerTypes
    BY <1>4, EndTypes
  <2>5. WireTypes /\ DataTypes /\ Readers(t)
    BY <1>2, <1>4, <2>1 DEF WireTypes, DataTypes, Readers, TypeOK, client, Waits
  <2> QED BY <2>3, <2>4, <2>5 DEF TypedMove
<1>5. CASE Reject(t)
  BY <1>3, <1>5 DEF Reject
<1>6. CASE Dial(t)
  BY <1>4, <1>6 DEF Dial
<1>7. CASE ProbeBroken(t)
  BY <1>4, <1>7 DEF ProbeBroken
<1>8. CASE ProbeContended(t)
  BY <1>3, <1>8 DEF ProbeContended
<1>9. CASE Probe(t)
  <2>1. /\ Enters(t) /\ ~executing /\ holder' = t /\ waiters' = waiters
        /\ pc' = [pc EXCEPT ![t] = "probing"]
        /\ on' = [on EXCEPT ![t] = socket]
        /\ sent' = Sending(socket, Message("ping", 0))
        /\ UNCHANGED <<socket, executing, stream, link, serving, wire>>
    BY <1>9 DEF Probe, client
  <2>2. socket \in Sockets
    BY <1>9, SessionAssumption DEF Probe, Writable, Connected, TypeOK, Sockets
  <2>3. Message("ping", 0) \in Requests
    <3>1. 0 \in 0..MaxQueries BY SessionAssumption
    <3> QED BY <3>1, MessageTypes
  <2>4. ServerTypes
    <3>1. sent' \in [Sockets -> Seq(Requests)]
      BY <2>1, <2>2, <2>3, SendTypes
    <3> QED BY <2>1, <3>1 DEF ServerTypes, TypeOK
  <2>5. Holds(t) /\ pc'[t] = "probing"
    BY <1>2, <2>1 DEF Holds, Establishing, TypeOK
  <2>6. LockMove(t)
    BY <1>2, <2>1, <2>5 DEF LockMove, Queries
  <2>7. WireTypes /\ DataTypes /\ Readers(t)
    BY <1>2, <2>1, <2>2 DEF WireTypes, DataTypes, Readers, TypeOK
  <2> QED BY <2>4, <2>6, <2>7 DEF TypedMove
<1> QED BY <1>1, <1>5, <1>6, <1>7, <1>8, <1>9

\* Every step that only ends a call or closes the socket.
LEMMA EndStep ==
  ASSUME TypeOK, LockKept, NEW t \in Tasks, pc[t] # "locking",
         Leave(t) \/ Abort(t) \/ Fail(t) \/ CloseFirst(t),
         \A u \in Tasks \ {t} : call'[u] = call[u] /\ query'[u] = query[u],
         call'[t] = call[t] \/ call'[t] # "connect",
         executing' => executing,
         WireTypes, DataTypes, UNCHANGED on
  PROVE  TypedMove(t)
<1>1. (GoesOn(t) \/ Stays(t)) /\ pc'[t] \in {"idle", "closing"}
  BY EndMoves
<1>a. holder' = t => holder = t
  <2>1. Outside \subseteq Places
    BY DEF Outside
  <2> QED BY <1>1, <2>1, SettleFacts DEF GoesOn, Stays, lock
<1>b. call'[t] = "connect" => "connect" \in Calls /\ holder' # t
  BY <1>a DEF LockKept
<1>2. LockMove(t)
  BY <1>1, <1>b DEF LockMove, Establishing
<1>3. ServerTypes
  BY EndTypes
<1> QED BY <1>1, <1>2, <1>3 DEF TypedMove, Readers, Waits

\* What a reader finds.
LEMMA ReaderFacts ==
  ASSUME TypeOK, ReadersHaveSockets, NEW t \in Tasks, pc[t] \in Waits
  PROVE  /\ on[t] \in Sockets /\ pc[t] # "locking"
         /\ wire[on[t]] # <<>> =>
              /\ Origin(t) \in 0..MaxQueries
              /\ Received(t) => blocks' \in [Tasks -> SUBSET (0..MaxQueries)]
<1>1. on[t] \in Sockets
  BY DEF ReadersHaveSockets
<1>2. ASSUME wire[on[t]] # <<>> PROVE Origin(t) \in 0..MaxQueries
  <2>1. wire[on[t]] \in Seq(Packets)
    BY <1>1 DEF TypeOK
  <2>2. Head(wire[on[t]]) \in Packets
    BY <1>2, <2>1, HeadTailProperties
  <2> QED BY <2>2 DEF Origin, Packets
<1>3. ASSUME wire[on[t]] # <<>>, Received(t)
      PROVE  blocks' \in [Tasks -> SUBSET (0..MaxQueries)]
  <2>1. blocks[t] \cup {Origin(t)} \in SUBSET (0..MaxQueries)
    BY <1>2, <1>3 DEF TypeOK
  <2> QED BY <1>3, <2>1 DEF Received, TypeOK
<1> QED BY <1>1, <1>2, <1>3 DEF Waits

\* The probe of force_connect and what follows it.
LEMMA ProbeSteps ==
  ASSUME TypeOK, LockKept, ReadersHaveSockets, NEW t \in Tasks,
         ProbeAnswered(t) \/ ProbeFails(t) \/ ProbeLost(t)
  PROVE  TypedMove(t)
<1>0. /\ pc[t] = "probing" /\ pc[t] \in Waits /\ pc[t] \in Establishing
      /\ on[t] \in Sockets /\ holder = t /\ pc[t] # "locking" /\ ~executing
      /\ call[t] \in Queries /\ query[t] # 0 /\ call[t] # "connect" /\ Inside(t)
  BY ReaderFacts, InsideFacts
     DEF ProbeAnswered, ProbeFails, ProbeLost, Waits, Establishing
<1>1. CASE ProbeAnswered(t)
  <2>1. /\ GoesOn(t) /\ holder' # t
        /\ pc'[t] \in {"idle", "closing", "reading", "sampling"}
        /\ pc'[t] \in Waits => on'[t] \in Sockets
        /\ \A u \in Tasks \ {t} : on'[u] = on[u]
    BY <1>0, <1>1, ProceedMoves DEF ProbeAnswered
  <2>2. /\ ServerTypes /\ executing' \in BOOLEAN
        /\ on' \in [Tasks -> 0..MaxSockets]
        /\ stream' \in [Tasks -> 0..MaxQueries]
    BY <1>0, <1>1, ProceedTypes DEF ProbeAnswered
  <2>3. WireTypes
    BY <1>0, <1>1, TakeTypes DEF ProbeAnswered, Got
  <2>4. LockMove(t)
    BY <1>0, <1>1, <2>1 DEF ProbeAnswered, LockMove, Establishing
  <2>5. DataTypes
    BY <1>1, <2>2 DEF ProbeAnswered, DataTypes, TypeOK
  <2> QED BY <2>1, <2>2, <2>3, <2>4, <2>5 DEF TypedMove, Readers
<1>2. CASE ProbeFails(t)
  <2>1. WireTypes
    BY <1>0, <1>2, TakeTypes DEF ProbeFails, Got
  <2>2. DataTypes
    BY <1>2 DEF ProbeFails, DataTypes, TypeOK, client
  <2> QED BY <1>0, <1>2, <2>1, <2>2, EndStep DEF ProbeFails, client
<1>3. CASE ProbeLost(t)
  <2>1. Holds(t) /\ pc'[t] \in {"reopening", "dialing"}
    BY <1>0, <1>3, RedialMoves DEF ProbeLost
  <2>2. LockMove(t)
    BY <1>0, <1>3, <2>1 DEF ProbeLost, LockMove, client
  <2>3. ServerTypes
    BY <1>3, EndTypes DEF ProbeLost
  <2>4. WireTypes /\ DataTypes /\ Readers(t)
    BY <1>3, <2>1 DEF ProbeLost, WireTypes, DataTypes, Readers, TypeOK, client,
                      Waits
  <2> QED BY <2>2, <2>3, <2>4 DEF TypedMove
<1> QED BY <1>1, <1>2, <1>3

\* connect(), inside force_connect or beside it.
LEMMA DialSteps ==
  ASSUME TypeOK, LockKept, ReadersHaveSockets, NEW t \in Tasks,
         \/ Dialed(t) \/ DialFails(t) \/ Greeted(t) \/ GreetFails(t)
         \/ GreetLost(t) \/ Reopened(t)
  PROVE  TypedMove(t)
<1>0. /\ pc[t] \in {"dialing", "greeting", "reopening"}
      /\ pc[t] \in Establishing \ {"granted"} /\ pc[t] # "locking"
      /\ \A p \in {"dialing", "greeting"} : p \in Places /\ p \in Establishing \ {"granted"}
  BY DEF Dialed, DialFails, Greeted, GreetFails, GreetLost, Reopened,
         Establishing, Places, Waits
<1>a. ASSUME call[t] # "connect"
      PROVE  /\ Inside(t) /\ holder = t /\ ~executing
             /\ call[t] \in Queries /\ query[t] # 0
  BY <1>0, <1>a, InsideFacts
<1>b. ASSUME call[t] = "connect"
      PROVE  holder # t /\ "connect" \in Calls
  BY <1>b DEF LockKept
<1>1. CASE Dialed(t)
  <2>1. PICK s \in Sockets :
          /\ link' = [link EXCEPT ![s] = "up"]
          /\ socket' = s
          /\ on' = [on EXCEPT ![t] = s]
          /\ sent' = [sent EXCEPT ![s] = <<Message("hello", 0)>>]
    BY <1>1 DEF Dialed
  <2>2. s \in 0..MaxSockets
    BY SessionAssumption DEF Sockets
  <2>3. <<Message("hello", 0)>> \in Seq(Requests)
    <3>1. 0 \in 0..MaxQueries BY SessionAssumption
    <3>2. Message("hello", 0) \in Requests BY <3>1, MessageTypes
    <3> QED BY <3>2
  <2>4. ServerTypes
    BY <1>1, <2>1, <2>3 DEF Dialed, ServerTypes, TypeOK
  <2>5. pc' = [pc EXCEPT ![t] = "greeting"] /\ UNCHANGED <<holder, waiters>>
    BY <1>1 DEF Dialed, lock
  <2>6. pc'[t] = "greeting" /\ UNCHANGED <<lock, executing, call, query>>
    BY <1>1, <2>5 DEF Dialed, TypeOK
  <2>7. LockMove(t)
    <3>1. CASE call[t] = "connect"
      <4>1. Dials(t)
        BY <1>0, <1>b, <2>5, <2>6, <3>1 DEF Dials
      <4> QED BY <1>b, <2>6, <3>1, <4>1 DEF LockMove, lock
    <3>2. CASE call[t] # "connect"
      <4>1. Stays(t)
        BY <1>0, <1>a, <2>5, <2>6, <3>2 DEF Stays
      <4> QED BY <1>a, <2>6, <3>2, <4>1 DEF LockMove
    <3> QED BY <3>1, <3>2
  <2>8. WireTypes /\ DataTypes /\ Readers(t)
    BY <1>1, <2>1, <2>2, <2>6
       DEF Dialed, WireTypes, DataTypes, Readers, TypeOK
  <2> QED BY <2>4, <2>7, <2>8 DEF TypedMove
<1>2. CASE DialFails(t)
  <2>1. WireTypes /\ DataTypes
    BY <1>2 DEF DialFails, WireTypes, DataTypes, TypeOK, client
  <2> QED BY <1>0, <1>2, <2>1, EndStep DEF DialFails, client
<1>3. CASE Greeted(t)
  <2>0. pc[t] \in Waits /\ on[t] \in Sockets
    BY <1>3, ReaderFacts DEF Greeted, Waits
  <2>3. WireTypes
    BY <2>0, <1>3, TakeTypes DEF Greeted, Got
  <2>6. CASE call[t] = "connect"
    <3>1. /\ Leave(t)
          /\ UNCHANGED <<socket, executing, call, on, query, stream, blocks, queries>>
      BY <1>3, <2>6 DEF Greeted
    <3>2. DataTypes
      BY <3>1 DEF DataTypes, TypeOK
    <3> QED BY <1>0, <2>3, <3>1, <3>2, EndStep
  <2>7. CASE call[t] # "connect"
    <3>1. /\ GoesOn(t) /\ holder' # t
          /\ pc'[t] \in {"idle", "closing", "reading", "sampling"}
          /\ pc'[t] \in Waits => on'[t] \in Sockets
          /\ \A u \in Tasks \ {t} : on'[u] = on[u]
      BY <1>a, <1>3, <2>7, ProceedMoves DEF Greeted
    <3>2. /\ ServerTypes /\ executing' \in BOOLEAN
          /\ on' \in [Tasks -> 0..MaxSockets]
          /\ stream' \in [Tasks -> 0..MaxQueries]
      BY <1>a, <1>3, <2>7, ProceedTypes DEF Greeted
    <3>3. LockMove(t)
      BY <1>a, <1>3, <2>7, <3>1 DEF Greeted, LockMove, Establishing
    <3>4. DataTypes
      BY <1>3, <3>2 DEF Greeted, DataTypes, TypeOK
    <3> QED BY <2>3, <3>1, <3>2, <3>3, <3>4 DEF TypedMove, Readers
  <2> QED BY <2>6, <2>7
<1>4. CASE GreetFails(t)
  <2>0. pc[t] \in Waits /\ on[t] \in Sockets
    BY <1>4, ReaderFacts DEF GreetFails, Waits
  <2>1. WireTypes
    BY <1>4, <2>0, TakeTypes DEF GreetFails, Got
  <2>2. DataTypes
    BY <1>4 DEF GreetFails, DataTypes, TypeOK, client
  <2> QED BY <1>0, <1>4, <2>1, <2>2, EndStep DEF GreetFails, client
<1>5. CASE GreetLost(t)
  <2>1. WireTypes /\ DataTypes
    BY <1>5 DEF GreetLost, WireTypes, DataTypes, TypeOK, client
  <2> QED BY <1>0, <1>5, <2>1, EndStep DEF GreetLost, client
<1>6. CASE Reopened(t)
  <2>0. call[t] # "connect"
    BY <1>6, InsideFacts DEF Reopened
  <2>1. Stays(t) /\ pc'[t] = "dialing"
    <3>1. "dialing" \in Places /\ "dialing" \in Establishing \ {"granted"}
      BY DEF Places, Establishing
    <3>2. pc' = [pc EXCEPT ![t] = "dialing"] /\ UNCHANGED lock
      BY <1>6 DEF Reopened
    <3> QED BY <1>0, <1>a, <2>0, <3>1, <3>2 DEF Stays, TypeOK
  <2>2. LockMove(t)
    BY <1>a, <1>6, <2>0, <2>1 DEF LockMove, Reopened, Reset
  <2>3. 0 \in 0..MaxSockets
    BY SessionAssumption
  <2>4. ServerTypes /\ WireTypes
    BY <1>6 DEF Reopened, server, ServerTypes, WireTypes, TypeOK
  <2>5. DataTypes
    BY <1>6, <2>3 DEF Reopened, Reset, DataTypes, TypeOK
  <2>6. Readers(t)
    BY <1>6, <2>1 DEF Reopened, Readers, Waits
  <2> QED BY <2>2, <2>4, <2>5, <2>6 DEF TypedMove
<1> QED BY <1>1, <1>2, <1>3, <1>4, <1>5, <1>6

\* A read or a write beside the lock: the task goes from one place outside the
\* block to another.
LEMMA GoesBeside ==
  ASSUME TypeOK, LockKept, NEW t \in Tasks,
         pc[t] \notin Establishing \cup {"locking", "closing"},
         NEW place \in Outside, pc' = [pc EXCEPT ![t] = place], UNCHANGED lock,
         \A u \in Tasks \ {t} : call'[u] = call[u] /\ query'[u] = query[u],
         call'[t] = call[t] \/ call'[t] # "connect",
         UNCHANGED executing
  PROVE  LockMove(t) /\ pc'[t] = place
<1>1. place \notin Establishing \cup {"locking"} /\ place \in Places
  BY DEF Outside
<1>2. holder # t
  BY SessionAssumption DEF LockKept
<1>3. Stays(t) /\ pc'[t] = place
  BY <1>1, <1>2 DEF Stays, TypeOK
<1>4. call'[t] = "connect" => "connect" \in Calls /\ holder' # t
  BY <1>2 DEF LockKept, lock
<1> QED BY <1>1, <1>3, <1>4 DEF LockMove, Establishing

LEMMA ExhaustedTypes ==
  ASSUME TypeOK, NEW t \in Tasks, Exhausted(t) \/ UNCHANGED stream
  PROVE  stream' \in [Tasks -> 0..MaxQueries]
<1>1. 0 \in 0..MaxQueries
  BY SessionAssumption
<1> QED BY <1>1 DEF Exhausted, TypeOK

ReadingPlaces == {"idle", "reading", "yielding", "sampling", "draining",
                  "pinging"}

LEMMA ReadingPlacesFacts ==
  /\ ReadingPlaces \subseteq Outside
  /\ \A p \in ReadingPlaces : p \notin Establishing \cup {"locking", "closing"}
BY DEF ReadingPlaces, Outside, Places, Waits, Establishing

\* Reading a result.
LEMMA ReadSteps ==
  ASSUME TypeOK, LockKept, ReadersHaveSockets, NEW t \in Tasks,
         Fetch(t) \/ ReadData(t) \/ Resume(t) \/ ReadEnd(t) \/ ReadFails(t)
  PROVE  TypedMove(t)
<1>0. /\ pc[t] \in ReadingPlaces
      /\ pc[t] \notin Establishing \cup {"locking", "closing"}
      /\ pc[t] # "locking"
  BY ReadingPlacesFacts
     DEF Fetch, ReadData, Resume, ReadEnd, ReadFails, ReadingPlaces
<1>1. ASSUME ReadOn(t), DataTypes, WireTypes, UNCHANGED executing,
             \A u \in Tasks \ {t} : call'[u] = call[u] /\ query'[u] = query[u],
             call'[t] = call[t] \/ call'[t] # "connect"
      PROVE  TypedMove(t)
  <2>1. socket \in Sockets
    BY <1>1, SessionAssumption DEF TypeOK, ReadOn, Sockets
  <2>2. "reading" \in Outside
    BY ReadingPlacesFacts DEF ReadingPlaces
  <2>3. LockMove(t) /\ pc'[t] = "reading"
    BY <1>0, <1>1, <2>2, GoesBeside DEF ReadOn
  <2>4. ServerTypes
    BY <1>1 DEF ReadOn, ServerTypes, TypeOK
  <2>5. Readers(t)
    BY <1>1, <2>1 DEF ReadOn, Readers, TypeOK
  <2> QED BY <1>1, <2>3, <2>4, <2>5 DEF TypedMove
<1>2. CASE Fetch(t)
  <2>1. /\ \A u \in Tasks \ {t} : call'[u] = call[u] /\ query'[u] = query[u]
        /\ call'[t] # "connect"
        /\ UNCHANGED <<socket, executing, wire, queries>>
        /\ call' \in [Tasks -> AllCalls \cup {"fetch"}]
        /\ query' \in [Tasks -> 0..MaxQueries]
        /\ blocks' \in [Tasks -> SUBSET (0..MaxQueries)]
    BY <1>2 DEF Fetch, client, TypeOK
  <2>2. 0 \in 0..MaxQueries
    BY SessionAssumption
  <2>3. CASE ReadOn(t)
    <3>1. on' \in [Tasks -> 0..MaxSockets] /\ stream' \in [Tasks -> 0..MaxQueries]
      BY <2>3 DEF ReadOn, TypeOK
    <3>2. DataTypes /\ WireTypes
      BY <2>1, <3>1 DEF DataTypes, WireTypes, TypeOK
    <3> QED BY <1>1, <2>1, <2>3, <3>2
  <2>4. CASE Abort(t) /\ stream' = [stream EXCEPT ![t] = 0] /\ UNCHANGED on
    <3>1. on' \in [Tasks -> 0..MaxSockets] /\ stream' \in [Tasks -> 0..MaxQueries]
      BY <2>2, <2>4 DEF TypeOK
    <3>2. DataTypes /\ WireTypes
      BY <2>1, <3>1 DEF DataTypes, WireTypes, TypeOK
    <3> QED BY <1>0, <2>1, <2>4, <3>2, EndStep
  <2> QED BY <1>2, <2>3, <2>4 DEF Fetch
<1>3. CASE ReadData(t)
  <2>1. on[t] \in Sockets /\ blocks' \in [Tasks -> SUBSET (0..MaxQueries)]
    BY <1>3, ReaderFacts DEF ReadData, Waits, Got
  <2>2. WireTypes
    BY <1>3, <2>1, TakeTypes DEF ReadData, Got
  <2>3. DataTypes /\ ServerTypes
    BY <1>3, <2>1 DEF ReadData, DataTypes, ServerTypes, TypeOK, client
  <2>4. "yielding" \in Outside
    BY ReadingPlacesFacts DEF ReadingPlaces
  <2>5. LockMove(t) /\ pc'[t] = "yielding"
    BY <1>0, <1>3, <2>4, GoesBeside DEF ReadData, client
  <2>6. Readers(t)
    BY <1>3, <2>5 DEF ReadData, Readers, Waits
  <2> QED BY <2>2, <2>3, <2>5, <2>6 DEF TypedMove
<1>4. CASE Resume(t)
  <2>1. UNCHANGED <<socket, executing, call, query, blocks, wire, queries>>
    BY <1>4 DEF Resume, client
  <2>2. CASE ReadOn(t)
    <3>1. DataTypes /\ WireTypes
      BY <2>1, <2>2 DEF ReadOn, DataTypes, WireTypes, TypeOK
    <3> QED BY <1>1, <2>1, <2>2, <3>1
  <2>3. CASE (Leave(t) /\ UNCHANGED <<on, stream>>) \/ CannotRead(t)
    <3>1. stream' \in [Tasks -> 0..MaxQueries]
      BY <2>3, ExhaustedTypes DEF CannotRead
    <3>2. UNCHANGED on /\ (Leave(t) \/ Abort(t))
      BY <2>3 DEF CannotRead
    <3>3. DataTypes /\ WireTypes
      BY <2>1, <3>1, <3>2 DEF DataTypes, WireTypes, TypeOK
    <3> QED BY <1>0, <2>1, <3>2, <3>3, EndStep
  <2> QED BY <1>4, <2>2, <2>3 DEF Resume
<1>5. CASE ReadEnd(t)
  <2>1. on[t] \in Sockets /\ blocks' \in [Tasks -> SUBSET (0..MaxQueries)]
    BY <1>5, ReaderFacts DEF ReadEnd, Waits, Got
  <2>2. WireTypes /\ executing' = FALSE
    BY <1>5, <2>1, EndOfStreamTypes DEF ReadEnd, Got, EndOfStream
  <2>3. stream' \in [Tasks -> 0..MaxQueries]
    BY <1>5, ExhaustedTypes DEF ReadEnd
  <2>4. DataTypes
    BY <1>5, <2>1, <2>2, <2>3 DEF ReadEnd, DataTypes, TypeOK
  <2> QED BY <1>0, <1>5, <2>2, <2>4, EndStep DEF ReadEnd
<1>6. CASE ReadFails(t)
  <2>1. on[t] \in Sockets
    BY <1>6, ReaderFacts DEF ReadFails, Waits
  <2>2. WireTypes
    BY <1>6, <2>1, TakeTypes DEF ReadFails, Got
  <2>3. stream' \in [Tasks -> 0..MaxQueries]
    BY <1>6, ExhaustedTypes DEF ReadFails
  <2>4. DataTypes
    BY <1>6, <2>3 DEF ReadFails, DataTypes, TypeOK, client
  <2> QED BY <1>0, <1>6, <2>2, <2>4, EndStep DEF ReadFails, client
<1> QED BY <1>2, <1>3, <1>4, <1>5, <1>6

\* INSERT with data.
LEMMA InsertSteps ==
  ASSUME TypeOK, LockKept, ReadersHaveSockets, NEW t \in Tasks,
         Sampled(t) \/ SampleFails(t) \/ Drained(t) \/ DrainFails(t)
  PROVE  TypedMove(t)
<1>0. /\ pc[t] \in ReadingPlaces
      /\ pc[t] \notin Establishing \cup {"locking", "closing"}
      /\ pc[t] # "locking" /\ pc[t] \in Waits /\ on[t] \in Sockets
  <2>1. pc[t] \in {"sampling", "draining"}
    BY DEF Sampled, SampleFails, Drained, DrainFails
  <2>2. pc[t] \in Waits /\ pc[t] \in ReadingPlaces
    BY <2>1 DEF Waits, ReadingPlaces
  <2> QED BY <2>2, ReadingPlacesFacts DEF ReadersHaveSockets
<1>1. CASE Sampled(t)
  <2>1. blocks' \in [Tasks -> SUBSET (0..MaxQueries)] /\ WireTypes
    BY <1>0, <1>1, ReaderFacts, TakeTypes DEF Sampled, Got
  <2>2. UNCHANGED <<socket, executing, call, query, stream, queries>>
    BY <1>1 DEF Sampled, client
  <2>3. CASE /\ Writable
             /\ pc' = [pc EXCEPT ![t] = "draining"]
             /\ on' = [on EXCEPT ![t] = socket]
             /\ sent' = Sending(socket, Message("rows", query[t]))
             /\ UNCHANGED <<lock, link, serving>>
    <3>1. socket \in Sockets
      BY <2>3, SessionAssumption DEF Writable, Connected, TypeOK, Sockets
    <3>2. sent' \in [Sockets -> Seq(Requests)]
      <4>1. Message("rows", query[t]) \in Requests
        BY MessageTypes DEF TypeOK
      <4> QED BY <2>3, <3>1, <4>1, SendTypes
    <3>3. ServerTypes /\ DataTypes
      BY <2>1, <2>2, <2>3, <3>1, <3>2 DEF ServerTypes, DataTypes, TypeOK
    <3>4. "draining" \in Outside
      BY ReadingPlacesFacts DEF ReadingPlaces
    <3>5. LockMove(t) /\ pc'[t] = "draining"
      BY <1>0, <2>2, <2>3, <3>4, GoesBeside
    <3>6. Readers(t)
      BY <2>3, <3>1 DEF Readers, TypeOK
    <3> QED BY <2>1, <3>3, <3>5, <3>6 DEF TypedMove
  <2>4. CASE Abort(t) /\ UNCHANGED on
    <3>1. DataTypes
      BY <2>1, <2>2, <2>4 DEF DataTypes, TypeOK
    <3> QED BY <1>0, <2>1, <2>2, <2>4, <3>1, EndStep
  <2> QED BY <1>1, <2>3, <2>4 DEF Sampled
<1>2. CASE SampleFails(t)
  <2>1. WireTypes /\ executing' \in BOOLEAN /\ (executing' => executing)
    <3>1. CASE Got(t, {"end"}) /\ EndOfStream(t)
      BY <1>0, <3>1, EndOfStreamTypes DEF Got, EndOfStream
    <3>2. CASE /\ UNCHANGED executing
               /\ \/ Got(t, {"exception", "pong", "hello"}) /\ Take(t)
                  \/ TakeEof(t)
                  \/ UNCHANGED wire
      BY <1>0, <3>2, TakeTypes DEF Got, TypeOK
    <3> QED BY <1>2, <3>1, <3>2 DEF SampleFails
  <2>2. DataTypes
    BY <1>2, <2>1 DEF SampleFails, DataTypes, TypeOK
  <2> QED BY <1>0, <1>2, <2>1, <2>2, EndStep DEF SampleFails
<1>3. CASE Drained(t)
  <2>1. /\ blocks' \in [Tasks -> SUBSET (0..MaxQueries)]
        /\ WireTypes /\ executing' = FALSE
    BY <1>0, <1>3, ReaderFacts, EndOfStreamTypes DEF Drained, Got, EndOfStream
  <2>2. DataTypes
    BY <1>3, <2>1 DEF Drained, DataTypes, TypeOK
  <2> QED BY <1>0, <1>3, <2>1, <2>2, EndStep DEF Drained
<1>4. CASE DrainFails(t)
  <2>1. WireTypes
    BY <1>0, <1>4, TakeTypes DEF DrainFails, Got
  <2>2. DataTypes
    BY <1>4, <2>1 DEF DrainFails, DataTypes, TypeOK, client
  <2> QED BY <1>0, <1>4, <2>1, <2>2, EndStep DEF DrainFails, client
<1> QED BY <1>1, <1>2, <1>3, <1>4

\* The calls of asynch/connection.py that take no lock.
LEMMA PlainSteps ==
  ASSUME TypeOK, LockKept, ReadersHaveSockets, NEW t \in Tasks,
         \/ Ping(t) \/ PingAnswered(t) \/ PingFails(t) \/ PingTimeout(t)
         \/ PingCancelled(t) \/ Close(t) \/ Terminate(t) \/ Connect(t)
  PROVE  TypedMove(t)
<1>0. /\ pc[t] \in {"idle", "pinging"}
      /\ pc[t] \notin Establishing \cup {"locking", "closing"}
      /\ pc[t] # "locking"
      /\ pc[t] = "pinging" => on[t] \in Sockets
  <2>1. pc[t] \in {"idle", "pinging"}
    BY DEF Ping, PingAnswered, PingFails, PingTimeout, PingCancelled, Close,
           Terminate, Connect
  <2>2. pc[t] \in ReadingPlaces /\ (pc[t] = "pinging" => pc[t] \in Waits)
    BY <2>1 DEF ReadingPlaces, Waits
  <2> QED BY <2>1, <2>2, ReadingPlacesFacts DEF ReadersHaveSockets
<1>1. CASE Ping(t)
  <2>1. /\ \A u \in Tasks \ {t} : call'[u] = call[u]
        /\ call'[t] # "connect"
        /\ call' \in [Tasks -> AllCalls \cup {"fetch"}]
        /\ UNCHANGED <<socket, executing, query, stream, blocks, queries>>
    BY <1>1 DEF Ping, client, TypeOK, AllCalls
  <2>2. socket \in Sockets
    BY <1>1, SessionAssumption DEF Ping, TypeOK, Sockets
  <2>a. Sending(socket, Message("ping", 0)) \in [Sockets -> Seq(Requests)]
    <3>1. 0 \in 0..MaxQueries BY SessionAssumption
    <3>2. Message("ping", 0) \in Requests BY <3>1, MessageTypes
    <3> QED BY <2>2, <3>2, SendTypes
  <2>3. CASE /\ pc' = [pc EXCEPT ![t] = "pinging"]
             /\ on' = [on EXCEPT ![t] = socket]
             /\ sent' = Sending(socket, Message("ping", 0))
             /\ UNCHANGED <<lock, link, serving, wire>>
    <3>1. sent' \in [Sockets -> Seq(Requests)]
      BY <2>a, <2>3
    <3>2. ServerTypes /\ DataTypes /\ WireTypes
      BY <2>1, <2>2, <2>3, <3>1 DEF ServerTypes, DataTypes, WireTypes, TypeOK
    <3>3. "pinging" \in Outside
      BY ReadingPlacesFacts DEF ReadingPlaces
    <3>4. LockMove(t) /\ pc'[t] = "pinging"
      BY <1>0, <2>1, <2>3, <3>3, GoesBeside
    <3>5. Readers(t)
      BY <2>2, <2>3 DEF Readers, TypeOK
    <3> QED BY <3>2, <3>4, <3>5 DEF TypedMove
  <2>4. CASE /\ wire' = [wire EXCEPT ![socket] = <<>>]
             /\ CloseFirst(t) /\ UNCHANGED on
    <3>1. WireTypes
      <4>1. <<>> \in Seq(Packets) OBVIOUS
      <4> QED BY <2>4, <4>1 DEF WireTypes, TypeOK
    <3>2. DataTypes
      BY <2>1, <2>4 DEF DataTypes, TypeOK
    <3> QED BY <1>0, <2>1, <2>4, <3>1, <3>2, EndStep
  <2>5. CASE /\ sent' = Sending(socket, Message("ping", 0))
             /\ UNCHANGED <<lock, pc, on, link, serving, wire>>
    <3>1. ServerTypes /\ DataTypes /\ WireTypes
      BY <2>1, <2>a, <2>5 DEF ServerTypes, DataTypes, WireTypes, TypeOK
    <3>2. pc'[t] = "idle"
      BY <1>1, <2>5 DEF Ping
    <3>3. LockMove(t) /\ Readers(t)
      BY <2>1, <2>5, <3>2 DEF LockMove, Readers, Establishing, Waits
    <3> QED BY <3>1, <3>3 DEF TypedMove
  <2> QED BY <1>1, <2>3, <2>4, <2>5 DEF Ping
<1>2. CASE PingAnswered(t) \/ PingFails(t) \/ PingTimeout(t) \/ PingCancelled(t)
  <2>1. /\ Leave(t) \/ CloseFirst(t)
        /\ UNCHANGED <<socket, executing, call, on, query, stream, blocks, queries>>
    BY <1>2 DEF PingAnswered, PingFails, PingTimeout, PingCancelled, client
  <2>2. pc[t] = "pinging"
    BY <1>2 DEF PingAnswered, PingFails, PingTimeout, PingCancelled
  <2>3. WireTypes
    BY <1>0, <1>2, <2>2, TakeTypes
       DEF PingAnswered, PingFails, PingTimeout, PingCancelled, Got
  <2>4. DataTypes
    BY <2>1 DEF DataTypes, TypeOK
  <2> QED BY <1>0, <2>1, <2>3, <2>4, EndStep
<1>3. CASE Close(t)
  <2>1. /\ \A u \in Tasks \ {t} : call'[u] = call[u]
        /\ call'[t] # "connect"
        /\ call' \in [Tasks -> AllCalls \cup {"fetch"}]
        /\ UNCHANGED <<socket, executing, query, on, stream, blocks, wire, queries>>
    BY <1>3 DEF Close, client, TypeOK, AllCalls
  <2>2. DataTypes /\ WireTypes
    BY <2>1 DEF DataTypes, WireTypes, TypeOK
  <2> QED BY <1>0, <1>3, <2>1, <2>2, EndStep DEF Close
<1>4. CASE Terminate(t)
  <2>1. /\ UNCHANGED <<pc, lock, call, on, query, stream, blocks, wire, queries>>
        /\ Shut /\ Connected /\ socket' = 0 /\ executing' = FALSE
    BY <1>4 DEF Terminate, Reset, tasks
  <2>2. 0 \in 0..MaxSockets
    BY SessionAssumption
  <2>3. ServerTypes
    BY <2>1, ShutTypes
  <2>4. DataTypes /\ WireTypes
    BY <2>1, <2>2 DEF DataTypes, WireTypes, TypeOK
  <2>5. pc[t] = "idle"
    BY <1>4 DEF Terminate
  <2>6. call[t] = "connect" => "connect" \in Calls /\ holder # t
    BY DEF LockKept
  <2>7. LockMove(t) /\ Readers(t)
    BY <2>1, <2>5, <2>6 DEF LockMove, Readers, Waits, Establishing, lock
  <2> QED BY <2>3, <2>4, <2>7 DEF TypedMove
<1>5. CASE Connect(t)
  <2>1. /\ \A u \in Tasks \ {t} : call'[u] = call[u]
        /\ call'[t] = "connect" /\ "connect" \in Calls
        /\ call' \in [Tasks -> AllCalls \cup {"fetch"}]
        /\ pc' = [pc EXCEPT ![t] = "dialing"] /\ pc'[t] = "dialing"
        /\ UNCHANGED <<socket, executing, holder, waiters, on, query, stream,
                       blocks, link, sent, serving, wire, queries>>
    BY <1>5 DEF Connect, client, lock, server, TypeOK, AllCalls
  <2>2. ServerTypes /\ WireTypes /\ DataTypes
    BY <2>1 DEF ServerTypes, WireTypes, DataTypes, TypeOK
  <2>3. holder # t
    BY <1>0, SessionAssumption DEF LockKept
  <2>4. Dials(t)
    BY <1>0, <2>1, <2>3 DEF Dials, lock
  <2>5. LockMove(t)
    BY <2>1, <2>3, <2>4 DEF LockMove
  <2>6. Readers(t)
    BY <2>1 DEF Readers, Waits
  <2> QED BY <2>2, <2>5, <2>6 DEF TypedMove
<1> QED BY <1>1, <1>2, <1>3, <1>4, <1>5

\* Cancellation, and the end of a close.
LEMMA CancelSteps ==
  ASSUME TypeOK, LockKept, ReadersHaveSockets, NEW t \in Tasks,
         \/ Closed(t) \/ CancelDial(t) \/ CancelRead(t) \/ CancelClose(t)
         \/ CancelWaiter(t)
  PROVE  TypedMove(t)
<1>1. CASE Closed(t) \/ CancelClose(t)
  <2>1. /\ socket' = 0 /\ executing' = FALSE /\ Leave(t) /\ pc[t] # "locking"
        /\ UNCHANGED <<call, on, query, stream, blocks, wire, queries>>
    BY <1>1 DEF Closed, CancelClose, Reset
  <2>2. 0 \in 0..MaxSockets
    BY SessionAssumption
  <2>3. DataTypes /\ WireTypes
    BY <2>1, <2>2 DEF DataTypes, WireTypes, TypeOK
  <2> QED BY <2>1, <2>3, EndStep
<1>2. CASE CancelDial(t) \/ CancelRead(t)
  <2>1. /\ Fail(t) \/ Abort(t)
        /\ UNCHANGED <<socket, executing, call, on, query, blocks, wire, queries>>
        /\ Exhausted(t) \/ UNCHANGED stream
    BY <1>2 DEF CancelDial, CancelRead, client
  <2>2. pc[t] # "locking"
    BY <1>2 DEF CancelDial, CancelRead
  <2>3. DataTypes /\ WireTypes
    BY <2>1, ExhaustedTypes DEF DataTypes, WireTypes, TypeOK
  <2> QED BY <2>1, <2>2, <2>3, EndStep
<1>3. CASE CancelWaiter(t)
  <2>1. UNCHANGED <<socket, executing, call, on, query, stream, blocks, wire,
                    queries>>
    BY <1>3 DEF CancelWaiter, client
  <2>2. DataTypes /\ WireTypes
    BY <2>1 DEF DataTypes, WireTypes, TypeOK
  <2>3. CASE pc[t] = "granted" /\ Abort(t)
    BY <2>1, <2>2, <2>3, EndStep
  <2>4. CASE ~(pc[t] = "granted" /\ Abort(t))
    <3>1. GivesUp(t) /\ pc'[t] \in {"idle", "closing"}
      BY <1>3, <2>4 DEF CancelWaiter, GivesUp, TypeOK
    <3>2. LockMove(t)
      <4>1. call'[t] # "connect"
        BY <2>1, <3>1 DEF GivesUp, LockKept, Queries
      <4> QED BY <2>1, <3>1, <4>1 DEF LockMove, Establishing
    <3>3. ServerTypes
      BY <1>3, <2>4, ShutTypes DEF CancelWaiter, ServerTypes, TypeOK
    <3>4. Readers(t)
      BY <2>1, <3>1 DEF Readers, Waits
    <3> QED BY <2>2, <3>2, <3>3, <3>4 DEF TypedMove
  <2> QED BY <2>3, <2>4
<1> QED BY <1>1, <1>2, <1>3

LEMMA TaskStep ==
  ASSUME TypeOK, LockKept, ReadersHaveSockets, NEW t \in Tasks,
         Advance(t) \/ Disturb(t)
  PROVE  TypedMove(t)
BY EnterSteps, ProbeSteps, DialSteps, ReadSteps, InsertSteps, PlainSteps,
   CancelSteps DEF Advance, Disturb, Interfere

-----------------------------------------------------------------------------
(* The server, and the invariant *)

ServerStep(s) == Serve(s) \/ ServerSendsData(s) \/ LinkLost(s)

LEMMA ReplyTypes ==
  ASSUME TypeOK, NEW s \in Sockets, NEW k \in Kinds, NEW q \in 0..MaxQueries,
         Reply(s, k, q)
  PROVE  WireTypes
<1>1. Append(wire[s], Message(k, q)) \in Seq(Packets)
  <2>1. wire[s] \in Seq(Packets) /\ Message(k, q) \in Packets
    BY MessageTypes DEF TypeOK
  <2> QED BY <2>1
<1> QED BY <1>1 DEF Reply, WireTypes, TypeOK

LEMMA ServerTyped ==
  ASSUME TypeOK, NEW s \in Sockets, ServerStep(s)
  PROVE  ServerTypes /\ WireTypes /\ UNCHANGED client_side
<1>0. /\ 0 \in 0..MaxQueries /\ Nothing \in Requests
      /\ <<>> \in Seq(Requests)
      /\ serving[s] \in Requests /\ serving[s].of \in 0..MaxQueries
      /\ {"hello", "pong", "data", "end", "exception"} \subseteq Kinds
  <2>1. 0 \in 0..MaxQueries
    BY SessionAssumption
  <2>2. serving[s] \in Requests
    BY DEF TypeOK
  <2>3. Nothing \in Requests
    BY <2>1, MessageTypes
  <2>4. serving[s].of \in 0..MaxQueries
    BY <2>2 DEF Requests
  <2>5. <<>> \in Seq(Requests)
    OBVIOUS
  <2> QED BY <2>1, <2>2, <2>3, <2>4, <2>5 DEF Kinds
<1>1. ASSUME sent[s] # <<>>
      PROVE  /\ Head(sent[s]) \in Requests /\ Head(sent[s]).of \in 0..MaxQueries
             /\ Tail(sent[s]) \in Seq(Requests)
  <2>1. sent[s] \in Seq(Requests)
    BY DEF TypeOK
  <2>2. Head(sent[s]) \in Requests /\ Tail(sent[s]) \in Seq(Requests)
    BY <1>1, <2>1, HeadTailProperties
  <2> QED BY <2>2 DEF Requests
<1>2. CASE ServerReads(s)
  <2>1. /\ sent[s] # <<>> /\ sent' = [sent EXCEPT ![s] = Tail(@)]
        /\ UNCHANGED <<client_side, link>>
    BY <1>2 DEF ServerReads
  <2>2. \/ serving' = serving
        \/ serving' = [serving EXCEPT ![s] = Head(sent[s])]
        \/ serving' = [serving EXCEPT ![s] = Nothing]
    BY <1>2 DEF ServerReads
  <2>3. \/ \E k \in Kinds, q \in 0..MaxQueries : Reply(s, k, q)
        \/ UNCHANGED wire
    BY <1>0, <1>1, <1>2, <2>1 DEF ServerReads
  <2>4. ServerTypes
    BY <1>0, <1>1, <2>1, <2>2 DEF ServerTypes, TypeOK
  <2>5. WireTypes
    BY <2>3, ReplyTypes DEF WireTypes, TypeOK
  <2> QED BY <2>1, <2>4, <2>5
<1>3. CASE ServerHangsUp(s)
  <2>1. /\ sent[s] # <<>> /\ sent' = [sent EXCEPT ![s] = <<>>]
        /\ link' = [link EXCEPT ![s] = "lost"]
        /\ serving' = [serving EXCEPT ![s] = Nothing]
        /\ Reply(s, "exception", Head(sent[s]).of)
        /\ UNCHANGED client_side
    BY <1>3 DEF ServerHangsUp
  <2>2. WireTypes
    BY <1>0, <1>1, <2>1, ReplyTypes
  <2>3. ServerTypes
    BY <1>0, <2>1 DEF ServerTypes, TypeOK
  <2> QED BY <2>1, <2>2, <2>3
<1>4. CASE ServerSendsData(s)
  BY <1>0, <1>4, ReplyTypes DEF ServerSendsData, ServerTypes, TypeOK
<1>5. CASE ServerEnds(s)
  <2>1. \E k \in Kinds : Reply(s, k, serving[s].of)
    BY <1>0, <1>5 DEF ServerEnds
  <2>2. WireTypes
    BY <1>0, <2>1, ReplyTypes
  <2> QED BY <1>0, <1>5, <2>2 DEF ServerEnds, ServerTypes, TypeOK
<1>6. CASE LinkLost(s)
  <2>1. WireTypes /\ UNCHANGED client_side
    BY <1>6 DEF LinkLost, WireTypes, TypeOK
  <2>2. ServerTypes
    BY <1>0, <1>6 DEF LinkLost, ServerTypes, TypeOK
  <2> QED BY <2>1, <2>2
<1> QED BY <1>2, <1>3, <1>4, <1>5, <1>6 DEF ServerStep, Serve

\* The part of the invariant that holds for every use of the connection: the
\* types and the discipline of the lock.
Kept == TypeOK /\ LockKept /\ ReadersHaveSockets

LEMMA KeptInit == Init => Kept
<1> SUFFICES ASSUME Init PROVE Kept
  OBVIOUS
<1>1. /\ 0 \in 0..MaxQueries /\ 0 \in 0..MaxSockets
      /\ Nothing \in Requests
  <2>1. 0 \in 0..MaxQueries /\ 0 \in 0..MaxSockets
    BY SessionAssumption
  <2> QED BY <2>1, MessageTypes
<1>2. TypeOK
  <2>1. /\ <<>> \in Seq(Tasks) /\ <<>> \in Seq(Requests) /\ <<>> \in Seq(Packets)
        /\ "idle" \in Places /\ "execute" \in AllCalls
    BY DEF Places, AllCalls
  <2> QED BY <1>1, <2>1 DEF Init, TypeOK
<1>3. /\ DOMAIN waiters = {}
      /\ \A t \in Tasks : pc[t] = "idle"
  BY DEF Init
<1>4. LockKept
  BY <1>3, SessionAssumption DEF Init, LockKept, Inside, Establishing
<1>5. ReadersHaveSockets
  BY <1>3 DEF ReadersHaveSockets, Waits
<1> QED BY <1>2, <1>4, <1>5 DEF Kept

\* A step is one of a task or one of the server, or changes nothing.
LEMMA Steps ==
  ASSUME [Next]_vars
  PROVE  \/ \E t \in Tasks : Advance(t) \/ Disturb(t)
         \/ \E s \in Sockets : ServerStep(s)
         \/ UNCHANGED vars
BY DEF Next, Surroundings, Rest, ServerStep

LEMMA KeptStep == Kept /\ [Next]_vars => Kept'
<1> SUFFICES ASSUME Kept, [Next]_vars PROVE Kept'
  OBVIOUS
<1> USE DEF Kept
<1>1. ASSUME NEW t \in Tasks, Advance(t) \/ Disturb(t)
      PROVE  Kept'
  <2>1. LockMove(t) /\ ServerTypes /\ WireTypes /\ DataTypes /\ Readers(t)
    BY <1>1, TaskStep DEF TypedMove
  <2>2. LockKept'
    BY <2>1, LockStep
  <2>3. TypeOK'
    BY <2>1, LockTypesStep
       DEF TypeOK, LockTypes, ServerTypes, WireTypes, DataTypes
  <2>4. ReadersHaveSockets'
    <3>1. OthersWait(t)
      BY <2>1, LockMoves DEF LockMove
    <3>2. ASSUME NEW u \in Tasks \ {t}, pc'[u] \in Waits
          PROVE  on'[u] \in Sockets
      BY <2>1, <3>1, <3>2 DEF OthersWait, Waits, Readers, ReadersHaveSockets
    <3> QED BY <2>1, <3>2 DEF Readers, ReadersHaveSockets
  <2> QED BY <2>2, <2>3, <2>4
<1>2. ASSUME NEW s \in Sockets, ServerStep(s)
      PROVE  Kept'
  <2>1. /\ ServerTypes /\ WireTypes
        /\ UNCHANGED <<socket, executing, holder, waiters, pc, call, on, query,
                       stream, blocks, queries>>
    BY <1>2, ServerTyped DEF client_side, client, lock, tasks
  <2> QED BY <2>1 DEF TypeOK, LockKept, Inside, ReadersHaveSockets, ServerTypes, WireTypes
<1>3. CASE UNCHANGED vars
  BY <1>3 DEF vars, TypeOK, LockKept, Inside, ReadersHaveSockets
<1> QED BY <1>1, <1>2, <1>3, Steps

LEMMA KeptCorrect == Spec => []Kept
BY KeptInit, KeptStep, PTL DEF Spec

\* Every variable keeps its type, whatever the calls and the faults.
THEOREM SessionTypeCorrect == Spec => []TypeOK
<1>1. Kept => TypeOK
  BY DEF Kept
<1> QED BY <1>1, KeptCorrect, PTL

\* Whatever the calls and the faults: at most one task at a time is between the
\* check of is_query_executing in force_connect and the moment Proceed sets the
\* flag, and it holds the lock; nobody else does, but a task that closes the
\* connection inside the lock (asynch/proto/connection.py, force_connect).
THEOREM OneConnectsCorrect == Spec => []OneConnects
<1>1. Kept => OneConnects
  <2> SUFFICES ASSUME Kept PROVE OneConnects
    OBVIOUS
  <2>1. ASSUME NEW t \in Tasks, Connecting(t)
        PROVE  holder = t /\ (executing => pc[t] = "granted")
    BY <2>1 DEF Kept, LockKept, Inside, Connecting, Establishing, Queries
  <2>2. ASSUME holder # NoTask
        PROVE  Connecting(holder) \/ pc[holder] = "closing"
    BY <2>2 DEF Kept, TypeOK, LockKept, Inside, Connecting, Establishing
  <2> QED BY <2>1, <2>2 DEF OneConnects
<1> QED BY <1>1, KeptCorrect, PTL

-----------------------------------------------------------------------------
(* What a step does to the sockets *)

\* Nothing, a close, the end of a close, an abort of the transport, or a dial.
SocketMove(t) ==
  \/ /\ UNCHANGED <<socket, link>>
     /\ pc'[t] \notin {"closing", "reopening"}
     /\ pc'[t] = "dialing" => socket = 0
  \/ Connected /\ Shut /\ UNCHANGED socket /\ pc'[t] # "dialing"
  \/ /\ socket' = 0 /\ UNCHANGED link
     /\ pc[t] \in {"closing", "reopening"}
     /\ pc'[t] \notin {"closing", "reopening"}
  \/ Connected /\ Shut /\ socket' = 0 /\ UNCHANGED pc /\ pc[t] = "idle"
  \/ Dialed(t)

LEMMA EndSockets ==
  ASSUME TypeOK, LockKept, NEW t \in Tasks, pc[t] # "locking",
         Leave(t) \/ Abort(t) \/ Fail(t) \/ CloseFirst(t), UNCHANGED socket
  PROVE  SocketMove(t)
<1>1. pc'[t] \in {"idle", "closing"}
  BY EndMoves
<1>2. CASE Leave(t)
  <2>1. pc'[t] = "idle"
    BY <1>2, SettleFacts DEF Leave, Places
  <2> QED BY <1>2, <2>1 DEF Leave, SocketMove
<1>3. CASE Connected /\ Shut
  BY <1>1, <1>3 DEF SocketMove
<1> QED BY <1>2, <1>3 DEF Abort, Fail, CloseFirst

LEMMA RedialSockets ==
  ASSUME TypeOK, NEW t \in Tasks, Redial(t), UNCHANGED socket
  PROVE  SocketMove(t)
<1>1. CASE Connected
  BY <1>1 DEF Redial, SocketMove, TypeOK
<1>2. CASE ~Connected
  BY <1>2 DEF Redial, SocketMove, TypeOK, Connected
<1> QED BY <1>1, <1>2

LEMMA ProceedSockets ==
  ASSUME TypeOK, LockKept, NEW t \in Tasks, Inside(t), Proceed(t),
         UNCHANGED socket
  PROVE  SocketMove(t)
<1>0. pc[t] # "locking" /\ call[t] \in Queries
  BY DEF Establishing, Inside, LockKept
<1>1. CASE \E place \in {"reading", "sampling", "idle"} :
             Settle(t, place) /\ UNCHANGED link
  <2>1. pc'[t] \in {"reading", "sampling", "idle"}
    BY <1>0, <1>1, SettleFacts DEF Places, Waits
  <2> QED BY <1>1, <2>1 DEF SocketMove
<1>2. CASE Abort(t)
  BY <1>0, <1>2, EndSockets
<1> QED BY <1>0, <1>1, <1>2 DEF Proceed, Queries

LEMMA SocketMoves ==
  ASSUME Kept, NEW t \in Tasks, Advance(t) \/ Disturb(t)
  PROVE  SocketMove(t)
<1>0. TypeOK /\ LockKept
  BY DEF Kept
<1>1. ASSUME pc[t] # "locking",
             Leave(t) \/ Abort(t) \/ Fail(t) \/ CloseFirst(t), UNCHANGED socket
      PROVE  SocketMove(t)
  BY <1>0, <1>1, EndSockets
<1>2. ASSUME NEW place \in Places \ {"closing", "reopening", "dialing"},
             pc' = [pc EXCEPT ![t] = place], UNCHANGED <<socket, link>>
      PROVE  SocketMove(t)
  BY <1>0, <1>2 DEF SocketMove, TypeOK
<1>p. {"locking", "probing", "reading", "yielding", "draining", "pinging"}
        \subseteq Places \ {"closing", "reopening", "dialing"}
  BY DEF Places, Waits
<1>3. CASE QueueForLock(t)
  BY <1>2, <1>3, <1>p DEF QueueForLock, client
<1>4. CASE Reject(t) \/ ProbeContended(t)
  BY <1>0, <1>1, <1>4, EntersFacts DEF Reject, ProbeContended, client
<1>5. CASE Dial(t) \/ ProbeBroken(t) \/ ProbeLost(t)
  BY <1>0, <1>5, RedialSockets DEF Dial, ProbeBroken, ProbeLost, client
<1>6. CASE Probe(t)
  BY <1>2, <1>6, <1>p DEF Probe, client
<1>7. CASE ProbeAnswered(t)
  BY <1>0, <1>7, ProceedSockets, InsideFacts DEF ProbeAnswered
<1>8. CASE \/ ProbeFails(t) \/ DialFails(t) \/ GreetFails(t) \/ GreetLost(t)
           \/ ReadEnd(t) \/ ReadFails(t) \/ SampleFails(t) \/ Drained(t)
           \/ DrainFails(t)
  <2>1. pc[t] \in {"probing", "dialing", "greeting", "reading", "sampling",
                   "draining"}
    BY <1>8 DEF ProbeFails, DialFails, GreetFails, GreetLost, ReadEnd, ReadFails,
                SampleFails, Drained, DrainFails
  <2>2. UNCHANGED socket
    BY <1>8 DEF ProbeFails, DialFails, GreetFails, GreetLost, ReadEnd, ReadFails,
                SampleFails, Drained, DrainFails, client
  <2>3. Leave(t) \/ Abort(t) \/ Fail(t) \/ CloseFirst(t)
    BY <1>8 DEF ProbeFails, DialFails, GreetFails, GreetLost, ReadEnd, ReadFails,
                SampleFails, Drained, DrainFails
  <2> QED BY <1>1, <2>1, <2>2, <2>3
<1>9. CASE Dialed(t)
  BY <1>9 DEF SocketMove
<1>10. CASE Greeted(t)
  <2>1. UNCHANGED socket /\ pc[t] = "greeting"
    BY <1>10 DEF Greeted
  <2>2. CASE call[t] = "connect"
    BY <1>1, <1>10, <2>1, <2>2 DEF Greeted
  <2>3. CASE call[t] # "connect"
    <3>1. Inside(t)
      BY <1>0, <2>1, <2>3, InsideFacts
    <3> QED BY <1>0, <1>10, <2>1, <2>3, <3>1, ProceedSockets DEF Greeted
  <2> QED BY <2>2, <2>3
<1>11. CASE Reopened(t)
  BY <1>0, <1>11 DEF Reopened, Reset, SocketMove, TypeOK
<1>12. CASE Closed(t) \/ CancelClose(t)
  <2>1. /\ socket' = 0 /\ pc[t] \in {"closing", "reopening"} /\ Leave(t)
    BY <1>12 DEF Closed, CancelClose, Reset
  <2>2. pc'[t] = "idle"
    BY <1>0, <2>1, SettleFacts DEF Leave, Places
  <2> QED BY <2>1, <2>2 DEF Leave, SocketMove
<1>13. CASE Fetch(t) \/ Resume(t) \/ Sampled(t) \/ Ping(t)
  <2>1. /\ UNCHANGED socket
        /\ pc[t] \in {"idle", "yielding", "sampling"}
    BY <1>13 DEF Fetch, Resume, Sampled, Ping, client
  <2>2. \/ Leave(t) \/ Abort(t) \/ CloseFirst(t)
        \/ \E place \in {"reading", "draining", "pinging"} :
             pc' = [pc EXCEPT ![t] = place] /\ UNCHANGED link
        \/ UNCHANGED <<pc, link>>
    BY <1>13 DEF Fetch, Resume, Sampled, Ping, ReadOn, CannotRead
  <2>3. CASE UNCHANGED <<pc, link>>
    BY <2>1, <2>3 DEF SocketMove
  <2> QED BY <1>1, <1>2, <1>p, <2>1, <2>2, <2>3
<1>14. CASE ReadData(t)
  BY <1>2, <1>14, <1>p DEF ReadData, client
<1>15. CASE \/ PingAnswered(t) \/ PingFails(t) \/ PingTimeout(t)
            \/ PingCancelled(t) \/ Close(t)
  BY <1>1, <1>15 DEF PingAnswered, PingFails, PingTimeout, PingCancelled, Close,
                     client
<1>16. CASE Terminate(t)
  BY <1>16 DEF Terminate, Reset, SocketMove, tasks
<1>17. CASE CancelDial(t) \/ CancelRead(t)
  BY <1>1, <1>17 DEF CancelDial, CancelRead, client
<1>18. CASE CancelWaiter(t)
  <2>1. CASE pc[t] = "granted" /\ Abort(t)
    BY <1>1, <1>18, <2>1 DEF CancelWaiter, client
  <2>2. CASE ~(pc[t] = "granted" /\ Abort(t))
    BY <1>0, <1>18, <2>2 DEF CancelWaiter, client, SocketMove, TypeOK
  <2> QED BY <2>1, <2>2
<1>19. CASE Connect(t)
  <2>1. pc'[t] = "dialing" /\ socket = 0 /\ UNCHANGED <<socket, link>>
    BY <1>0, <1>19 DEF Connect, Connected, client, TypeOK
  <2> QED BY <2>1 DEF SocketMove
<1> QED BY <1>3, <1>4, <1>5, <1>6, <1>7, <1>8, <1>9, <1>10, <1>11, <1>12, <1>13,
           <1>14, <1>15, <1>16, <1>17, <1>18, <1>19 DEF Advance, Disturb, Interfere

\* A socket is up only while it is the current one, if dials do not overlap.
LEMMA LeakStep ==
  Kept /\ OneDials /\ ClosersHaveShut /\ NoSocketLeak /\ [Next]_vars
    => ClosersHaveShut' /\ NoSocketLeak'
<1> SUFFICES ASSUME Kept, OneDials, ClosersHaveShut, NoSocketLeak, [Next]_vars
             PROVE  ClosersHaveShut' /\ NoSocketLeak'
  OBVIOUS
<1>0. TypeOK /\ LockKept /\ ReadersHaveSockets /\ 0 \notin Sockets
  BY DEF Kept, Sockets
<1>1. ASSUME NEW t \in Tasks, Advance(t) \/ Disturb(t)
      PROVE  ClosersHaveShut' /\ NoSocketLeak'
  <2>1. SocketMove(t) /\ OthersWait(t)
    BY <1>0, <1>1, SocketMoves, TaskStep, LockMoves DEF LockMove, TypedMove
  <2>2. ASSUME NEW u \in Tasks \ {t},
               pc'[u] \in {"closing", "reopening", "dialing"}
        PROVE  pc[u] = pc'[u]
    BY <2>1, <2>2 DEF OthersWait
  <2>3. CASE UNCHANGED <<socket, link>> /\ pc'[t] \notin {"closing", "reopening"}
             /\ (pc'[t] = "dialing" => socket = 0)
    BY <2>2, <2>3 DEF ClosersHaveShut, NoSocketLeak
  <2>4. CASE Connected /\ Shut /\ UNCHANGED socket /\ pc'[t] # "dialing"
    <3>1. link'[socket] = "shut" /\ \A s \in Sockets \ {socket} : link'[s] = link[s]
      BY <1>0, <2>4 DEF Shut, TypeOK, Connected, Sockets
    <3>2. \A u \in Tasks : pc'[u] # "dialing"
      BY <2>2, <2>4 DEF ClosersHaveShut, Connected
    <3> QED BY <2>4, <3>1, <3>2 DEF ClosersHaveShut, NoSocketLeak
  <2>5. CASE /\ socket' = 0 /\ UNCHANGED link
             /\ pc[t] \in {"closing", "reopening"}
    BY <2>5 DEF ClosersHaveShut, NoSocketLeak
  <2>6. CASE Connected /\ Shut /\ socket' = 0
    <3>1. link'[socket] = "shut" /\ \A s \in Sockets \ {socket} : link'[s] = link[s]
      BY <1>0, <2>6 DEF Shut, TypeOK, Connected, Sockets
    <3> QED BY <2>6, <3>1 DEF ClosersHaveShut, NoSocketLeak
  <2>7. CASE Dialed(t)
    <3>1. socket = 0 /\ pc[t] = "dialing" /\ pc' = [pc EXCEPT ![t] = "greeting"]
          /\ Quiet(t)
      BY <2>7 DEF Dialed, ClosersHaveShut
    <3>2. \A u \in Tasks : pc'[u] \notin {"closing", "reopening", "dialing"}
      BY <1>0, <2>2, <3>1 DEF Quiet, OneDials, TypeOK
    <3>3. PICK s \in Sockets : link' = [link EXCEPT ![s] = "up"] /\ socket' = s
      BY <2>7 DEF Dialed
    <3>4. \A r \in Sockets : link[r] \notin {"up", "lost"}
      BY <1>0, <3>1 DEF NoSocketLeak
    <3> QED BY <1>0, <3>2, <3>3, <3>4 DEF ClosersHaveShut, NoSocketLeak, TypeOK
  <2> QED BY <2>1, <2>3, <2>4, <2>5, <2>6, <2>7 DEF SocketMove
<1>2. ASSUME NEW s \in Sockets, ServerStep(s)
      PROVE  ClosersHaveShut' /\ NoSocketLeak'
  <2>1. UNCHANGED <<socket, pc>>
    BY <1>0, <1>2, ServerTyped DEF client_side, client, tasks
  <2>2. link' = link \/ (link[s] = "up" /\ link' = [link EXCEPT ![s] = "lost"])
    BY <1>2 DEF ServerStep, Serve, ServerReads, ServerHangsUp, ServerSendsData,
                ServerEnds, LinkLost
  <2>3. CASE link' = link
    BY <2>1, <2>3 DEF ClosersHaveShut, NoSocketLeak
  <2>4. CASE link[s] = "up" /\ link' = [link EXCEPT ![s] = "lost"]
    <3>1. socket = s
      BY <2>4 DEF NoSocketLeak
    <3>2. \A t \in Tasks : pc[t] \notin {"closing", "reopening", "dialing"}
      BY <1>0, <2>4, <3>1 DEF ClosersHaveShut
    <3> QED BY <1>0, <2>1, <2>4, <3>1, <3>2 DEF ClosersHaveShut, NoSocketLeak, TypeOK
  <2> QED BY <2>2, <2>3, <2>4
<1>3. CASE UNCHANGED vars
  BY <1>3 DEF vars, ClosersHaveShut, NoSocketLeak
<1> QED BY <1>1, <1>2, <1>3, Steps

LEMMA LeakInit == Init => ClosersHaveShut /\ NoSocketLeak
BY DEF Init, ClosersHaveShut, NoSocketLeak

LEMMA SocketsCorrect ==
  SerialSpec => [](ClosersHaveShut /\ NoSocketLeak)
<1>1. Init => OneDials
  BY DEF Init, OneDials
<1>2. OneDials /\ [SerialNext]_vars => OneDials' /\ [Next]_vars
  BY DEF SerialNext, OneDials, vars
<1> QED BY <1>1, <1>2, LeakInit, LeakStep, KeptInit, KeptStep, PTL DEF SerialSpec

\* Whatever calls the tasks make, connect() among them, and whatever fails, while
\* no two of them are in open_connection() at a time: reconnecting never forgets an
\* open socket (connect() and disconnect() in asynch/proto/connection.py).
THEOREM NoSocketLeakCorrect == SerialSpec => []NoSocketLeak
BY SocketsCorrect, PTL

\* Leaving out the calls of connect() leaves behaviours of Spec: what is proved of Spec
\* holds in the runs of LockedSpec.
LEMMA LockedIsSpec == LockedSpec => Spec
<1>1. [LockedNext]_vars => [Next]_vars
  BY DEF LockedNext, Next, Disturb
<1> QED BY <1>1, PTL DEF LockedSpec, Spec

\* The lock of force_connect is what keeps dials apart: where nobody calls
\* connect(), every behaviour is one of SerialSpec.
LEMMA LockSerialises ==
  ASSUME "connect" \notin Calls
  PROVE  Kept => OneDials
<1> SUFFICES ASSUME Kept, NEW t \in Tasks, NEW u \in Tasks,
                    pc[t] = "dialing", pc[u] = "dialing"
             PROVE  t = u
  BY DEF OneDials
<1>1. holder = t /\ holder = u
  BY InsideFacts DEF Kept, Establishing
<1> QED BY <1>1

THEOREM LockSerialisesDials ==
  ASSUME "connect" \notin Calls
  PROVE  Spec => SerialSpec
<1>1. [Next]_vars /\ OneDials' => [SerialNext]_vars
  BY DEF SerialNext
<1> QED BY <1>1, LockSerialises, KeptCorrect, PTL DEF Spec, SerialSpec

-----------------------------------------------------------------------------
(* One user of the socket                                                     *)
(*                                                                            *)
(* From here on every call goes through force_connect and no task is cancelled *)
(* while it waits for the lock: the calls of asynch/connection.py that take no *)
(* lock, and that cancellation, do break what follows (see the runs wedged,    *)
(* stale_stream and waiter).                                                   *)
Serialised == Calls \subseteq Queries /\ "cancel_waiter" \notin Faults

LEMMA SerialInside ==
  ASSUME Serialised, LockKept, NEW t \in Tasks, pc[t] \in Establishing
  PROVE  /\ holder = t /\ call[t] # "connect"
         /\ call[t] \in Queries /\ query[t] # 0
         /\ executing => pc[t] = "granted"
<1>1. "connect" \notin Calls
  BY DEF Serialised, Queries
<1> QED BY <1>1, InsideFacts

\* Owns(t)'.
OwnsNext(t) ==
  pc'[t] \in {"reading", "yielding", "sampling", "draining"} \/ stream'[t] # 0

Usable == socket # 0 /\ link[socket] # "shut"

\* Nobody else has to do with the socket.
Alone(t) == Owns(t) \/ (~executing /\ holder \in {t, NoTask})

\* t goes on with what it does.
Goes(t) ==
  /\ UNCHANGED <<socket, link>>
  /\ executing' <=> executing
  /\ pc[t] # "closing"
  /\ OwnsNext(t) <=> Owns(t)
  /\ pc'[t] \in Waits => Usable /\ on'[t] = socket

\* t closes the socket.
Cuts(t) ==
  /\ Connected /\ Shut /\ UNCHANGED socket
  /\ Alone(t)
  /\ ~OwnsNext(t)
  /\ pc'[t] \in {"closing", "reopening"}
  /\ executing' => pc'[t] = "closing"

\* The close is over.
Resets(t) ==
  /\ socket' = 0 /\ ~executing' /\ UNCHANGED link
  /\ pc[t] \in {"closing", "reopening"}
  /\ ~OwnsNext(t)
  /\ pc'[t] \notin Waits

\* The statement of t begins.
Starts(t) ==
  /\ UNCHANGED <<socket, link>>
  /\ ~executing /\ executing'
  /\ holder = t
  /\ OwnsNext(t)
  /\ Usable
  /\ pc'[t] \in Waits => on'[t] = socket
  /\ pc'[t] \notin {"greeting", "probing"}

\* The statement of t is over.
Ends(t) ==
  /\ UNCHANGED <<socket, link>>
  /\ ~executing'
  /\ Owns(t) /\ ~OwnsNext(t)
  /\ pc'[t] = "idle"

FetchNext(t) ==
  /\ pc'[t] \in {"reading", "yielding"} =>
       /\ call'[t] = "fetch" <=> stream'[t] # 0
       /\ stream'[t] # 0 => query'[t] = stream'[t]
  /\ pc'[t] \in {"sampling", "draining"} => stream'[t] = 0

UserMove(t) ==
  /\ \A u \in Tasks \ {t} : stream'[u] = stream[u]
  /\ pc'[t] # "pinging"
  /\ FetchNext(t)
  /\ Goes(t) \/ Cuts(t) \/ Resets(t) \/ Starts(t) \/ Ends(t) \/ Dialed(t)

Users == ClosersHaveShut /\ NoSocketLeak /\ OneUser /\ FetchesMatch

LEMMA UserStep ==
  ASSUME Serialised, Kept, Users, NEW t \in Tasks, UserMove(t), OthersWait(t),
         Readers(t),
         \A u \in Tasks \ {t} : call'[u] = call[u] /\ query'[u] = query[u]
  PROVE  OneUser' /\ FetchesMatch'
<1>0. TypeOK /\ LockKept /\ OneUser /\ FetchesMatch /\ ClosersHaveShut
      /\ NoTask \notin Tasks /\ 0 \notin Sockets
  BY SessionAssumption DEF Kept, Users, Sockets
<1>1. ASSUME NEW u \in Tasks \ {t}
      PROVE  /\ OwnsNext(u) <=> Owns(u)
             /\ on'[u] = on[u] /\ stream'[u] = stream[u]
             /\ pc'[u] \in Waits \cup {"closing", "yielding"} => pc'[u] = pc[u]
             /\ pc[u] \in Waits \cup {"closing", "yielding"} => pc'[u] = pc[u]
  BY DEF OthersWait, Readers, UserMove, OwnsNext, Owns, Waits
<1>2. FetchesMatch'
  <2>1. \A u \in Tasks : FetchNext(u)
    <3>1. ASSUME NEW u \in Tasks \ {t} PROVE FetchNext(u)
      BY <1>0, <1>1 DEF FetchesMatch, FetchNext, Waits
    <3> QED BY <3>1 DEF UserMove
  <2> QED BY <2>1 DEF FetchesMatch, FetchNext
<1>3. ASSUME
        /\ \A u \in Tasks : OwnsNext(u) => executing'
        /\ \A u \in Tasks : OwnsNext(u) \/ pc'[u] \in {"greeting", "probing"} =>
             /\ socket' # 0 /\ link'[socket'] # "shut"
             /\ pc'[u] \in Waits => on'[u] = socket'
        /\ \A u, v \in Tasks : OwnsNext(u) /\ OwnsNext(v) => u = v
        /\ executing' => socket' # 0 /\
             \E u \in Tasks : OwnsNext(u) \/ pc'[u] = "closing"
      PROVE  OneUser'
  <2>1. \A u \in Tasks : pc'[u] # "pinging"
    BY <1>0, <1>1 DEF UserMove, OneUser, Waits
  <2> QED BY <1>3, <2>1 DEF OneUser, Owns, OwnsNext
\* Whoever is alone is.
<1>4. ASSUME Alone(t), NEW u \in Tasks \ {t}
      PROVE  ~Owns(u) /\ ~OwnsNext(u) /\ pc[u] \notin {"greeting", "probing"}
             /\ pc'[u] \notin {"greeting", "probing"}
  <2>1. ~Owns(u)
    BY <1>0, <1>4 DEF Alone, OneUser
  <2>2. pc[u] \notin {"greeting", "probing"}
    BY <1>0, <1>4, SerialInside DEF Alone, OneUser, Establishing
  <2>3. pc'[u] \notin {"greeting", "probing"}
    BY <1>1, <2>2 DEF Waits
  <2> QED BY <1>1, <2>1, <2>2, <2>3
<1>5. CASE Goes(t)
  <2>1. \A u \in Tasks : OwnsNext(u) <=> Owns(u)
    BY <1>1, <1>5 DEF Goes
  <2>2. ASSUME NEW u \in Tasks, OwnsNext(u) \/ pc'[u] \in {"greeting", "probing"}
        PROVE  /\ socket' # 0 /\ link'[socket'] # "shut"
               /\ pc'[u] \in Waits => on'[u] = socket'
    BY <1>0, <1>1, <1>5, <2>1, <2>2 DEF Goes, Usable, OneUser, Waits
  <2>3. executing' => socket' # 0 /\
             \E u \in Tasks : OwnsNext(u) \/ pc'[u] = "closing"
    BY <1>0, <1>1, <1>5, <2>1 DEF Goes, OneUser
  <2>4. /\ \A u \in Tasks : OwnsNext(u) => executing'
        /\ \A u, v \in Tasks : OwnsNext(u) /\ OwnsNext(v) => u = v
    BY <1>0, <1>5, <2>1 DEF Goes, OneUser
  <2> QED BY <1>2, <1>3, <2>2, <2>3, <2>4
<1>6. CASE Cuts(t)
  <2>1. \A u \in Tasks : ~OwnsNext(u) /\ pc'[u] \notin {"greeting", "probing"}
    BY <1>4, <1>6 DEF Cuts
  <2>2. executing' => socket' # 0 /\ pc'[t] = "closing"
    BY <1>6 DEF Cuts, Connected
  <2> QED BY <1>2, <1>3, <2>1, <2>2
<1>7. CASE Resets(t)
  <2>1. ~Usable
    BY <1>0, <1>7 DEF Resets, ClosersHaveShut, Usable
  <2>2. \A u \in Tasks \ {t} : ~OwnsNext(u) /\ pc'[u] \notin {"greeting", "probing"}
    BY <1>0, <1>1, <2>1 DEF OneUser, Usable, Waits
  <2>3. \A u \in Tasks : ~OwnsNext(u) /\ pc'[u] \notin {"greeting", "probing"}
    BY <1>7, <2>2 DEF Resets, Waits
  <2> QED BY <1>2, <1>3, <1>7, <2>3 DEF Resets
<1>8. CASE Starts(t)
  <2>1. \A u \in Tasks \ {t} : ~OwnsNext(u) /\ pc'[u] \notin {"greeting", "probing"}
    BY <1>4, <1>8 DEF Starts, Alone
  <2> QED BY <1>2, <1>3, <1>8, <2>1 DEF Starts, Usable
<1>9. CASE Ends(t)
  <2>1. \A u \in Tasks : ~OwnsNext(u) /\ pc'[u] \notin {"greeting", "probing"}
    BY <1>4, <1>9 DEF Ends, Alone
  <2> QED BY <1>2, <1>3, <1>9, <2>1 DEF Ends
<1>10. CASE Dialed(t)
  <2>1. /\ pc[t] = "dialing" /\ holder = t /\ ~executing
        /\ ~executing'
        /\ pc' = [pc EXCEPT ![t] = "greeting"] /\ stream' = stream
    BY <1>0, <1>10, SerialInside DEF Dialed, Establishing
  <2>2. PICK s \in Sockets : /\ link' = [link EXCEPT ![s] = "up"] /\ socket' = s
                             /\ on' = [on EXCEPT ![t] = s]
    BY <1>10 DEF Dialed
  <2>3. socket' # 0 /\ link'[socket'] = "up" /\ on'[t] = socket'
        /\ pc'[t] = "greeting"
    BY <1>0, <2>1, <2>2 DEF TypeOK
  <2>4. ~Owns(t) /\ ~OwnsNext(t)
    BY <1>0, <2>1, <2>3 DEF OneUser, OwnsNext, Owns
  <2>5. \A u \in Tasks \ {t} : ~OwnsNext(u) /\ pc'[u] \notin {"greeting", "probing"}
    BY <1>4, <2>1 DEF Alone
  <2>6. \A u \in Tasks : ~OwnsNext(u) /\ (pc'[u] \in {"greeting", "probing"} => u = t)
    BY <2>4, <2>5
  <2>7. OneUser'
    BY <1>3, <2>1, <2>3, <2>6
  <2> QED BY <1>2, <2>7
<1> QED BY <1>5, <1>6, <1>7, <1>8, <1>9, <1>10 DEF UserMove

\* Whoever is alone reads alone.
LEMMA NotContended ==
  ASSUME Serialised, Kept, Users, NEW t \in Tasks, Alone(t), NEW s
  PROVE  ~Contended(s, t)
<1> SUFFICES ASSUME NEW u \in Tasks \ {t}, pc[u] \in Waits PROVE FALSE
  BY DEF Contended
<1>1. ~Owns(u)
  BY DEF Alone, Users, OneUser
<1>2. pc[u] \in {"greeting", "probing"}
  BY <1>1 DEF Waits, Owns, Users, OneUser
<1>3. holder = u /\ ~executing
  BY <1>2, SerialInside DEF Kept, Establishing
<1> QED BY <1>3, SessionAssumption DEF Alone, Users, OneUser

LEMMA AbortUser ==
  ASSUME Kept, Users, NEW t \in Tasks, Alone(t), pc[t] \notin {"locking", "closing"},
         Abort(t) \/ CloseFirst(t), UNCHANGED socket, stream'[t] = 0,
         \A u \in Tasks \ {t} : stream'[u] = stream[u],
         executing' => executing \/ Connected
  PROVE  UserMove(t)
<1>0. TypeOK /\ LockKept /\ pc'[t] \in {"idle", "closing"}
  BY EndMoves DEF Kept
<1>1. ~OwnsNext(t) /\ FetchNext(t) /\ pc'[t] # "pinging"
  BY <1>0 DEF OwnsNext, FetchNext
<1>2. CASE Connected
  <2>1. Shut /\ pc'[t] = "closing"
    <3>1. CASE Abort(t)
      <4>1. "closing" \in Places BY DEF Places
      <4> QED BY <1>0, <1>2, <3>1, <4>1, SettleFacts DEF Abort
    <3>2. CASE CloseFirst(t)
      BY <1>0, <1>2, <3>2 DEF CloseFirst, TypeOK
    <3> QED BY <3>1, <3>2
  <2> QED BY <1>1, <1>2, <2>1 DEF UserMove, Cuts
<1>3. CASE ~Connected
  <2>1. Leave(t)
    BY <1>3 DEF Abort, CloseFirst
  <2>2. ~Owns(t) /\ ~executing
    BY <1>3 DEF Users, OneUser, Connected, Alone
  <2>3. UNCHANGED link /\ (executing' <=> executing)
    BY <1>3, <2>1, <2>2 DEF Leave
  <2> QED BY <1>0, <1>1, <2>2, <2>3 DEF UserMove, Goes, Waits
<1> QED BY <1>2, <1>3

LEMMA LeaveUser ==
  ASSUME Kept, Users, NEW t \in Tasks, Alone(t), pc[t] \notin {"locking", "closing"},
         Leave(t), UNCHANGED socket, stream'[t] = 0,
         \A u \in Tasks \ {t} : stream'[u] = stream[u],
         executing' = FALSE
  PROVE  UserMove(t)
<1>0. pc'[t] = "idle"
  BY SettleFacts DEF Kept, Leave, Places
<1>1. ~OwnsNext(t) /\ FetchNext(t) /\ pc'[t] # "pinging"
  BY <1>0 DEF OwnsNext, FetchNext
<1>2. CASE Owns(t)
  BY <1>0, <1>1, <1>2 DEF Ends, Leave, UserMove
<1>3. CASE ~Owns(t)
  <2>1. executing' = executing
    BY <1>3 DEF Alone, Kept, TypeOK
  <2> QED BY <1>0, <1>1, <1>3, <2>1 DEF Goes, Leave, UserMove, Waits
<1> QED BY <1>2, <1>3

LEMMA RedialUser ==
  ASSUME Kept, Users, NEW t \in Tasks, ~executing, holder \in {t, NoTask},
         pc[t] # "closing", Redial(t), UNCHANGED <<socket, executing, stream>>
  PROVE  UserMove(t)
<1>1. ~Owns(t) /\ Alone(t)
  BY DEF Users, OneUser, Alone
<1>2. pc'[t] \in {"reopening", "dialing"} /\ (Connected => pc'[t] = "reopening")
  BY DEF Redial, Kept, TypeOK
<1>3. ~OwnsNext(t) /\ FetchNext(t) /\ pc'[t] # "pinging"
  BY <1>1, <1>2 DEF OwnsNext, FetchNext, Owns
<1>4. CASE Connected
  BY <1>1, <1>2, <1>3, <1>4 DEF Redial, Cuts, UserMove
<1>5. CASE ~Connected
  BY <1>1, <1>2, <1>3, <1>5 DEF Redial, Goes, UserMove, Waits
<1> QED BY <1>4, <1>5

LEMMA ProceedUser ==
  ASSUME Serialised, Kept, Users, NEW t \in Tasks,
         pc[t] \in {"probing", "greeting"}, Proceed(t), UNCHANGED <<socket, call, query>>
  PROVE  UserMove(t)
<1>0. /\ TypeOK /\ LockKept /\ holder = t /\ ~executing
      /\ call[t] \in Queries /\ query[t] # 0 /\ pc[t] # "locking"
  BY SerialInside DEF Kept, Establishing
<1>1. ~Owns(t) /\ Alone(t) /\ stream[t] = 0 /\ Usable
  BY <1>0 DEF Users, OneUser, Alone, Owns, Usable
<1>2. CASE Abort(t) /\ UNCHANGED stream
  BY <1>0, <1>1, <1>2, AbortUser DEF Usable, Connected
<1>3. CASE \E place \in {"idle", "reading", "sampling"} :
             /\ Settle(t, place) /\ on' = [on EXCEPT ![t] = socket]
             /\ UNCHANGED link
             /\ place = "idle" <=> call[t] = "iterate"
             /\ stream' = IF call[t] = "iterate" THEN [stream EXCEPT ![t] = query[t]]
                                                 ELSE stream
  <2>1. PICK place \in {"idle", "reading", "sampling"} :
             /\ Settle(t, place) /\ on' = [on EXCEPT ![t] = socket]
             /\ UNCHANGED link
             /\ place = "idle" <=> call[t] = "iterate"
             /\ stream' = IF call[t] = "iterate" THEN [stream EXCEPT ![t] = query[t]]
                                                 ELSE stream
    BY <1>3
  <2>2. pc'[t] = place
    BY <1>0, <2>1, SettleFacts DEF Places, Waits
  <2>3. executing' /\ on'[t] = socket
    BY <1>0, <2>1 DEF Proceed, TypeOK
  <2>4. /\ stream'[t] = IF call[t] = "iterate" THEN query[t] ELSE 0
        /\ \A u \in Tasks \ {t} : stream'[u] = stream[u]
    BY <1>0, <1>1, <2>1 DEF TypeOK
  <2>5. OwnsNext(t)
    BY <1>0, <2>1, <2>2, <2>4 DEF OwnsNext
  <2>6. FetchNext(t)
    BY <1>0, <2>1, <2>2, <2>4 DEF FetchNext, Queries
  <2>7. Starts(t)
    BY <1>0, <1>1, <2>1, <2>2, <2>3, <2>5 DEF Starts
  <2> QED BY <2>1, <2>2, <2>4, <2>6, <2>7 DEF UserMove
<1> QED BY <1>0, <1>2, <1>3 DEF Proceed, Queries

LEMMA UserMoves ==
  ASSUME Serialised, Kept, Users, NEW t \in Tasks, Advance(t) \/ Disturb(t)
  PROVE  UserMove(t)
<1>0. /\ TypeOK /\ LockKept /\ OneUser /\ FetchesMatch /\ ClosersHaveShut
      /\ pc[t] # "pinging"
  BY DEF Kept, Users, OneUser
<1>1. ASSUME pc[t] \in {"granted", "dialing", "greeting", "probing", "reopening"}
      PROVE  holder = t /\ (pc[t] # "granted" => ~executing /\ stream[t] = 0)
             /\ call[t] \in Queries /\ call[t] # "connect"
  BY <1>0, <1>1, SerialInside DEF Establishing, OneUser, Owns
<1>2. CASE QueueForLock(t)
  <2>1. /\ pc[t] = "idle" /\ pc'[t] = "locking"
        /\ UNCHANGED <<socket, link, executing, stream>>
    BY <1>0, <1>2 DEF QueueForLock, client, TypeOK
  <2> QED BY <2>1 DEF UserMove, Goes, OwnsNext, Owns, FetchNext, Waits
<1>3. CASE Reject(t)
  <2>1. /\ pc[t] \in {"idle", "granted"} /\ Leave(t)
        /\ UNCHANGED <<socket, executing, stream>>
    BY <1>0, <1>3 DEF Reject, Enters, client
  <2>2. pc'[t] = "idle"
    BY <1>0, <2>1, SettleFacts DEF Leave, Places
  <2> QED BY <2>1, <2>2 DEF Leave, UserMove, Goes, OwnsNext, Owns, FetchNext, Waits
<1>4. CASE Dial(t) \/ ProbeBroken(t)
  BY <1>0, <1>4, EntersFacts, RedialUser DEF Dial, ProbeBroken, client
<1>5. CASE Probe(t)
  <2>1. /\ pc[t] \in {"idle", "granted"} /\ pc'[t] = "probing" /\ ~executing
        /\ on'[t] = socket /\ Usable
        /\ UNCHANGED <<socket, executing, stream, link>>
    BY <1>0, <1>5 DEF Probe, Enters, client, TypeOK, Writable, Connected, Usable
  <2> QED BY <2>1 DEF UserMove, Goes, OwnsNext, Owns, FetchNext
<1>6. CASE ProbeContended(t)
  BY <1>0, <1>6, EntersFacts, NotContended DEF ProbeContended, Alone
<1>7. CASE ProbeAnswered(t)
  BY <1>7, ProceedUser DEF ProbeAnswered
<1>8. CASE ProbeFails(t)
  BY <1>1, <1>8, AbortUser DEF ProbeFails, client, Alone
<1>9. CASE ProbeLost(t)
  BY <1>1, <1>9, RedialUser DEF ProbeLost, client
<1>10. CASE Dialed(t)
  <2>1. pc'[t] = "greeting" /\ UNCHANGED stream
    BY <1>0, <1>10 DEF Dialed, TypeOK
  <2> QED BY <1>10, <2>1 DEF UserMove, FetchNext
<1>11. CASE DialFails(t) \/ GreetLost(t)
  BY <1>1, <1>11, AbortUser DEF DialFails, GreetLost, client, Alone
<1>12. CASE Greeted(t)
  BY <1>1, <1>12, ProceedUser DEF Greeted
<1>13. CASE GreetFails(t)
  BY <1>1, <1>13, AbortUser DEF GreetFails, Fail, client, Alone
<1>14. CASE Reopened(t)
  <2>1. /\ pc[t] = "reopening" /\ pc'[t] = "dialing"
        /\ socket' = 0 /\ executing' = FALSE /\ UNCHANGED <<stream, link>>
    BY <1>0, <1>14 DEF Reopened, Reset, TypeOK
  <2> QED BY <1>1, <2>1 DEF UserMove, Resets, OwnsNext, FetchNext, Waits
<1>15. CASE Closed(t) \/ CancelClose(t)
  <2>1. /\ pc[t] \in {"closing", "reopening"} /\ Leave(t)
        /\ socket' = 0 /\ executing' = FALSE /\ UNCHANGED stream
    BY <1>15 DEF Closed, CancelClose, Reset
  <2>2. pc'[t] = "idle"
    BY <1>0, <2>1, SettleFacts DEF Leave, Places
  <2>3. stream[t] = 0
    BY <1>0, <2>1 DEF ClosersHaveShut, OneUser, Owns
  <2> QED BY <2>1, <2>2, <2>3
          DEF UserMove, Leave, Resets, OwnsNext, FetchNext, Waits
\* A result is read.
<1>16. ASSUME Owns(t), pc[t] \notin {"locking", "closing"}, UNCHANGED socket,
              Abort(t), Exhausted(t) \/ (UNCHANGED stream /\ stream[t] = 0),
              stream[t] # 0 => call[t] = "fetch",
              executing' => executing
       PROVE  UserMove(t)
  <2>1. stream'[t] = 0 /\ \A u \in Tasks \ {t} : stream'[u] = stream[u]
    BY <1>0, <1>16 DEF Exhausted, TypeOK
  <2> QED BY <1>16, <2>1, AbortUser DEF Alone
<1>17. ASSUME pc[t] \in {"reading", "yielding", "sampling", "draining"}
       PROVE  /\ Owns(t) /\ Alone(t) /\ executing /\ pc[t] \notin {"locking", "closing"}
              /\ stream[t] # 0 => call[t] = "fetch" /\ query[t] = stream[t]
              /\ pc[t] \in {"sampling", "draining"} => stream[t] = 0
              /\ pc[t] \in {"reading", "yielding"} /\ call[t] = "fetch" => stream[t] # 0
              /\ Usable
  BY <1>0, <1>17 DEF Owns, Alone, OneUser, FetchesMatch, Usable
<1>18. ASSUME Owns(t), ReadOn(t), UNCHANGED <<socket, executing>>, FetchNext(t),
              pc[t] # "closing"
       PROVE  UserMove(t)
  <2>1. pc'[t] = "reading" /\ on'[t] = socket /\ UNCHANGED <<stream, link>>
    BY <1>0, <1>18 DEF ReadOn, TypeOK
  <2>2. Usable
    BY <1>0, <1>18 DEF OneUser, Usable
  <2> QED BY <1>18, <2>1, <2>2 DEF UserMove, Goes, OwnsNext
<1>19. CASE Fetch(t)
  <2>1. /\ pc[t] = "idle" /\ stream[t] # 0 /\ call'[t] = "fetch"
        /\ query'[t] = stream[t] /\ UNCHANGED <<socket, executing>>
    BY <1>0, <1>19 DEF Fetch, client, TypeOK
  <2>2. Owns(t) /\ Alone(t) /\ socket # 0
    BY <1>0, <2>1 DEF Owns, Alone, OneUser
  <2>3. ReadOn(t)
    BY <1>19, <2>2, NotContended DEF Fetch
  <2>4. FetchNext(t)
    BY <1>0, <2>1, <2>3 DEF FetchNext, ReadOn, TypeOK
  <2> QED BY <1>18, <2>1, <2>2, <2>3, <2>4
<1>20. CASE ReadData(t)
  <2>1. /\ pc[t] = "reading" /\ pc'[t] = "yielding"
        /\ UNCHANGED <<socket, executing, stream, link, call, query>>
    BY <1>0, <1>20 DEF ReadData, client, TypeOK
  <2>2. FetchNext(t)
    BY <1>0, <1>17, <2>1 DEF FetchNext, FetchesMatch
  <2> QED BY <2>1, <2>2 DEF UserMove, Goes, OwnsNext, Owns, Waits
<1>21. CASE Resume(t)
  <2>1. pc[t] = "yielding" /\ UNCHANGED <<socket, executing, call, query>>
    BY <1>21 DEF Resume, client
  <2>2. CASE call[t] = "fetch"
    <3>1. Leave(t) /\ UNCHANGED stream
      BY <1>21, <2>2 DEF Resume
    <3>2. pc'[t] = "idle"
      BY <1>0, <2>1, <3>1, SettleFacts DEF Leave, Places
    <3>3. stream[t] # 0
      BY <1>0, <1>17, <2>1, <2>2 DEF FetchesMatch
    <3> QED BY <2>1, <3>1, <3>2, <3>3
            DEF Leave, UserMove, Goes, OwnsNext, Owns, FetchNext, Waits
  <2>3. CASE call[t] # "fetch"
    <3>1. ReadOn(t)
      BY <1>17, <1>21, <2>1, <2>3, NotContended DEF Resume, CannotRead, Usable
    <3>2. FetchNext(t)
      BY <1>0, <1>17, <2>1, <2>3, <3>1 DEF FetchNext, ReadOn, TypeOK
    <3> QED BY <1>17, <1>18, <2>1, <3>1, <3>2
  <2> QED BY <2>2, <2>3
<1>22. CASE ReadEnd(t)
  <2>1. /\ pc[t] = "reading" /\ Leave(t) /\ UNCHANGED socket /\ Exhausted(t)
        /\ executing' = FALSE
    BY <1>22 DEF ReadEnd, EndOfStream
  <2>2. stream'[t] = 0 /\ \A u \in Tasks \ {t} : stream'[u] = stream[u]
    BY <1>0, <1>17, <2>1 DEF Exhausted, TypeOK
  <2> QED BY <1>17, <2>1, <2>2, LeaveUser
<1>23. CASE ReadFails(t) \/ CancelRead(t)
  <2>1. /\ pc[t] \in {"reading", "yielding", "sampling", "draining"}
        /\ Abort(t) /\ Exhausted(t) /\ UNCHANGED <<socket, executing>>
    BY <1>23 DEF ReadFails, CancelRead, client
  <2> QED BY <1>16, <1>17, <2>1
<1>24. CASE Sampled(t)
  <2>1. /\ pc[t] = "sampling" /\ UNCHANGED <<socket, executing, call, query, stream>>
    BY <1>24 DEF Sampled, client
  <2>2. CASE Abort(t)
    BY <1>16, <1>17, <2>1, <2>2
  <2>3. CASE /\ pc' = [pc EXCEPT ![t] = "draining"]
             /\ on' = [on EXCEPT ![t] = socket] /\ UNCHANGED link
    <3>1. pc'[t] = "draining" /\ on'[t] = socket
      BY <1>0, <2>3 DEF TypeOK
    <3> QED BY <1>17, <2>1, <2>3, <3>1
            DEF UserMove, Goes, OwnsNext, Owns, FetchNext
  <2> QED BY <1>24, <2>2, <2>3 DEF Sampled
<1>25. CASE SampleFails(t) \/ DrainFails(t)
  <2>1. /\ pc[t] \in {"sampling", "draining"} /\ Abort(t)
        /\ UNCHANGED <<socket, stream>> /\ (executing' => executing)
    BY <1>25 DEF SampleFails, DrainFails, client, EndOfStream
  <2> QED BY <1>16, <1>17, <2>1
<1>26. CASE Drained(t)
  <2>1. /\ pc[t] = "draining" /\ Leave(t) /\ UNCHANGED <<socket, stream>>
        /\ executing' = FALSE
    BY <1>26 DEF Drained, EndOfStream
  <2> QED BY <1>17, <2>1, LeaveUser
<1>27. CASE CancelDial(t)
  BY <1>1, <1>27, AbortUser DEF CancelDial, Fail, client, Alone
<1>28. ~(Ping(t) \/ PingAnswered(t) \/ PingFails(t) \/ PingTimeout(t)
         \/ PingCancelled(t) \/ Close(t) \/ Terminate(t) \/ Connect(t)
         \/ CancelWaiter(t))
  BY <1>0 DEF Serialised, Queries, Ping, PingAnswered, PingFails, PingTimeout,
              PingCancelled, Close, Terminate, Connect, CancelWaiter
<1> QED BY <1>2, <1>3, <1>4, <1>5, <1>6, <1>7, <1>8, <1>9, <1>10, <1>11, <1>12,
           <1>13, <1>14, <1>15, <1>19, <1>20, <1>21, <1>22, <1>23, <1>24, <1>25,
           <1>26, <1>27, <1>28 DEF Advance, Disturb, Interfere

LEMMA UsersInit == Init => Users
<1> SUFFICES ASSUME Init PROVE Users
  OBVIOUS
<1>1. ClosersHaveShut /\ NoSocketLeak
  BY LeakInit
<1>2. \A t \in Tasks : pc[t] = "idle" /\ stream[t] = 0 /\ ~executing
  BY DEF Init
<1>3. OneUser
  BY <1>2 DEF Init, OneUser, Owns
<1>4. FetchesMatch
  BY <1>2 DEF FetchesMatch
<1> QED BY <1>1, <1>3, <1>4 DEF Users

LEMMA ServerKeepsShut ==
  ASSUME TypeOK, NEW s \in Sockets, ServerStep(s)
  PROVE  \A r \in Sockets : link'[r] = "shut" <=> link[r] = "shut"
<1>1. link' = link \/ (link[s] = "up" /\ link' = [link EXCEPT ![s] = "lost"])
  BY DEF ServerStep, Serve, ServerReads, ServerHangsUp, ServerSendsData,
         ServerEnds, LinkLost
<1> QED BY <1>1 DEF TypeOK

LEMMA UsersStep ==
  ASSUME Serialised
  PROVE  Kept /\ Users /\ [Next]_vars => Users'
<1> SUFFICES ASSUME Kept, Users, [Next]_vars PROVE Users'
  OBVIOUS
<1>1. ClosersHaveShut' /\ NoSocketLeak'
  <2>1. "connect" \notin Calls
    BY DEF Serialised, Queries
  <2> QED BY <2>1, LeakStep, LockSerialises DEF Users
<1>2. ASSUME NEW t \in Tasks, Advance(t) \/ Disturb(t)
      PROVE  OneUser' /\ FetchesMatch'
  <2>1. LockMove(t) /\ Readers(t) /\ TypeOK /\ LockKept
    BY <1>2, TaskStep DEF TypedMove, Kept
  <2>2. OthersWait(t)
    BY <2>1, LockMoves DEF LockMove
  <2> QED BY <1>2, <2>1, <2>2, UserMoves, UserStep DEF LockMove
<1>3. ASSUME NEW s \in Sockets, ServerStep(s)
      PROVE  OneUser' /\ FetchesMatch'
  <2>1. UNCHANGED <<socket, executing, pc, call, on, query, stream>>
    BY <1>3, ServerTyped DEF client_side, client, tasks, Kept
  <2>2. socket \in Sockets => (link'[socket] = "shut" <=> link[socket] = "shut")
    BY <1>3, ServerKeepsShut DEF Kept
  <2>3. socket # 0 => socket \in Sockets
    BY SessionAssumption DEF Kept, TypeOK, Sockets
  <2>4. OneUser'
    BY <2>1, <2>2, <2>3 DEF Users, OneUser, Owns
  <2> QED BY <2>1, <2>4 DEF Users, FetchesMatch
<1>4. CASE UNCHANGED vars
  <2>1. OneUser'
    BY <1>4 DEF vars, Users, OneUser, Owns
  <2>2. FetchesMatch'
    BY <1>4 DEF vars, Users, FetchesMatch
  <2> QED BY <1>1, <2>1, <2>2 DEF Users
<1> QED BY <1>1, <1>2, <1>3, <1>4, Steps DEF Users

LEMMA UsersCorrect ==
  ASSUME Serialised
  PROVE  Spec => []Users
BY UsersInit, UsersStep, KeptCorrect, PTL DEF Spec

\* While every call goes through force_connect: is_query_executing is up only
\* while some task is on its way to END_OF_STREAM or to a disconnect, or holds
\* the streamed result that is.
THEOREM FlagHasOwnerCorrect ==
  ASSUME Serialised
  PROVE  Spec => []FlagHasOwner
<1>1. Users => FlagHasOwner
  BY DEF Users, OneUser, Owns, FlagHasOwner, Finishing
<1> QED BY <1>1, UsersCorrect, PTL

\* While every call goes through force_connect: a connection whose flag is up has
\* a socket, so that close() can bring it down (the run wedged shows what close()
\* itself does to this).
THEOREM FlagCanBeClearedCorrect ==
  ASSUME Serialised
  PROVE  Spec => []FlagCanBeCleared
<1>1. Users => FlagCanBeCleared
  BY DEF Users, OneUser, FlagCanBeCleared, Connected
<1> QED BY <1>1, UsersCorrect, PTL

\* Only the current socket is ever closed, and it stays current until the close
\* is over.
LEMMA OnlyCurrentShuts ==
  ASSUME Kept, [Next]_vars, NEW s \in Sockets, link[s] # "shut", link'[s] = "shut"
  PROVE  socket = s /\ socket' \in {0, s}
<1>1. ASSUME NEW t \in Tasks, SocketMove(t)
      PROVE  socket = s /\ socket' \in {0, s}
  <2>1. CASE Shut /\ socket' \in {0, socket}
    <3>1. link' = [link EXCEPT ![socket] = "shut"]
      BY <2>1 DEF Shut
    <3> QED BY <2>1, <3>1 DEF Kept, TypeOK
  <2>2. CASE Dialed(t)
    <3>1. \E r \in Sockets : link' = [link EXCEPT ![r] = "up"]
      BY <2>2 DEF Dialed
    <3> QED BY <3>1 DEF Kept, TypeOK
  <2> QED BY <1>1, <2>1, <2>2 DEF SocketMove
<1>2. ASSUME NEW r \in Sockets, ServerStep(r)
      PROVE  FALSE
  BY <1>2, ServerKeepsShut DEF Kept
<1> QED BY <1>1, <1>2, SocketMoves, Steps DEF vars

\* While every call goes through force_connect: nobody closes a socket under
\* another task that uses it for a query (disconnect() in
\* asynch/proto/connection.py; the run waiter shows that a cancelled waiter does).
THEOREM UndisturbedCorrect ==
  ASSUME Serialised
  PROVE  Spec => Undisturbed
<1>1. ASSUME Kept, Users, Users', [Next]_vars
      PROVE  [\A s \in Sockets : link[s] # "shut" /\ link'[s] = "shut" =>
                \A t \in Tasks :
                  pc[t] \in InUse /\ on[t] = s => pc'[t] # pc[t]]_vars
  <2> SUFFICES ASSUME NEW s \in Sockets, link[s] # "shut", link'[s] = "shut",
                      NEW t \in Tasks, pc[t] \in InUse, on[t] = s, pc'[t] = pc[t]
               PROVE  FALSE
    OBVIOUS
  <2>1. socket = s /\ socket' \in {0, s}
    BY <1>1, OnlyCurrentShuts
  <2>2. socket' # 0 /\ link'[socket'] # "shut"
    BY <1>1 DEF Users, OneUser, Owns, InUse
  <2> QED BY <2>1, <2>2
<1> QED BY <1>1, KeptCorrect, UsersCorrect, PTL DEF Spec, Undisturbed
=============================================================================
