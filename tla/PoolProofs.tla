----------------------------- MODULE PoolProofs -----------------------------
(* Theorems about Pool, for every set of tasks and connections, every        *)
(* minsize and maxsize and every set of awkward events.                       *)
EXTENDS Pool, SequenceLemmas, FiniteSetTheorems

-----------------------------------------------------------------------------
(* The sequence helpers *)

\* deque.append with maxlen: entries come from the deque or from what is
\* appended, and their number grows by at most what is appended.
LEMMA PushedProperties ==
  ASSUME NEW q \in Seq(Conns), NEW cs \in Seq(Conns)
  PROVE  /\ Pushed(q, cs) \in Seq(Conns)
         /\ Len(Pushed(q, cs)) <= Len(q) + Len(cs)
         /\ Range(Pushed(q, cs)) \subseteq Range(q) \cup Range(cs)
         /\ IsInjective(q) /\ IsInjective(cs) /\ Range(q) \cap Range(cs) = {}
              => IsInjective(Pushed(q, cs))
<1> DEFINE all == q \o cs
           n == Len(all)
           d == n - MaxSize
<1>0. MaxSize \in Nat BY SizeAssumption
<1>1. /\ all \in Seq(Conns)
      /\ n = Len(q) + Len(cs)
      /\ n \in Nat
      /\ \A i \in 1..n : all[i] = IF i <= Len(q) THEN q[i] ELSE cs[i - Len(q)]
  BY ConcatProperties, LenProperties
<1>d. /\ DOMAIN q = 1..Len(q) /\ DOMAIN cs = 1..Len(cs) /\ DOMAIN all = 1..n
      /\ Len(q) \in Nat /\ Len(cs) \in Nat
  BY <1>1, LenProperties
<1> HIDE DEF all
<1>2. Range(all) \subseteq Range(q) \cup Range(cs)
  <2> SUFFICES ASSUME NEW i \in 1..n
               PROVE  all[i] \in Range(q) \cup Range(cs)
    BY <1>d DEF Range
  <2>1. CASE i <= Len(q)
    BY <1>1, <1>d, <2>1 DEF Range
  <2>2. CASE i > Len(q)
    <3>1. i - Len(q) \in 1..Len(cs)
      BY <1>1, <1>d, <2>2
    <3> QED BY <1>1, <1>d, <2>2, <3>1 DEF Range
  <2> QED BY <1>d, <1>1, <2>1, <2>2
<1>3. ASSUME IsInjective(q), IsInjective(cs), Range(q) \cap Range(cs) = {}
      PROVE  IsInjective(all)
  <2> SUFFICES ASSUME NEW i \in 1..n, NEW j \in 1..n, all[i] = all[j]
               PROVE  i = j
    BY <1>d DEF IsInjective
  <2> DEFINE left(k) == k <= Len(q)
  <2>1. \A k \in 1..n : ~left(k) => k - Len(q) \in 1..Len(cs)
    BY <1>1, <1>d
  <2>2. CASE left(i) /\ left(j)
    <3>1. i \in DOMAIN q /\ j \in DOMAIN q /\ q[i] = q[j]
      BY <1>1, <1>d, <2>2
    <3> QED BY <3>1, <1>3 DEF IsInjective
  <2>3. CASE ~left(i) /\ ~left(j)
    <3>1. /\ i - Len(q) \in DOMAIN cs /\ j - Len(q) \in DOMAIN cs
          /\ cs[i - Len(q)] = cs[j - Len(q)]
      BY <1>1, <1>d, <2>1, <2>3
    <3>2. i - Len(q) = j - Len(q)
      BY <3>1, <1>3 DEF IsInjective
    <3> QED BY <3>2, <1>d, <1>1
  <2>4. ASSUME NEW k \in 1..n, NEW l \in 1..n, left(k), ~left(l)
        PROVE  all[k] # all[l]
    <3>1. k \in DOMAIN q /\ all[k] = q[k]
      BY <1>1, <1>d, <2>4
    <3>2. l - Len(q) \in DOMAIN cs /\ all[l] = cs[l - Len(q)]
      BY <1>1, <1>d, <2>1, <2>4
    <3>3. all[k] \in Range(q) /\ all[l] \in Range(cs)
      BY <3>1, <3>2 DEF Range
    <3> QED BY <1>3, <3>3
  <2> HIDE DEF left
  <2> QED BY <2>2, <2>3, <2>4
<1>4. CASE n <= MaxSize
  <2>1. Pushed(q, cs) = all
    BY <1>4 DEF Pushed, all
  <2> QED BY <1>1, <1>2, <1>3, <1>d, <2>1
<1>5. CASE n > MaxSize
  <2> DEFINE tail == SubSeq(all, d + 1, n)
  <2>1. Pushed(q, cs) = tail
    BY <1>0, <1>1, <1>5 DEF Pushed, all
  <2>2. d + 1 \in 1..n+1 /\ d \in Nat /\ n = d + MaxSize
    BY <1>0, <1>1, <1>5
  <2> HIDE DEF d
  <2>3. \A i \in d + 1 .. n : all[i] \in Conns
    BY <1>1, <1>d, <2>2, ElementOfSeq
  <2>4. /\ tail \in Seq(Conns)
        /\ Len(tail) = MaxSize
        /\ \A i \in 1..MaxSize : tail[i] = all[i + d]
    <3>1. /\ tail \in Seq(Conns)
          /\ Len(tail) = IF d + 1 <= n THEN n - (d + 1) + 1 ELSE 0
          /\ \A i \in 1 .. n - (d + 1) + 1 : tail[i] = all[(d + 1) + i - 1]
      <4>1. d + 1 \in Int /\ n \in Int
        BY <1>1, <2>2
      <4> QED BY <4>1, <2>3, SubSeqProperties
    <3> HIDE DEF tail
    <3>2. \A i \in 1..MaxSize : (d + 1) + i - 1 = i + d
      BY <1>0, <2>2
    <3>3. n - (d + 1) + 1 = MaxSize
      BY <1>0, <2>2
    <3>4. Len(tail) = MaxSize
      BY <1>0, <2>2, <3>1, <3>3, SizeAssumption
    <3>5. \A i \in 1..MaxSize : tail[i] = all[i + d]
      BY <3>1, <3>2, <3>3
    <3> QED BY <3>1, <3>4, <3>5
  <2> HIDE DEF tail
  <2>5. DOMAIN tail = 1..MaxSize /\ \A i \in 1..MaxSize : i + d \in 1..n
    BY <1>0, <2>2, <2>4, LenProperties
  <2>6. Range(tail) \subseteq Range(all)
    BY <1>d, <2>4, <2>5 DEF Range
  <2>7. ASSUME IsInjective(all) PROVE IsInjective(tail)
    <3> SUFFICES ASSUME NEW i \in 1..MaxSize, NEW j \in 1..MaxSize,
                        tail[i] = tail[j]
                 PROVE  i = j
      BY <2>5 DEF IsInjective
    <3>1. all[i + d] = all[j + d] /\ i + d \in DOMAIN all /\ j + d \in DOMAIN all
      BY <1>d, <2>4, <2>5
    <3>2. i + d = j + d
      BY <3>1, <2>7 DEF IsInjective
    <3> QED BY <3>2, <2>2, <1>0
  <2> QED BY <1>0, <1>1, <1>2, <1>3, <1>5, <1>d, <2>1, <2>2, <2>4, <2>6, <2>7
<1> QED BY <1>0, <1>1, <1>4, <1>5

-----------------------------------------------------------------------------
(* Types *)

\* Handing the permit over and waking waiters keeps places and queue typed.
LEMMA WakingTypes ==
  ASSUME NEW p \in [Tasks -> Places], queue \in Seq(Tasks)
  PROVE  /\ Handover(p) \in [Tasks -> Places]
         /\ Notified(p) \in [Tasks -> Places]
         /\ StartupSet(p) \in [Tasks -> Places]
         /\ NextQueue \in Seq(Tasks)
<1>1. {"ready", "joined"} \subseteq Places
  BY DEF Places, Borrowing
<1>2. queue # <<>> => Head(queue) \in Tasks /\ Tail(queue) \in Seq(Tasks)
  BY HeadTailProperties
<1>3. Handover(p) \in [Tasks -> Places] /\ NextQueue \in Seq(Tasks)
  BY <1>1, <1>2 DEF Handover, NextQueue
<1>4. Notified(p) \in [Tasks -> Places] /\ StartupSet(p) \in [Tasks -> Places]
  BY <1>1 DEF Notified, StartupSet
<1> QED BY <1>3, <1>4

LEMMA TypeInit == Init => TypeOK
<1>1. "idle" \in Places /\ "down" \in ConnStates
  BY DEF Places, ConnStates
<1>2. <<>> \in Seq(Tasks) /\ <<>> \in Seq(Conns)
  BY EmptySeq
<1> SUFFICES ASSUME Init PROVE TypeOK
  OBVIOUS
<1>3. /\ pc \in [Tasks -> Places]
      /\ mine \in [Tasks -> SUBSET Conns]
      /\ ticket \in [Tasks -> Nat]
      /\ state \in [Conns -> ConnStates]
  BY <1>1 DEF Init
<1>4. /\ queue \in Seq(Tasks) /\ free \in Seq(Conns)
      /\ acquired \in SUBSET Conns /\ idleSince \in SUBSET Conns
      /\ pending \in Int /\ generation \in Nat /\ startups \in Nat
  BY <1>2 DEF Init
<1>5. opened \in BOOLEAN /\ closed \in BOOLEAN /\ starting \in BOOLEAN
  BY DEF Init
<1> QED BY <1>3, <1>4, <1>5 DEF TypeOK

LEMMA TypeStep == TypeOK /\ [Next]_vars => TypeOK'
<1> SUFFICES ASSUME TypeOK, [Next]_vars PROVE TypeOK'
  OBVIOUS
<1> USE DEF TypeOK
<1>p. Places = {"idle", "queued", "joining", "joined", "ready", "waiting",
                "creating", "pinging", "using", "skipping", "refusing",
                "retiring", "unwinding", "draining", "starting", "aborting",
                "collecting"}
  BY DEF Places, Borrowing, Founding, Discarding
<1>s. ConnStates = {"connecting", "open", "busy", "down"}
  BY DEF ConnStates
<1>f. free # <<>> => Head(free) \in Conns /\ Tail(free) \in Seq(Conns)
  BY TailProperties
<1>z. MaxSize \in Nat /\ MinSize \in Nat
  BY SizeAssumption
<1>q. ASSUME NEW t \in Tasks, NEW place \in Places
      PROVE  /\ [pc EXCEPT ![t] = place] \in [Tasks -> Places]
             /\ Handover([pc EXCEPT ![t] = place]) \in [Tasks -> Places]
             /\ Notified([pc EXCEPT ![t] = place]) \in [Tasks -> Places]
             /\ Notified(Handover([pc EXCEPT ![t] = place]))
                  \in [Tasks -> Places]
             /\ StartupSet([pc EXCEPT ![t] = place]) \in [Tasks -> Places]
             /\ StartupSet(Notified([pc EXCEPT ![t] = place]))
                  \in [Tasks -> Places]
             /\ NextQueue \in Seq(Tasks)
  <2>1. [pc EXCEPT ![t] = place] \in [Tasks -> Places]
    OBVIOUS
  <2> QED BY <2>1, WakingTypes
<1>n. Notified(pc) \in [Tasks -> Places]
  BY WakingTypes
<1>1. ASSUME NEW t \in Tasks, Queue(t) PROVE TypeOK'
  <2>1. Append(queue, t) \in Seq(Tasks)
    OBVIOUS
  <2> QED BY <1>1, <1>p, <2>1 DEF Queue, shared
<1>2. ASSUME NEW t \in Tasks, Acquire(t) PROVE TypeOK'
  <2>1. CASE TakeFree(t)
    BY <2>1, <1>p, <1>f DEF TakeFree, PopFree, Go
  <2>2. CASE TakeForPing(t)
    BY <2>2, <1>p, <1>f DEF TakeForPing, PopFree, Go
  <2>3. CASE SkipFree(t)
    BY <2>3, <1>p, <1>f DEF SkipFree, PopFree, Go
  <2>4. CASE Reserve(t)
    BY <2>4, <1>p, <1>s DEF Reserve, Go, Fresh
  <2>5. CASE Wait(t)
    BY <2>5, <1>p DEF Wait, Go, shared
  <2>6. CASE Refuse(t)
    BY <2>6, <1>p, <1>q DEF Refuse, Leave, shared
  <2> QED BY <1>2, <2>1, <2>2, <2>3, <2>4, <2>5, <2>6 DEF Acquire
<1>3. ASSUME NEW t \in Tasks, Checkout(t) PROVE TypeOK'
  <2>1. CASE Created(t)
    <3>a. /\ Notified([pc EXCEPT ![t] = "using"]) \in [Tasks -> Places]
          /\ Notified([pc EXCEPT ![t] = "refusing"]) \in [Tasks -> Places]
      BY <1>p, <1>q
    <3>1. pc' \in [Tasks -> Places]
      BY <2>1, <3>a DEF Created
    <3>2. state' \in [Conns -> ConnStates]
      BY <2>1, <1>s DEF Created
    <3> QED BY <2>1, <3>1, <3>2 DEF Created
  <2>2. CASE CreateFailed(t)
    <3>1. pc' \in [Tasks -> Places] /\ queue' \in Seq(Tasks)
      BY <2>2, <1>p, <1>q DEF CreateFailed, LeaveNotifying
    <3>2. state' \in [Conns -> ConnStates]
      BY <2>2, <1>s DEF CreateFailed
    <3>3. /\ mine' \in [Tasks -> SUBSET Conns]
          /\ pending' \in Int
          /\ UNCHANGED <<ticket, acquired, free, idleSince, generation,
                         opened, closed, starting, startups>>
      BY <2>2 DEF CreateFailed, LeaveNotifying
    <3> QED BY <3>1, <3>2, <3>3
  <2>3. CASE PingAnswered(t)
    BY <2>3, <1>p DEF PingAnswered, shared
  <2>4. CASE PingFailed(t)
    BY <2>4, <1>p DEF PingFailed
  <2> QED BY <1>3, <2>1, <2>2, <2>3, <2>4 DEF Checkout
<1>4. ASSUME NEW t \in Tasks, Use(t) PROVE TypeOK'
  BY <1>4, <1>s DEF Use, locals, shared
<1>5. ASSUME NEW t \in Tasks, Release(t) PROVE TypeOK'
  <2>1. CASE ReleaseFree(t)
    <3>1. \A c \in mine[t] : Pushed(free, <<c>>) \in Seq(Conns)
      <4>1. \A c \in mine[t] : <<c>> \in Seq(Conns)
        OBVIOUS
      <4> QED BY <4>1, PushedProperties
    <3>2. pc' \in [Tasks -> Places] /\ queue' \in Seq(Tasks)
      BY <2>1, <1>p, <1>q DEF ReleaseFree, Leave
    <3> QED BY <2>1, <3>1, <3>2 DEF ReleaseFree, Leave
  <2>2. CASE ReleaseBroken(t)
    BY <2>2, <1>p DEF ReleaseBroken
  <2>3. CASE ReleaseForeign(t)
    BY <2>3, <1>p, <1>q DEF ReleaseForeign, Leave, shared
  <2> QED BY <1>5, <2>1, <2>2, <2>3 DEF Release
<1>6. ASSUME NEW t \in Tasks, Startup(t) PROVE TypeOK'
  <2>1. CASE StartupJoin(t)
    BY <2>1, <1>p DEF StartupJoin
  <2>2. CASE StartupBegin(t)
    <3>1. PICK batch \in SUBSET Fresh :
            /\ Go(t, "starting", batch)
            /\ state' = [c \in Conns |-> IF c \in batch THEN "connecting"
                                                        ELSE state[c]]
      BY <2>2 DEF StartupBegin
    <3>2. pc' \in [Tasks -> Places] /\ mine' \in [Tasks -> SUBSET Conns]
      BY <3>1, <1>p DEF Go, Fresh
    <3>3. state' \in [Conns -> ConnStates]
      BY <3>1, <1>s
    <3>4. /\ ticket' \in [Tasks -> Nat]
          /\ pending' \in Int
          /\ startups' \in Nat
          /\ closed' = FALSE /\ starting' = TRUE
          /\ UNCHANGED <<queue, acquired, free, idleSince, generation, opened>>
      BY <2>2, <1>z DEF StartupBegin
    <3> QED BY <3>2, <3>3, <3>4
  <2>3. CASE StartupEmpty(t)
    BY <2>3 DEF StartupEmpty, locals
  <2>4. CASE StartupTooLarge(t)
    BY <2>4 DEF StartupTooLarge, locals
  <2> QED BY <1>6, <2>1, <2>2, <2>3, <2>4 DEF Startup
<1>g. ASSUME NEW t \in Tasks, GiveUpStartup(t) PROVE TypeOK'
  <2>1. StartupSet([Notified(pc) EXCEPT ![t] = "idle"]) \in [Tasks -> Places]
    <3>1. [Notified(pc) EXCEPT ![t] = "idle"] \in [Tasks -> Places]
      BY <1>n, <1>p
    <3> QED BY <3>1, WakingTypes
  <2>2. pc' \in [Tasks -> Places] /\ starting' \in BOOLEAN
    <3>1. Notified([pc EXCEPT ![t] = "unwinding"]) \in [Tasks -> Places]
      BY <1>p, <1>q
    <3> QED BY <1>g, <2>1, <3>1 DEF GiveUpStartup, StartupFails
  <2>3. mine' \in [Tasks -> SUBSET Conns]
    BY <1>g DEF GiveUpStartup, Survivors
  <2> QED BY <1>g, <1>z, <2>2, <2>3 DEF GiveUpStartup
<1>7. ASSUME NEW t \in Tasks, StartupProceeds(t) PROVE TypeOK'
  <2>1. CASE ChildEnds(t)
    BY <2>1, <1>s DEF ChildEnds, locals, shared
  <2>2. CASE StartupKeep(t)
    <3>1. \A order \in [1..MinSize -> mine[t]] : order \in Seq(Conns)
      BY <1>z
    <3>2. \A order \in [1..MinSize -> mine[t]] :
            Pushed(free, order) \in Seq(Conns)
      BY <3>1, PushedProperties
    <3>3. pc' \in [Tasks -> Places]
      BY <2>2, <1>p, <1>q DEF StartupKeep
    <3>4. free' \in Seq(Conns)
      BY <2>2, <3>2 DEF StartupKeep
    <3>5. /\ mine' \in [Tasks -> SUBSET Conns]
          /\ idleSince' \in SUBSET Conns
          /\ pending' \in Int
          /\ opened' = TRUE /\ starting' = FALSE
          /\ UNCHANGED <<ticket, queue, acquired, generation, closed, state,
                         startups>>
      BY <2>2, <1>z DEF StartupKeep
    <3> QED BY <3>3, <3>4, <3>5
  <2>3. CASE StartupDrop(t)
    BY <2>3, <1>g DEF StartupDrop
  <2>4. CASE StartupAborted(t)
    BY <2>4, <1>p DEF StartupAborted, shared
  <2>5. CASE StartupCollected(t)
    BY <2>5, <1>g DEF StartupCollected
  <2>6. CASE JoinEnds(t)
    BY <2>6, <1>p DEF JoinEnds, shared
  <2> QED BY <1>7, <2>1, <2>2, <2>3, <2>4, <2>5, <2>6 DEF StartupProceeds
<1>8. ASSUME NEW t \in Tasks, Shutdown(t) PROVE TypeOK'
  <2>1. Range(free) \subseteq Conns
    BY LenProperties DEF Range
  <2>2. \A place \in Places :
          Notified([pc EXCEPT ![t] = place]) \in [Tasks -> Places]
    BY <1>q
  <2>3. pc' \in [Tasks -> Places]
    BY <1>8, <1>p, <2>2 DEF Shutdown
  <2>4. mine' \in [Tasks -> SUBSET Conns]
    BY <1>8, <2>1 DEF Shutdown
  <2>5. /\ acquired' = {} /\ idleSince' = {} /\ free' \in Seq(Conns)
        /\ generation' \in Nat
        /\ opened' = FALSE /\ closed' = TRUE
        /\ UNCHANGED <<ticket, queue, pending, starting, state, startups>>
    BY <1>8, EmptySeq DEF Shutdown
  <2> QED BY <2>3, <2>4, <2>5
<1>r. ASSUME NEW t \in Tasks, Raises(t)
      PROVE  /\ pc' \in [Tasks -> Places]
             /\ mine' \in [Tasks -> SUBSET Conns]
             /\ queue' \in Seq(Tasks)
             /\ starting' \in BOOLEAN
  <2>1. "idle" \in Places
    BY <1>p
  <2>a. LET p == [pc EXCEPT ![t] = "idle"]
        IN  /\ p \in [Tasks -> Places]
            /\ Handover(p) \in [Tasks -> Places]
            /\ StartupSet(p) \in [Tasks -> Places]
            /\ NextQueue \in Seq(Tasks)
    BY <2>1, <1>q
  <2>2. pc' \in [Tasks -> Places] /\ queue' \in Seq(Tasks)
    BY <1>r, <2>a DEF Raises, Leave, StartupFails, Go
  <2>3. mine' \in [Tasks -> SUBSET Conns] /\ starting' \in BOOLEAN
    BY <1>r DEF Raises, Leave, StartupFails, Go
  <2> QED BY <2>2, <2>3
<1>9. ASSUME NEW t \in Tasks, Discard(t) PROVE TypeOK'
  BY <1>9, <1>s DEF Discard, shared
<1>10. ASSUME NEW t \in Tasks, DiscardLast(t) PROVE TypeOK'
  <2>1. CASE pc[t] = "skipping" /\ Go(t, "ready", {})
    BY <1>10, <2>1, <1>p, <1>s DEF DiscardLast, Go
  <2>2. CASE Raises(t)
    BY <1>10, <2>2, <1>r, <1>s DEF DiscardLast
  <2> QED BY <1>10, <2>1, <2>2 DEF DiscardLast
<1>11. ASSUME NEW t \in Tasks, Cancel(t) PROVE TypeOK'
  <2>1. CASE PingCancelled(t)
    BY <2>1, <1>p, <1>q DEF PingCancelled, Leave, shared
  <2>2. CASE QueueCancelled(t)
    <3>1. \A i \in DOMAIN queue :
            SubSeq(queue, 1, i - 1) \o SubSeq(queue, i + 1, Len(queue))
              \in Seq(Tasks)
      <4> SUFFICES ASSUME NEW i \in 1..Len(queue)
                   PROVE  SubSeq(queue, 1, i - 1)
                            \o SubSeq(queue, i + 1, Len(queue)) \in Seq(Tasks)
        BY LenProperties
      <4>1. Len(queue) \in Nat /\ \A j \in 1..Len(queue) : queue[j] \in Tasks
        BY LenProperties, ElementOfSeq
      <4>2. \A j \in 1 .. i - 1 : queue[j] \in Tasks
        BY <4>1
      <4>3. \A j \in i + 1 .. Len(queue) : queue[j] \in Tasks
        BY <4>1
      <4>4. SubSeq(queue, 1, i - 1) \in Seq(Tasks)
        <5>1. 1 \in Int /\ i - 1 \in Int BY <4>1
        <5> QED BY <5>1, <4>2, SubSeqProperties
      <4>5. SubSeq(queue, i + 1, Len(queue)) \in Seq(Tasks)
        <5>1. i + 1 \in Int /\ Len(queue) \in Int BY <4>1
        <5> QED BY <5>1, <4>3, SubSeqProperties
      <4> QED BY <4>4, <4>5, ConcatProperties
    <3> QED BY <2>2, <3>1, <1>p DEF QueueCancelled, shared
  <2>3. CASE WaitCancelled(t)
    BY <2>3, <1>p, <1>q DEF WaitCancelled, Leave, shared
  <2>4. CASE StartupCancelled(t)
    BY <2>4, <1>p DEF StartupCancelled, shared
  <2>5. CASE CollectCancelled(t)
    BY <2>5, <1>p, <1>q DEF CollectCancelled, StartupFails
  <2>6. CASE JoinCancelled(t)
    BY <2>6, <1>p DEF JoinCancelled, shared
  <2>7. CASE DiscardCancelled(t)
    BY <2>7, <1>r, <1>s DEF DiscardCancelled
  <2> QED BY <1>11, <2>1, <2>2, <2>3, <2>4, <2>5, <2>6, <2>7 DEF Cancel
<1>12. ASSUME StaleUse PROVE TypeOK'
  BY <1>12, <1>s DEF StaleUse, locals, shared
<1>13. ASSUME UNCHANGED vars PROVE TypeOK'
  BY <1>13 DEF vars
<1> QED BY <1>1, <1>2, <1>3, <1>4, <1>5, <1>6, <1>7, <1>8, <1>9, <1>10,
           <1>11, <1>12, <1>13 DEF Next

\* Every variable keeps its type (the sets, counters and flags of Pool.__init__).
THEOREM TypeCorrect == Spec => []TypeOK
<1> QED BY TypeInit, TypeStep, PTL DEF Spec

-----------------------------------------------------------------------------
(* What a step of one task does to the other tasks *)

Resting == {"queued", "waiting", "joining"}

\* The other tasks keep their connections; at most they are woken.
OthersCalm(t) ==
  \A u \in Tasks \ {t} :
    /\ mine'[u] = mine[u]
    /\ \/ pc'[u] = pc[u]
       \/ /\ pc[u] \in Resting
          /\ pc'[u] = IF pc[u] = "joining" THEN "joined" ELSE "ready"

\* A task that leaves the semaphore wakes at most the oldest waiter.
LEMMA HandoverFacts ==
  ASSUME TypeOK, QueuedOnce, NEW t \in Tasks, NEW place \in Places,
         pc[t] # "queued"
  PROVE  /\ Handover([pc EXCEPT ![t] = place])[t] = place
         /\ \A u \in Tasks \ {t} :
              \/ Handover([pc EXCEPT ![t] = place])[u] = pc[u]
              \/ /\ pc[u] = "queued"
                 /\ Handover([pc EXCEPT ![t] = place])[u] = "ready"
         /\ IsInjective(NextQueue)
         /\ \A i \in DOMAIN NextQueue :
              Handover([pc EXCEPT ![t] = place])[NextQueue[i]] = "queued"
<1> USE DEF TypeOK
<1>1. CASE queue = <<>>
  <2>1. DOMAIN queue = {}
    BY <1>1, EmptySeq, LenProperties
  <2> QED BY <1>1, <2>1 DEF Handover, NextQueue, IsInjective
<1>2. CASE queue # <<>>
  <2>1. /\ Head(queue) \in Tasks /\ Head(queue) \in Range(queue)
        /\ Tail(queue) \in Seq(Tasks)
        /\ Range(Tail(queue)) \subseteq Range(queue)
        /\ IsInjective(Tail(queue))
        /\ Head(queue) \notin Range(Tail(queue))
    BY <1>2, TailProperties DEF QueuedOnce
  <2>2. \A u \in Range(queue) : pc[u] = "queued"
    BY DEF QueuedOnce, Range
  <2>3. \A i \in DOMAIN Tail(queue) :
          /\ Tail(queue)[i] \in Range(Tail(queue))
          /\ Tail(queue)[i] \in Tasks
    BY <2>1, LenProperties DEF Range
  <2>4. Head(queue) # t
    BY <2>1, <2>2
  <2>5. Handover([pc EXCEPT ![t] = place])
          = [[pc EXCEPT ![t] = place] EXCEPT ![Head(queue)] = "ready"]
    BY <1>2 DEF Handover
  <2>6. NextQueue = Tail(queue)
    BY <1>2 DEF NextQueue
  <2>7. pc[Head(queue)] = "queued"
    BY <2>1, <2>2
  <2>8. \A i \in DOMAIN Tail(queue) :
          /\ Tail(queue)[i] # Head(queue)
          /\ Tail(queue)[i] # t
          /\ pc[Tail(queue)[i]] = "queued"
    BY <2>1, <2>2, <2>3
  <2>9. /\ Handover([pc EXCEPT ![t] = place])[t] = place
        /\ \A u \in Tasks \ {t} :
             Handover([pc EXCEPT ![t] = place])[u]
               = IF u = Head(queue) THEN "ready" ELSE pc[u]
    BY <2>1, <2>4, <2>5
  <2> QED BY <2>1, <2>3, <2>6, <2>7, <2>8, <2>9
<1> QED BY <1>1, <1>2

\* Every action of one task keeps the semaphore queue in order and disturbs the
\* other tasks only by waking them.
LEMMA StepFacts ==
  ASSUME TypeOK, QueuedOnce, Next
  PROVE  /\ QueuedOnce'
         /\ \/ \E t \in Tasks :
                 /\ OthersCalm(t)
                 /\ \/ Queue(t) \/ Acquire(t) \/ Checkout(t)
                    \/ Use(t) \/ Release(t)
                    \/ Startup(t) \/ StartupProceeds(t)
                    \/ Shutdown(t) \/ Discard(t) \/ DiscardLast(t)
                    \/ Cancel(t)
            \/ StaleUse
<1> USE DEF TypeOK
<1> DEFINE Shape(t) == QueuedOnce' /\ OthersCalm(t)
<1>p. "idle" \in Places
  BY DEF Places
<1>kept. ASSUME NEW t \in Tasks, pc[t] # "queued", queue' = queue,
                \A u \in Tasks \ {t} :
                  /\ mine'[u] = mine[u]
                  /\ \/ pc'[u] = pc[u]
                     \/ pc[u] = "waiting" /\ pc'[u] = "ready"
                     \/ pc[u] = "joining" /\ pc'[u] = "joined"
         PROVE  Shape(t)
  <2>1. \A i \in DOMAIN queue : queue[i] \in Tasks
    BY LenProperties
  <2>2. OthersCalm(t)
    BY <1>kept DEF OthersCalm, Resting
  <2>3. QueuedOnce'
    <3>1. \A i \in DOMAIN queue : queue[i] # t /\ pc[queue[i]] = "queued"
      BY <1>kept DEF QueuedOnce
    <3>2. \A i \in DOMAIN queue : pc'[queue[i]] = "queued"
      BY <1>kept, <2>1, <3>1
    <3> QED BY <1>kept, <3>2 DEF QueuedOnce, IsInjective
  <2> QED BY <2>2, <2>3
<1>left. ASSUME NEW t \in Tasks, pc[t] # "queued", queue' = NextQueue,
                mine' = [mine EXCEPT ![t] = {}],
                \/ pc' = Handover([pc EXCEPT ![t] = "idle"])
                \/ pc' = Notified(Handover([pc EXCEPT ![t] = "idle"]))
         PROVE  Shape(t)
  <2> DEFINE h == Handover([pc EXCEPT ![t] = "idle"])
  <2>1. /\ h[t] = "idle"
        /\ \A u \in Tasks \ {t} :
             h[u] = pc[u] \/ (pc[u] = "queued" /\ h[u] = "ready")
        /\ IsInjective(NextQueue)
        /\ \A i \in DOMAIN NextQueue : h[NextQueue[i]] = "queued"
    <3> HIDE DEF TypeOK
    <3>1. "idle" \in Places /\ pc[t] # "queued"
      BY <1>left, <1>p
    <3> QED BY <3>1, HandoverFacts
  <2>2. NextQueue \in Seq(Tasks)
    BY WakingTypes
  <2>3. \A i \in DOMAIN NextQueue : NextQueue[i] \in Tasks
    BY <2>2, LenProperties
  <2>4. \A u \in Tasks :
          pc'[u] = h[u] \/ (h[u] = "waiting" /\ pc'[u] = "ready")
    BY <1>left DEF Notified
  <2> HIDE DEF h
  <2>5. OthersCalm(t)
    BY <1>left, <2>1, <2>4 DEF OthersCalm, Resting
  <2>6. QueuedOnce'
    BY <1>left, <2>1, <2>3, <2>4 DEF QueuedOnce, IsInjective
  <2> QED BY <2>5, <2>6
<1>1. ASSUME NEW t \in Tasks, Queue(t) PROVE Shape(t)
  <2>1. /\ Append(queue, t) \in Seq(Tasks)
        /\ DOMAIN Append(queue, t) = 1 .. Len(queue) + 1
        /\ \A i \in 1 .. Len(queue) : Append(queue, t)[i] = queue[i]
        /\ Append(queue, t)[Len(queue) + 1] = t
        /\ DOMAIN queue = 1 .. Len(queue) /\ Len(queue) \in Nat
        /\ \A i \in 1 .. Len(queue) : queue[i] \in Tasks
    BY LenProperties
  <2>2. \A i \in 1 .. Len(queue) : queue[i] # t
    BY <1>1, <2>1 DEF Queue, QueuedOnce
  <2>3. queue' = Append(queue, t) /\ pc' = [pc EXCEPT ![t] = "queued"]
        /\ mine' = mine
    BY <1>1 DEF Queue
  <2>4. QueuedOnce'
    BY <2>1, <2>2, <2>3 DEF QueuedOnce, IsInjective
  <2> QED BY <2>3, <2>4 DEF OthersCalm
<1>2. ASSUME NEW t \in Tasks, Acquire(t) PROVE Shape(t)
  <2>1. pc[t] # "queued"
    BY <1>2 DEF Acquire, TakeFree, TakeForPing, SkipFree, Reserve, Wait, Refuse,
                Enters
  <2>2. CASE Refuse(t)
    BY <2>1, <2>2, <1>left DEF Refuse, Leave
  <2>3. CASE ~Refuse(t)
    BY <1>2, <2>1, <2>3, <1>kept
       DEF Acquire, TakeFree, TakeForPing, SkipFree, Reserve, Wait, Go, shared
  <2> QED BY <2>2, <2>3
<1>3. ASSUME NEW t \in Tasks, Checkout(t) PROVE Shape(t)
  <2>1. CASE CreateFailed(t)
    BY <2>1, <1>left DEF CreateFailed, LeaveNotifying
  <2>2. CASE ~CreateFailed(t)
    BY <1>3, <2>2, <1>kept
       DEF Checkout, Created, PingAnswered, PingFailed, Notified, shared
  <2> QED BY <2>1, <2>2
<1>4. ASSUME NEW t \in Tasks, Use(t) PROVE Shape(t)
  BY <1>4, <1>kept DEF Use, locals
<1>5. ASSUME NEW t \in Tasks, Release(t) PROVE Shape(t)
  <2>1. CASE ReleaseBroken(t)
    BY <2>1, <1>kept DEF ReleaseBroken
  <2>2. CASE ~ReleaseBroken(t)
    BY <1>5, <2>2, <1>left DEF Release, ReleaseFree, ReleaseForeign, Leave
  <2> QED BY <2>1, <2>2
<1>6. ASSUME NEW t \in Tasks, Startup(t) PROVE Shape(t)
  BY <1>6, <1>kept
     DEF Startup, StartupJoin, StartupBegin, StartupEmpty, StartupTooLarge, Go,
         locals
<1>give. ASSUME NEW t \in Tasks, pc[t] # "queued", GiveUpStartup(t)
         PROVE  Shape(t)
  BY <1>give, <1>kept DEF GiveUpStartup, StartupFails, StartupSet, Notified
<1>7. ASSUME NEW t \in Tasks, StartupProceeds(t) PROVE Shape(t)
  <2>1. CASE StartupDrop(t) \/ StartupCollected(t)
    BY <2>1, <1>give DEF StartupDrop, StartupCollected
  <2>2. CASE StartupKeep(t)
    BY <2>2, <1>kept DEF StartupKeep, StartupSet, Notified
  <2>3. CASE ChildEnds(t) \/ StartupAborted(t) \/ JoinEnds(t)
    BY <2>3, <1>kept DEF ChildEnds, StartupAborted, JoinEnds, locals, shared
  <2> QED BY <1>7, <2>1, <2>2, <2>3 DEF StartupProceeds
<1>8. ASSUME NEW t \in Tasks, Shutdown(t) PROVE Shape(t)
  BY <1>8, <1>kept DEF Shutdown, Notified
<1>raise. ASSUME NEW t \in Tasks, Raises(t) PROVE Shape(t)
  <2>1. CASE Leave(t) /\ pc[t] # "queued"
    BY <2>1, <1>left DEF Leave
  <2>2. CASE ~Leave(t)
    BY <1>raise, <2>2, <1>kept DEF Raises, StartupFails, StartupSet, Go
  <2> QED BY <1>raise, <2>1, <2>2 DEF Raises
<1>9. ASSUME NEW t \in Tasks, Discard(t) PROVE Shape(t)
  BY <1>9, <1>kept DEF Discard, Discarding
<1>10. ASSUME NEW t \in Tasks, DiscardLast(t) PROVE Shape(t)
  <2>1. CASE Raises(t)
    BY <2>1, <1>raise
  <2>2. CASE ~Raises(t)
    BY <1>10, <2>2, <1>kept DEF DiscardLast, Go
  <2> QED BY <2>1, <2>2
<1>11. ASSUME NEW t \in Tasks, Cancel(t) PROVE Shape(t)
  <2>1. CASE PingCancelled(t) \/ WaitCancelled(t)
    BY <2>1, <1>left DEF PingCancelled, WaitCancelled, Leave
  <2>2. CASE QueueCancelled(t)
    <3>1. PICK k \in DOMAIN queue :
            /\ queue[k] = t
            /\ queue' = SubSeq(queue, 1, k - 1)
                           \o SubSeq(queue, k + 1, Len(queue))
      BY <2>2 DEF QueueCancelled
    <3>2. k \in 1..Len(queue) /\ DOMAIN queue = 1..Len(queue)
      BY <3>1, LenProperties
    <3>3. /\ IsInjective(queue')
          /\ \A i \in DOMAIN queue' :
               \E j \in DOMAIN queue : j # k /\ queue'[i] = queue[j]
      <4>1. queue \in Seq(Tasks) /\ IsInjective(queue)
        BY DEF QueuedOnce
      <4> DEFINE r == SubSeq(queue, 1, k - 1) \o SubSeq(queue, k + 1, Len(queue))
      <4>2. /\ IsInjective(r)
            /\ \A i \in DOMAIN r : \E j \in DOMAIN queue : j # k /\ r[i] = queue[j]
        BY <3>2, <4>1, RemoveProperties
      <4>3. queue' = r
        BY <3>1
      <4> HIDE DEF r
      <4> QED BY <4>2, <4>3
    <3>4. \A j \in DOMAIN queue : queue[j] \in Tasks
      BY <3>2, LenProperties
    <3>5. \A j \in DOMAIN queue : j # k => queue[j] # t
      BY <3>1 DEF QueuedOnce, IsInjective
    <3>6. pc' = [pc EXCEPT ![t] = "idle"] /\ mine' = mine
      BY <2>2 DEF QueueCancelled
    <3>7. \A i \in DOMAIN queue' : pc'[queue'[i]] = "queued"
      BY <3>3, <3>4, <3>5, <3>6 DEF QueuedOnce
    <3>8. QueuedOnce'
      BY <3>3, <3>7 DEF QueuedOnce, IsInjective
    <3> QED BY <3>6, <3>8 DEF OthersCalm
  <2>3. CASE DiscardCancelled(t)
    BY <2>3, <1>raise DEF DiscardCancelled
  <2>4. CASE StartupCancelled(t) \/ CollectCancelled(t) \/ JoinCancelled(t)
    BY <2>4, <1>kept
       DEF StartupCancelled, CollectCancelled, JoinCancelled, StartupFails,
           StartupSet, shared
  <2> QED BY <1>11, <2>1, <2>2, <2>3, <2>4 DEF Cancel
<1>12. ASSUME StaleUse PROVE QueuedOnce'
  BY <1>12 DEF StaleUse, locals, QueuedOnce, IsInjective
<1> QED BY <1>1, <1>2, <1>3, <1>4, <1>5, <1>6, <1>7, <1>8, <1>9, <1>10, <1>11,
           <1>12 DEF Next

-----------------------------------------------------------------------------
(* Ownership *)

\* Steps by which a task keeps or lets go of connections.
LEMMA KeepsOrDrops ==
  ASSUME TypeOK, TypeOK', Ownership, NEW t \in Tasks, OthersCalm(t),
         mine'[t] \subseteq mine[t],
         acquired' \subseteq acquired,
         free' = free,
         pc'[t] \notin {"pinging", "using"} => mine'[t] \cap acquired' = {},
         pc'[t] \in {"creating", "pinging", "using"} =>
           \E c \in Conns : mine'[t] = {c},
         \A u \in Tasks \ {t} :
           mine'[t] \cap mine[u] # {} =>
             pc'[t] = pc[t] \/ (pc[t] \in Overtaken /\ pc'[t] \in Overtaken)
  PROVE  Ownership'
<1>1. \A u \in Tasks \ {t} :
        /\ mine'[u] = mine[u]
        /\ pc'[u] = pc[u] \/ (/\ pc[u] \in {"queued", "waiting", "joining"}
                              /\ pc'[u] \in {"ready", "joined"})
  BY DEF OthersCalm, Resting
<1>2. HoldsOne'
  BY <1>1 DEF HoldsOne, Ownership
<1>3. AcquiredHeld'
  BY <1>1 DEF AcquiredHeld, Ownership
<1>4. FreeIsUnshared'
  BY <1>1 DEF FreeIsUnshared, Ownership, IsInjective, Range
<1>5. HeldApart'
  <2> SUFFICES ASSUME NEW u \in Tasks, NEW v \in Tasks, u # v,
                      mine'[u] \cap mine'[v] # {}
               PROVE  \/ pc'[u] = "draining" /\ pc'[v] \in Overtaken
                      \/ pc'[v] = "draining" /\ pc'[u] \in Overtaken
    BY DEF HeldApart, Overtaken
  <2>1. mine[u] \cap mine[v] # {}
    BY <1>1
  <2>2. \/ pc[u] = "draining" /\ pc[v] \in Overtaken
        \/ pc[v] = "draining" /\ pc[u] \in Overtaken
    BY <2>1 DEF HeldApart, Ownership
  <2>3. \A w \in Tasks \ {t} :
          pc[w] = "draining" \/ pc[w] \in Overtaken => pc'[w] = pc[w]
    BY <1>1 DEF Overtaken
  <2>4. CASE u # t /\ v # t
    BY <2>2, <2>3, <2>4
  <2>5. CASE u = t
    BY <1>1, <2>2, <2>3, <2>5 DEF Overtaken
  <2>6. CASE v = t
    BY <1>1, <2>2, <2>3, <2>6 DEF Overtaken
  <2> QED BY <2>4, <2>5, <2>6
<1> QED BY <1>2, <1>3, <1>4, <1>5 DEF Ownership

\* Steps by which a task gets connections that no other task and no part of the
\* pool has: from the head of the deque, or newly created.
LEMMA GetsUnshared ==
  ASSUME TypeOK, TypeOK', Ownership, NEW t \in Tasks, OthersCalm(t),
         NEW got \in SUBSET Conns, mine'[t] = got,
         \A u \in Tasks \ {t} : mine[u] \cap got = {},
         acquired \cap got = {},
         acquired' = acquired \/ acquired' = acquired \cup got,
         pc[t] \notin {"draining"} \cup Overtaken,
         pc'[t] \notin {"pinging", "using"} => acquired' = acquired,
         pc'[t] \in {"creating", "pinging", "using"} =>
           \E c \in Conns : got = {c},
         IsInjective(free'),
         Range(free') \subseteq Range(free),
         Range(free') \cap got = {}
  PROVE  Ownership'
<1>1. \A u \in Tasks \ {t} :
        /\ mine'[u] = mine[u]
        /\ pc'[u] = pc[u] \/ (/\ pc[u] \in {"queued", "waiting", "joining"}
                              /\ pc'[u] \in {"ready", "joined"})
  BY DEF OthersCalm, Resting
<1>2. HoldsOne'
  BY <1>1 DEF HoldsOne, Ownership
<1>3. AcquiredHeld'
  BY <1>1 DEF AcquiredHeld, Ownership
<1>4. FreeIsUnshared'
  <2>1. Range(free') \cap acquired' = {}
    BY DEF FreeIsUnshared, Ownership
  <2>2. \A u \in Tasks : mine'[u] \cap Range(free') = {}
    BY <1>1 DEF FreeIsUnshared, Ownership
  <2> QED BY <2>1, <2>2 DEF FreeIsUnshared, IsInjective, Range
<1>5. HeldApart'
  <2> SUFFICES ASSUME NEW u \in Tasks, NEW v \in Tasks, u # v,
                      mine'[u] \cap mine'[v] # {}
               PROVE  \/ pc'[u] = "draining" /\ pc'[v] \in Overtaken
                      \/ pc'[v] = "draining" /\ pc'[u] \in Overtaken
    BY DEF HeldApart, Overtaken
  <2>1. u # t /\ v # t
    BY <1>1
  <2>2. \/ pc[u] = "draining" /\ pc[v] \in Overtaken
        \/ pc[v] = "draining" /\ pc[u] \in Overtaken
    BY <1>1, <2>1 DEF HeldApart, Ownership
  <2> QED BY <1>1, <2>1, <2>2 DEF Overtaken
<1> QED BY <1>2, <1>3, <1>4, <1>5 DEF Ownership

\* Steps by which a task gives connections that it alone has to the deque.
LEMMA GivesBack ==
  ASSUME TypeOK, TypeOK', Ownership, NEW t \in Tasks, OthersCalm(t),
         mine'[t] = {},
         \A u \in Tasks \ {t} : mine[u] \cap mine[t] = {},
         acquired' \subseteq acquired \ mine[t],
         pc'[t] = "idle",
         NEW back \in Seq(Conns), IsInjective(back),
         Range(back) \subseteq mine[t],
         free' = Pushed(free, back)
  PROVE  Ownership'
<1>1. \A u \in Tasks \ {t} :
        /\ mine'[u] = mine[u]
        /\ pc'[u] = pc[u] \/ (/\ pc[u] \in {"queued", "waiting", "joining"}
                              /\ pc'[u] \in {"ready", "joined"})
  BY DEF OthersCalm, Resting
<1>2. HoldsOne'
  BY <1>1 DEF HoldsOne, Ownership
<1>3. AcquiredHeld'
  BY <1>1 DEF AcquiredHeld, Ownership
<1>4. FreeIsUnshared'
  <2>1. free \in Seq(Conns) /\ IsInjective(free) /\ Range(free) \cap mine[t] = {}
    BY DEF FreeIsUnshared, Ownership, TypeOK
  <2>2. Range(free) \cap Range(back) = {}
    BY <2>1
  <2>3. /\ IsInjective(Pushed(free, back))
        /\ Range(Pushed(free, back)) \subseteq Range(free) \cup Range(back)
    BY <2>1, <2>2, PushedProperties
  <2>4. IsInjective(free') /\ Range(free') \subseteq Range(free) \cup mine[t]
    BY <2>3
  <2>5. Range(free') \cap acquired' = {}
    BY <2>4 DEF FreeIsUnshared, Ownership
  <2>6. \A u \in Tasks : mine'[u] \cap Range(free') = {}
    BY <1>1, <2>4 DEF FreeIsUnshared, Ownership
  <2> QED BY <2>4, <2>5, <2>6 DEF FreeIsUnshared, IsInjective, Range
<1>5. HeldApart'
  <2> SUFFICES ASSUME NEW u \in Tasks, NEW v \in Tasks, u # v,
                      mine'[u] \cap mine'[v] # {}
               PROVE  \/ pc'[u] = "draining" /\ pc'[v] \in Overtaken
                      \/ pc'[v] = "draining" /\ pc'[u] \in Overtaken
    BY DEF HeldApart, Overtaken
  <2>1. u # t /\ v # t
    BY <1>1
  <2>2. \/ pc[u] = "draining" /\ pc[v] \in Overtaken
        \/ pc[v] = "draining" /\ pc[u] \in Overtaken
    BY <1>1, <2>1 DEF HeldApart, Ownership
  <2> QED BY <1>1, <2>1, <2>2 DEF Overtaken
<1> QED BY <1>2, <1>3, <1>4, <1>5 DEF Ownership

\* What no reference leads to is in no part of the pool and no task's locals.
LEMMA FreshIsUnshared ==
  ASSUME NEW got \in SUBSET Fresh
  PROVE  /\ got \in SUBSET Conns
         /\ acquired \cap got = {} /\ Range(free) \cap got = {}
         /\ \A u \in Tasks : mine[u] \cap got = {}
<1> QED BY DEF Fresh, Referenced

\* Only shutdown() closes the pool, which then owns nothing until a startup.
LEMMA ClosedStep ==
  ASSUME TypeOK, ClosedIsEmpty, [Next]_vars
  PROVE  ClosedIsEmpty'
<1> USE DEF ClosedIsEmpty
<1>same. ASSUME UNCHANGED <<acquired, free, opened, closed>> PROVE ClosedIsEmpty'
  BY <1>same
<1>1. ASSUME NEW t \in Tasks, Acquire(t) PROVE ClosedIsEmpty'
  <2>1. CASE free # <<>>
    BY <1>1, <2>1 DEF Acquire, TakeFree, TakeForPing, SkipFree, Reserve, Wait,
                      Refuse, PopFree
  <2>2. CASE free = <<>>
    BY <1>1, <2>2, <1>same DEF Acquire, TakeFree, TakeForPing, SkipFree, Reserve,
                               Wait, Refuse, shared
  <2> QED BY <2>1, <2>2
<1>2. ASSUME NEW t \in Tasks, Checkout(t) PROVE ClosedIsEmpty'
  BY <1>2 DEF Checkout, Current, Created, CreateFailed, PingAnswered, PingFailed, shared
<1>3. ASSUME NEW t \in Tasks, Release(t) PROVE ClosedIsEmpty'
  BY <1>3 DEF Release, ReleaseFree, ReleaseBroken, ReleaseForeign, shared
<1>4. ASSUME NEW t \in Tasks, Startup(t) PROVE ClosedIsEmpty'
  BY <1>4 DEF Startup, StartupJoin, StartupBegin, StartupEmpty, StartupTooLarge
<1>5. ASSUME NEW t \in Tasks, StartupProceeds(t) PROVE ClosedIsEmpty'
  BY <1>5 DEF StartupProceeds, Current, ChildEnds, StartupKeep, StartupDrop,
              StartupAborted, StartupCollected, GiveUpStartup, JoinEnds, shared
<1>6. ASSUME NEW t \in Tasks, Shutdown(t) PROVE ClosedIsEmpty'
  BY <1>6 DEF Shutdown
<1>7. ASSUME NEW t \in Tasks, Queue(t) \/ Use(t) PROVE ClosedIsEmpty'
  BY <1>7, <1>same DEF Queue, Use, shared
<1>8. ASSUME NEW t \in Tasks, Discard(t) \/ DiscardLast(t) PROVE ClosedIsEmpty'
  BY <1>8, <1>same DEF Discard, DiscardLast, shared
<1>9. ASSUME NEW t \in Tasks, Cancel(t) PROVE ClosedIsEmpty'
  BY <1>9, <1>same DEF Cancel, PingCancelled, QueueCancelled, WaitCancelled,
     StartupCancelled, CollectCancelled, JoinCancelled, DiscardCancelled, shared
<1>10. ASSUME StaleUse \/ UNCHANGED vars PROVE ClosedIsEmpty'
  BY <1>10, <1>same DEF StaleUse, shared, vars
<1> QED BY <1>1, <1>2, <1>3, <1>4, <1>5, <1>6, <1>7, <1>8, <1>9, <1>10 DEF Next

\* A task pings after it took an idle connection, and a connection enters the
\* acquired set only for the task that took or created it.
LEMMA PingStep ==
  ASSUME TypeOK, QueuedOnce, Ownership, PingTickets, [Next]_vars
  PROVE  PingTickets'
<1>t. /\ pc \in [Tasks -> Places] /\ mine \in [Tasks -> SUBSET Conns]
      /\ ticket \in [Tasks -> Nat]
  BY DEF TypeOK
<1>same. ASSUME generation' = generation, acquired' \subseteq acquired,
                \A u \in Tasks :
                  pc'[u] = "pinging" => /\ pc[u] = "pinging"
                                        /\ mine'[u] = mine[u]
                                        /\ ticket'[u] = ticket[u]
         PROVE  PingTickets'
  BY <1>same DEF PingTickets
<1>wake. \A p \in [Tasks -> Places], u \in Tasks :
           /\ Handover(p)[u] = p[u] \/ Handover(p)[u] = "ready"
           /\ Notified(p)[u] = p[u] \/ Notified(p)[u] = "ready"
           /\ StartupSet(p)[u] = p[u] \/ StartupSet(p)[u] = "joined"
  BY DEF Handover, Notified, StartupSet
<1>left. ASSUME NEW t \in Tasks, NEW u \in Tasks,
                Leave(t) \/ LeaveNotifying(t), pc'[u] = "pinging"
         PROVE  pc[u] = "pinging" /\ mine'[u] = mine[u]
  <2>1. [pc EXCEPT ![t] = "idle"] \in [Tasks -> Places]
    BY <1>t DEF Places
  <2>2. Handover([pc EXCEPT ![t] = "idle"])[u] = "pinging"
    BY <1>left, <2>1 DEF Leave, LeaveNotifying, Notified
  <2>3. [pc EXCEPT ![t] = "idle"][u] = "pinging"
    BY <1>wake, <2>1, <2>2
  <2> QED BY <1>left, <1>t, <2>3 DEF Leave, LeaveNotifying
<1>1. ASSUME NEW t \in Tasks, Queue(t) \/ Use(t) PROVE PingTickets'
  BY <1>1, <1>t, <1>same DEF Queue, Use, locals, shared
<1>grow. ASSUME NEW t \in Tasks, OthersCalm(t),
                generation' = generation,
                \A u \in Tasks \ {t} : ticket'[u] = ticket[u],
                NEW got \in SUBSET Conns,
                \A u \in Tasks \ {t} : mine[u] \cap got = {},
                acquired' \subseteq acquired \cup got,
                pc'[t] = "pinging" => ticket'[t] = generation
         PROVE  PingTickets'
  BY <1>grow DEF PingTickets, OthersCalm
<1>2. ASSUME NEW t \in Tasks, OthersCalm(t), Acquire(t) PROVE PingTickets'
  <2>1. CASE TakeFree(t) \/ TakeForPing(t)
    <3> DEFINE got == {Head(free)}
    <3>1. /\ free # <<>> /\ generation' = generation
          /\ acquired' = acquired \cup got
          /\ \A u \in Tasks \ {t} : ticket'[u] = ticket[u]
          /\ pc'[t] = "pinging" => ticket'[t] = generation
      BY <2>1, <1>t DEF TakeFree, TakeForPing, Go
    <3>2. free \in Seq(Conns) /\ Head(free) \in Conns /\ Head(free) \in Range(free)
      BY <3>1, TailProperties DEF TypeOK
    <3>3. got \in SUBSET Conns /\ \A u \in Tasks : mine[u] \cap got = {}
      BY <3>2 DEF Ownership, FreeIsUnshared
    <3> HIDE DEF got
    <3> QED BY <1>2, <3>1, <3>3, <1>grow
  <2>2. CASE SkipFree(t) \/ Reserve(t) \/ Wait(t)
    BY <2>2, <1>t, <1>same DEF SkipFree, Reserve, Wait, Go, shared
  <2>3. CASE Refuse(t)
    <3>1. Leave(t) /\ ticket' = ticket /\ acquired' = acquired
          /\ generation' = generation
      BY <2>3 DEF Refuse, shared
    <3> QED BY <3>1, <1>left, <1>same
  <2> QED BY <1>2, <2>1, <2>2, <2>3 DEF Acquire
<1>3. ASSUME NEW t \in Tasks, OthersCalm(t), Checkout(t) PROVE PingTickets'
  <2>1. CASE Created(t)
    <3>1. /\ generation' = generation /\ ticket' = ticket
          /\ acquired' \subseteq acquired \cup mine[t]
          /\ pc[t] = "creating" /\ pc'[t] # "pinging"
      BY <2>1, <1>t DEF Created, Notified
    <3>2. \A u \in Tasks \ {t} : mine[u] \cap mine[t] = {}
      BY <3>1 DEF Ownership, HeldApart, Overtaken
    <3>3. mine[t] \in SUBSET Conns
      BY <1>t
    <3> QED BY <1>3, <3>1, <3>2, <3>3, <1>grow
  <2>2. CASE CreateFailed(t)
    <3>1. LeaveNotifying(t) /\ ticket' = ticket /\ acquired' = acquired
          /\ generation' = generation
      BY <2>2 DEF CreateFailed
    <3> QED BY <3>1, <1>left, <1>same
  <2>3. CASE PingAnswered(t) \/ PingFailed(t)
    BY <2>3, <1>t, <1>same DEF PingAnswered, PingFailed, shared
  <2> QED BY <1>3, <2>1, <2>2, <2>3 DEF Checkout
<1>4. ASSUME NEW t \in Tasks, Release(t) PROVE PingTickets'
  <2>1. CASE ReleaseFree(t) \/ ReleaseForeign(t)
    <3>1. Leave(t) /\ ticket' = ticket /\ acquired' \subseteq acquired
          /\ generation' = generation
      BY <2>1 DEF ReleaseFree, ReleaseForeign, shared
    <3> QED BY <3>1, <1>left, <1>same
  <2>2. CASE ReleaseBroken(t)
    BY <2>2, <1>t, <1>same DEF ReleaseBroken
  <2> QED BY <1>4, <2>1, <2>2 DEF Release
<1>5. ASSUME NEW t \in Tasks, Startup(t) PROVE PingTickets'
  BY <1>5, <1>t, <1>same DEF Startup, StartupJoin, StartupBegin, StartupEmpty,
                             StartupTooLarge, Go, locals
<1>6. ASSUME NEW t \in Tasks, StartupProceeds(t) PROVE PingTickets'
  <2>1. CASE StartupDrop(t) \/ StartupCollected(t)
    BY <2>1, <1>t, <1>same DEF StartupDrop, StartupCollected, GiveUpStartup,
                               StartupFails, StartupSet, Notified
  <2>2. CASE StartupKeep(t)
    BY <2>2, <1>t, <1>same DEF StartupKeep, StartupSet, Notified
  <2>3. CASE ChildEnds(t) \/ StartupAborted(t) \/ JoinEnds(t)
    BY <2>3, <1>t, <1>same DEF ChildEnds, StartupAborted, JoinEnds, locals, shared
  <2> QED BY <1>6, <2>1, <2>2, <2>3 DEF StartupProceeds
<1>7. ASSUME NEW t \in Tasks, Shutdown(t) PROVE PingTickets'
  BY <1>7 DEF Shutdown, PingTickets
<1>raise. ASSUME NEW t \in Tasks, Raises(t), ticket' = ticket,
                 acquired' = acquired, generation' = generation
          PROVE  PingTickets'
  <2>1. CASE Leave(t)
    BY <1>raise, <2>1, <1>left, <1>same
  <2>2. CASE ~Leave(t)
    BY <1>raise, <2>2, <1>t, <1>same DEF Raises, StartupFails, StartupSet, Go
  <2> QED BY <2>1, <2>2
<1>8. ASSUME NEW t \in Tasks, Discard(t) \/ DiscardLast(t) PROVE PingTickets'
  <2>1. CASE Discard(t)
    BY <2>1, <1>t, <1>same DEF Discard, Discarding, shared
  <2>2. CASE DiscardLast(t) /\ Raises(t)
    BY <2>2, <1>raise DEF DiscardLast
  <2>3. CASE DiscardLast(t) /\ ~Raises(t)
    BY <2>3, <1>t, <1>same DEF DiscardLast, Go
  <2> QED BY <1>8, <2>1, <2>2, <2>3
<1>9. ASSUME NEW t \in Tasks, Cancel(t) PROVE PingTickets'
  <2>1. CASE PingCancelled(t) \/ WaitCancelled(t)
    <3>1. Leave(t) /\ ticket' = ticket /\ acquired' = acquired
          /\ generation' = generation
      BY <2>1 DEF PingCancelled, WaitCancelled, shared
    <3> QED BY <3>1, <1>left, <1>same
  <2>2. CASE DiscardCancelled(t)
    BY <2>2, <1>raise DEF DiscardCancelled
  <2>3. CASE QueueCancelled(t) \/ StartupCancelled(t) \/ CollectCancelled(t)
               \/ JoinCancelled(t)
    BY <2>3, <1>t, <1>same DEF QueueCancelled, StartupCancelled, CollectCancelled,
                           JoinCancelled, StartupFails, StartupSet, shared
  <2> QED BY <1>9, <2>1, <2>2, <2>3 DEF Cancel
<1>10. ASSUME StaleUse \/ UNCHANGED vars PROVE PingTickets'
  BY <1>10, <1>same DEF StaleUse, locals, shared, vars
<1>11. CASE Next
  BY <1>11, StepFacts, <1>1, <1>2, <1>3, <1>4, <1>5, <1>6, <1>7, <1>8, <1>9, <1>10
<1> QED BY <1>10, <1>11

\* No interleaving of borrowers, startups, shutdowns and cancellations makes two
\* owners of one connection.
LEMMA OwnershipStep ==
  ASSUME TypeOK, TypeOK', QueuedOnce, ClosedIsEmpty, PingTickets, Ownership,
         [Next]_vars
  PROVE  Ownership'
<1>same. ASSUME UNCHANGED <<pc, mine, acquired, free>> PROVE Ownership'
  BY <1>same DEF Ownership, HoldsOne, AcquiredHeld, HeldApart, FreeIsUnshared,
                 Overtaken, IsInjective, Range
<1>t. pc \in [Tasks -> Places] /\ mine \in [Tasks -> SUBSET Conns]
  BY DEF TypeOK
<1>leave. ASSUME NEW t \in Tasks, pc[t] # "queued", OthersCalm(t),
                 Leave(t) \/ LeaveNotifying(t)
          PROVE  pc'[t] = "idle" /\ mine'[t] = {}
  <2>1. Handover([pc EXCEPT ![t] = "idle"])[t] = "idle"
    <3>1. "idle" \in Places
      BY DEF Places
    <3> QED BY <1>leave, <3>1, HandoverFacts
  <2>2. pc'[t] = "idle"
    BY <1>leave, <2>1 DEF Leave, LeaveNotifying, Notified
  <2> QED BY <1>leave, <1>t, <2>2 DEF Leave, LeaveNotifying
<1>drop. ASSUME NEW t \in Tasks, OthersCalm(t), mine'[t] = {}, pc'[t] = "idle",
                acquired' \subseteq acquired, free' = free
         PROVE  Ownership'
  BY <1>drop, KeepsOrDrops
<1>1. ASSUME NEW t \in Tasks, OthersCalm(t), Queue(t) PROVE Ownership'
  BY <1>1, KeepsOrDrops DEF Queue, shared, TypeOK, Ownership, AcquiredHeld,
                            HeldApart, Overtaken
<1> DEFINE head == Head(free)
<1>head. ASSUME free # <<>>
         PROVE  /\ {head} \in SUBSET Conns
                /\ IsInjective(Tail(free)) /\ Range(Tail(free)) \subseteq Range(free)
                /\ Range(Tail(free)) \cap {head} = {}
                /\ acquired \cap {head} = {}
                /\ \A u \in Tasks : mine[u] \cap {head} = {}
  <2>1. free \in Seq(Conns) /\ IsInjective(free)
    BY DEF TypeOK, Ownership, FreeIsUnshared
  <2>2. /\ head \in Conns /\ head \in Range(free)
        /\ Range(Tail(free)) \subseteq Range(free)
        /\ IsInjective(Tail(free))
        /\ head \notin Range(Tail(free))
    BY <1>head, <2>1, TailProperties
  <2> HIDE DEF head
  <2> QED BY <2>2 DEF Ownership, FreeIsUnshared
<1>take. ASSUME NEW t \in Tasks, OthersCalm(t), Enters(t), free # <<>>,
                free' = Tail(free), mine'[t] = {head},
                \/ acquired' = acquired
                \/ acquired' = acquired \cup {head} /\ pc'[t] \in {"using", "pinging"},
                pc'[t] # "creating",
                pc'[t] \in {"using", "pinging"} => acquired' = acquired \cup {head}
         PROVE  Ownership'
  <2> DEFINE got == {head}
  <2>1. /\ got \in SUBSET Conns
        /\ IsInjective(Tail(free)) /\ Range(Tail(free)) \subseteq Range(free)
        /\ Range(Tail(free)) \cap got = {}
        /\ acquired \cap got = {}
        /\ \A u \in Tasks : mine[u] \cap got = {}
    BY <1>take, <1>head
  <2>2. \E c \in Conns : got = {c}
    BY <2>1
  <2>3. pc[t] \notin {"draining"} \cup Overtaken
    BY <1>take DEF Enters, Overtaken
  <2>4. mine'[t] = got /\ (acquired' = acquired \/ acquired' = acquired \cup got)
    BY <1>take
  <2> HIDE DEF got
  <2> QED BY <1>take, <2>1, <2>2, <2>3, <2>4, GetsUnshared
<1> HIDE DEF head
<1>2. ASSUME NEW t \in Tasks, OthersCalm(t), Acquire(t) PROVE Ownership'
  <2>t. mine'[t] \subseteq Conns /\ pc \in [Tasks -> Places]
        /\ mine \in [Tasks -> SUBSET Conns]
    BY DEF TypeOK
  <2>1. CASE TakeFree(t)
    BY <1>2, <2>1, <2>t, <1>take DEF TakeFree, PopFree, Go, head
  <2>2. CASE TakeForPing(t)
    BY <1>2, <2>2, <2>t, <1>take DEF TakeForPing, PopFree, Go, head
  <2>3. CASE SkipFree(t)
    BY <1>2, <2>3, <2>t, <1>take DEF SkipFree, PopFree, Go, head
  <2>4. CASE Reserve(t)
    <3>1. PICK c \in Fresh : Go(t, "creating", {c})
      BY <2>4 DEF Reserve
    <3> DEFINE got == {c}
    <3>2. got \in SUBSET Fresh
      OBVIOUS
    <3>3. /\ got \in SUBSET Conns
          /\ acquired \cap got = {} /\ Range(free) \cap got = {}
          /\ \A u \in Tasks : mine[u] \cap got = {}
      BY <3>2, FreshIsUnshared
    <3>4. pc'[t] = "creating" /\ mine'[t] = got
      BY <3>1, <2>t DEF Go
    <3>5. acquired' = acquired /\ free' = free
      BY <2>4 DEF Reserve
    <3>6. pc[t] \notin {"draining"} \cup Overtaken
      BY <2>4 DEF Reserve, Enters, Overtaken
    <3>7. \E d \in Conns : got = {d}
      BY <3>3
    <3>8. IsInjective(free)
      BY DEF Ownership, FreeIsUnshared
    <3> HIDE DEF got
    <3> QED BY <1>2, <3>3, <3>4, <3>5, <3>6, <3>7, <3>8, GetsUnshared
  <2>5. CASE Wait(t)
    BY <1>2, <2>5, <2>t, KeepsOrDrops DEF Wait, Go, shared
  <2>6. CASE Refuse(t)
    BY <1>2, <2>6, <1>leave, <1>drop DEF Refuse, Enters, shared
  <2> QED BY <1>2, <2>1, <2>2, <2>3, <2>4, <2>5, <2>6 DEF Acquire
\* A checked-out connection that is still acquired is its borrower's alone.
<1>alone. ASSUME NEW t \in Tasks, mine[t] \subseteq acquired
          PROVE  \A u \in Tasks \ {t} :
                   pc[u] \notin {"pinging", "using"} => mine[u] \cap mine[t] = {}
  BY <1>alone DEF Ownership, AcquiredHeld
<1>apart. ASSUME NEW t \in Tasks, pc[t] = "using", mine[t] \subseteq acquired
          PROVE  \A u \in Tasks \ {t} : mine[u] \cap mine[t] = {}
  BY <1>alone, <1>apart DEF Ownership, HeldApart, Overtaken
<1>3. ASSUME NEW t \in Tasks, OthersCalm(t), Checkout(t) PROVE Ownership'
  <2>1. CASE Created(t)
    <3>1. /\ mine' = mine /\ free' = free
          /\ \/ acquired' = acquired \cup mine[t] /\ pc'[t] = "using"
             \/ acquired' = acquired /\ pc'[t] = "refusing"
      BY <2>1, <1>t DEF Created, Notified
    <3>2. pc[t] = "creating" /\ \E c \in Conns : mine[t] = {c}
      BY <2>1 DEF Created, Ownership, HoldsOne
    <3>3. \A u \in Tasks \ {t} : mine[u] \cap mine[t] = {}
      BY <3>2 DEF Ownership, HeldApart, Overtaken
    <3>4. acquired \cap mine[t] = {} /\ Range(free) \cap mine[t] = {}
      BY <3>2 DEF Ownership, AcquiredHeld, FreeIsUnshared
    <3>5. pc[t] \notin {"draining"} \cup Overtaken
      BY <3>2 DEF Overtaken
    <3>6. mine[t] \in SUBSET Conns /\ IsInjective(free)
      BY <1>t DEF Ownership, FreeIsUnshared
    <3> QED BY <1>3, <3>1, <3>2, <3>3, <3>4, <3>5, <3>6, GetsUnshared
  <2>2. CASE CreateFailed(t)
    BY <2>2, <1>3, <1>leave, <1>drop DEF CreateFailed
  <2>3. CASE PingAnswered(t)
    <3>1. /\ mine' = mine /\ free' = free /\ acquired' = acquired
          /\ pc[t] = "pinging"
          /\ pc'[t] = "using" \/ pc'[t] = "refusing"
          /\ pc'[t] = "using" \/ ~(ticket[t] = generation /\ ~closed
                                    /\ mine[t] \subseteq acquired)
      BY <2>3, <1>t DEF PingAnswered, Current, shared
    <3>2. CASE pc'[t] = "using"
      <4>1. \E c \in Conns : mine'[t] = {c}
        BY <3>1 DEF Ownership, HoldsOne
      <4> QED BY <1>3, <3>1, <3>2, <4>1, KeepsOrDrops DEF Overtaken
    <3>3. CASE pc'[t] = "refusing"
      <4>1. ~(ticket[t] = generation /\ ~closed /\ mine[t] \subseteq acquired)
        BY <3>1, <3>3
      <4>2. PICK c \in Conns : mine[t] = {c}
        BY <3>1 DEF Ownership, HoldsOne
      <4>3. mine[t] \cap acquired = {}
        BY <3>1, <4>1, <4>2 DEF PingTickets, ClosedIsEmpty
      <4> QED BY <1>3, <3>1, <3>3, <4>3, KeepsOrDrops DEF Overtaken
    <3> QED BY <3>1, <3>2, <3>3
  <2>4. CASE PingFailed(t)
    <3>1. /\ mine' = mine /\ free' = free /\ acquired' = acquired \ mine[t]
          /\ pc[t] = "pinging" /\ pc'[t] = "skipping"
      BY <2>4, <1>t DEF PingFailed
    <3> QED BY <1>3, <3>1, KeepsOrDrops DEF Overtaken
  <2> QED BY <1>3, <2>1, <2>2, <2>3, <2>4 DEF Checkout
<1>4. ASSUME NEW t \in Tasks, Use(t) PROVE Ownership'
  BY <1>4, <1>same DEF Use, locals, shared
<1>5. ASSUME NEW t \in Tasks, OthersCalm(t), Release(t) PROVE Ownership'
  <2>1. CASE ReleaseFree(t)
    <3>1. PICK c \in mine[t] : free' = Pushed(free, <<c>>)
      BY <2>1 DEF ReleaseFree
    <3>2. <<c>> \in Seq(Conns) /\ IsInjective(<<c>>) /\ Range(<<c>>) \subseteq mine[t]
      BY <1>t, <3>1 DEF IsInjective, Range
    <3>3. pc'[t] = "idle" /\ mine'[t] = {}
      BY <1>5, <2>1, <1>leave DEF ReleaseFree
    <3>4. acquired' \subseteq acquired \ mine[t]
      BY <2>1 DEF ReleaseFree
    <3>5. \A u \in Tasks \ {t} : mine[u] \cap mine[t] = {}
      BY <2>1, <1>apart DEF ReleaseFree
    <3> QED BY <1>5, <3>1, <3>2, <3>3, <3>4, <3>5, GivesBack
  <2>2. CASE ReleaseBroken(t)
    <3>1. \A u \in Tasks \ {t} : mine[u] \cap mine[t] = {}
      BY <2>2, <1>apart DEF ReleaseBroken
    <3>2. /\ mine' = mine /\ free' = free /\ acquired' = acquired \ mine[t]
          /\ pc'[t] = "retiring"
      BY <2>2, <1>t DEF ReleaseBroken
    <3> QED BY <1>5, <3>1, <3>2, KeepsOrDrops
  <2>3. CASE ReleaseForeign(t)
    BY <1>5, <2>3, <1>leave, <1>drop DEF ReleaseForeign, shared
  <2> QED BY <1>5, <2>1, <2>2, <2>3 DEF Release
<1>6. ASSUME NEW t \in Tasks, OthersCalm(t), Startup(t) PROVE Ownership'
  <2>1. CASE StartupJoin(t)
    <3>1. /\ mine' = mine /\ free' = free /\ acquired' = acquired
          /\ pc[t] = "idle" /\ pc'[t] = "joining"
      BY <2>1, <1>t DEF StartupJoin
    <3> QED BY <1>6, <3>1, KeepsOrDrops DEF Ownership, AcquiredHeld, HeldApart,
                                           Overtaken
  <2>2. CASE StartupBegin(t)
    <3>1. PICK got \in SUBSET Fresh : Go(t, "starting", got)
      BY <2>2 DEF StartupBegin
    <3>2. /\ got \in SUBSET Conns
          /\ acquired \cap got = {} /\ Range(free) \cap got = {}
          /\ \A u \in Tasks : mine[u] \cap got = {}
      BY FreshIsUnshared
    <3>3. pc'[t] = "starting" /\ mine'[t] = got
      BY <3>1, <1>t DEF Go
    <3>4. acquired' = acquired /\ free' = free
      BY <2>2 DEF StartupBegin
    <3>5. pc[t] \notin {"draining"} \cup Overtaken
      BY <2>2 DEF StartupBegin, Overtaken
    <3>6. IsInjective(free)
      BY DEF Ownership, FreeIsUnshared
    <3> QED BY <1>6, <3>2, <3>3, <3>4, <3>5, <3>6, GetsUnshared
  <2>3. CASE StartupEmpty(t) \/ StartupTooLarge(t)
    BY <2>3, <1>same DEF StartupEmpty, StartupTooLarge, locals
  <2> QED BY <1>6, <2>1, <2>2, <2>3 DEF Startup
\* A startup's connections are its own until it has put them in the deque.
<1>own. ASSUME NEW t \in Tasks, pc[t] \in Founding
        PROVE  /\ \A u \in Tasks \ {t} : mine[u] \cap mine[t] = {}
               /\ mine[t] \cap acquired = {}
  BY <1>own DEF Ownership, HeldApart, AcquiredHeld, Overtaken, Founding
<1>give. ASSUME NEW t \in Tasks, OthersCalm(t), pc[t] \in Founding,
                GiveUpStartup(t)
         PROVE  Ownership'
  <2>1. /\ acquired' = acquired /\ free' = free
        /\ mine'[t] \subseteq mine[t]
        /\ pc'[t] = "idle" \/ pc'[t] = "unwinding"
    BY <1>give, <1>t DEF GiveUpStartup, StartupFails, StartupSet, Notified,
                         Survivors
  <2> QED BY <1>give, <1>own, <2>1, KeepsOrDrops
<1>7. ASSUME NEW t \in Tasks, OthersCalm(t), StartupProceeds(t) PROVE Ownership'
  <2>1. CASE ChildEnds(t)
    BY <2>1, <1>same DEF ChildEnds, locals, shared
  <2>2. CASE StartupKeep(t)
    <3>1. PICK order \in [1..MinSize -> mine[t]] :
            IsInjective(order) /\ free' = Pushed(free, order)
      BY <2>2 DEF StartupKeep
    <3>2. order \in Seq(Conns) /\ Range(order) \subseteq mine[t]
      BY <1>t, <3>1, SizeAssumption DEF Range
    <3>3. pc'[t] = "idle" /\ mine'[t] = {} /\ acquired' = acquired
      BY <2>2, <1>t DEF StartupKeep, StartupSet, Notified
    <3>4. /\ \A u \in Tasks \ {t} : mine[u] \cap mine[t] = {}
          /\ acquired' \subseteq acquired \ mine[t]
      BY <2>2, <3>3, <1>own DEF StartupKeep, Founding
    <3> QED BY <1>7, <3>1, <3>2, <3>3, <3>4, GivesBack
  <2>3. CASE StartupDrop(t) \/ StartupCollected(t)
    BY <1>7, <2>3, <1>give DEF StartupDrop, StartupCollected, Founding
  <2>4. CASE StartupAborted(t)
    <3>1. /\ mine' = mine /\ free' = free /\ acquired' = acquired
          /\ pc[t] \in Founding /\ pc'[t] = "collecting"
      BY <2>4, <1>t DEF StartupAborted, shared, Founding
    <3> QED BY <1>7, <3>1, <1>own, KeepsOrDrops
  <2>5. CASE JoinEnds(t)
    <3>1. /\ mine' = mine /\ free' = free /\ acquired' = acquired
          /\ pc[t] = "joined" /\ pc'[t] = "idle"
      BY <2>5, <1>t DEF JoinEnds, shared
    <3> QED BY <1>7, <3>1, KeepsOrDrops DEF Ownership, AcquiredHeld, HeldApart,
                                           Overtaken
  <2> QED BY <1>7, <2>1, <2>2, <2>3, <2>4, <2>5 DEF StartupProceeds
<1>8. ASSUME NEW t \in Tasks, OthersCalm(t), Shutdown(t) PROVE Ownership'
  <2>1. /\ acquired' = {} /\ free' = <<>>
        /\ mine'[t] = acquired \cup Range(free)
        /\ pc[t] = "idle"
        /\ pc'[t] = IF mine'[t] = {} THEN "idle" ELSE "draining"
    BY <1>8, <1>t DEF Shutdown, Notified
  <2>2. Range(free') = {} /\ IsInjective(free')
    <3>1. DOMAIN <<>> = {}
      OBVIOUS
    <3> QED BY <2>1, <3>1 DEF Range, IsInjective
  <2>3. \A u \in Tasks \ {t} :
          /\ mine'[u] = mine[u]
          /\ pc'[u] = pc[u] \/ (/\ pc[u] \in {"queued", "waiting", "joining"}
                                /\ pc'[u] \in {"ready", "joined"})
    BY <1>8 DEF OthersCalm, Resting
  <2>4. \A u \in Tasks \ {t} :
          mine'[u] \cap mine'[t] # {} => pc'[u] \in {"pinging", "using"}
    BY <2>1, <2>3 DEF Ownership, AcquiredHeld, FreeIsUnshared
  <2>5. HoldsOne'
    BY <2>1, <2>3 DEF HoldsOne, Ownership
  <2>6. AcquiredHeld' /\ FreeIsUnshared'
    BY <2>1, <2>2 DEF AcquiredHeld, FreeIsUnshared, IsInjective, Range
  <2>7. HeldApart'
    <3> SUFFICES ASSUME NEW u \in Tasks, NEW v \in Tasks, u # v,
                        mine'[u] \cap mine'[v] # {}
                 PROVE  \/ pc'[u] = "draining" /\ pc'[v] \in Overtaken
                        \/ pc'[v] = "draining" /\ pc'[u] \in Overtaken
      BY DEF HeldApart, Overtaken
    <3>1. CASE u = t
      BY <2>1, <2>4, <3>1 DEF Overtaken
    <3>2. CASE v = t
      BY <2>1, <2>4, <3>2 DEF Overtaken
    <3>3. CASE u # t /\ v # t
      <4>1. \/ pc[u] = "draining" /\ pc[v] \in Overtaken
            \/ pc[v] = "draining" /\ pc[u] \in Overtaken
        BY <2>3, <3>3 DEF HeldApart, Ownership
      <4> QED BY <2>3, <3>3, <4>1 DEF Overtaken
    <3> QED BY <3>1, <3>2, <3>3
  <2> QED BY <2>5, <2>6, <2>7 DEF Ownership
<1>raise. ASSUME NEW t \in Tasks, OthersCalm(t), Raises(t),
                 acquired' = acquired, free' = free
          PROVE  Ownership'
  <2>1. pc'[t] = "idle" /\ mine'[t] = {}
    <3>1. CASE Leave(t) /\ pc[t] \in {"skipping", "refusing", "retiring"}
      BY <1>raise, <3>1, <1>leave
    <3>2. CASE ~Leave(t)
      BY <1>raise, <3>2, <1>t DEF Raises, StartupFails, StartupSet, Go
    <3> QED BY <1>raise, <3>1, <3>2, <1>t DEF Raises, StartupFails, StartupSet, Go
  <2> QED BY <1>raise, <2>1, <1>drop
<1>9. ASSUME NEW t \in Tasks, OthersCalm(t), Discard(t) PROVE Ownership'
  <2>1. /\ mine'[t] \subseteq mine[t] /\ free' = free /\ acquired' = acquired
        /\ pc'[t] = pc[t] /\ pc[t] \in Discarding
    BY <1>9, <1>t DEF Discard, shared
  <2>2. mine'[t] \cap acquired' = {}
    BY <2>1 DEF Ownership, AcquiredHeld, Discarding
  <2> QED BY <1>9, <2>1, <2>2, KeepsOrDrops DEF Discarding
<1>10. ASSUME NEW t \in Tasks, OthersCalm(t), DiscardLast(t) PROVE Ownership'
  <2>1. acquired' = acquired /\ free' = free
    BY <1>10 DEF DiscardLast
  <2>2. CASE Raises(t)
    BY <1>10, <2>1, <2>2, <1>raise
  <2>3. CASE Go(t, "ready", {})
    <3>1. pc'[t] = "ready" /\ mine'[t] = {}
      BY <2>3, <1>t DEF Go
    <3> QED BY <1>10, <2>1, <3>1, KeepsOrDrops
  <2> QED BY <1>10, <2>2, <2>3 DEF DiscardLast
<1>11. ASSUME NEW t \in Tasks, OthersCalm(t), Cancel(t) PROVE Ownership'
  <2>1. CASE PingCancelled(t) \/ WaitCancelled(t)
    BY <1>11, <2>1, <1>leave, <1>drop DEF PingCancelled, WaitCancelled, shared
  <2>2. CASE QueueCancelled(t) \/ JoinCancelled(t)
    <3>1. /\ mine' = mine /\ free' = free /\ acquired' = acquired
          /\ pc[t] \in {"queued", "joining", "joined"} /\ pc'[t] = "idle"
      BY <2>2, <1>t DEF QueueCancelled, JoinCancelled, shared
    <3> QED BY <1>11, <3>1, KeepsOrDrops DEF Ownership, AcquiredHeld, HeldApart,
                                            Overtaken
  <2>3. CASE StartupCancelled(t)
    <3>1. /\ mine' = mine /\ free' = free /\ acquired' = acquired
          /\ pc[t] \in Founding /\ pc'[t] = "aborting"
      BY <2>3, <1>t DEF StartupCancelled, shared, Founding
    <3> QED BY <1>11, <3>1, <1>own, KeepsOrDrops
  <2>4. CASE CollectCancelled(t)
    <3>1. mine'[t] = {} /\ pc'[t] = "idle" /\ acquired' = acquired /\ free' = free
      BY <2>4, <1>t DEF CollectCancelled, StartupFails, StartupSet
    <3> QED BY <1>11, <3>1, <1>drop
  <2>5. CASE DiscardCancelled(t)
    BY <1>11, <2>5, <1>raise DEF DiscardCancelled
  <2> QED BY <1>11, <2>1, <2>2, <2>3, <2>4, <2>5 DEF Cancel
<1>12. ASSUME StaleUse PROVE Ownership'
  BY <1>12, <1>same DEF StaleUse, locals, shared
<1>13. ASSUME UNCHANGED vars PROVE Ownership'
  BY <1>13, <1>same DEF vars
<1>14. CASE Next
  BY <1>14, StepFacts, <1>1, <1>2, <1>3, <1>4, <1>5, <1>6, <1>7, <1>8, <1>9,
     <1>10, <1>11, <1>12
<1> QED BY <1>13, <1>14

-----------------------------------------------------------------------------
(* Capacity *)

\* Slots pass from pending to acquired or free and back, never twice: the
\* network call between reservation and registration cannot exceed maxsize.
LEMMA CapacityStep ==
  ASSUME TypeOK, TypeOK', Ownership, CapacityBound, [Next]_vars
  PROVE  CapacityBound'
<1> DEFINE size(a, f) == Cardinality(a) + Len(f)
<1>t. /\ acquired \in SUBSET Conns /\ free \in Seq(Conns) /\ pending \in Int
      /\ free' \in Seq(Conns) /\ pending' \in Int /\ acquired' \in SUBSET Conns
      /\ mine \in [Tasks -> SUBSET Conns]
      /\ Len(free) \in Nat /\ Len(free') \in Nat
  BY LenProperties DEF TypeOK
<1>z. MaxSize \in Nat /\ MinSize \in Nat
  BY SizeAssumption
<1>f. /\ IsFiniteSet(acquired) /\ IsFiniteSet(acquired')
      /\ Cardinality(acquired) \in Nat /\ Cardinality(acquired') \in Nat
  BY <1>t, FS_Subset, FS_CardinalityType, PopulationAssumption
<1>add. \A c : Cardinality(acquired \cup {c}) <= Cardinality(acquired) + 1
  <2> SUFFICES ASSUME NEW c
               PROVE  Cardinality(acquired \cup {c}) <= Cardinality(acquired) + 1
    OBVIOUS
  <2>1. CASE c \in acquired
    <3>1. acquired \cup {c} = acquired
      BY <2>1
    <3> QED BY <3>1, <1>f
  <2>2. CASE c \notin acquired
    <3>1. Cardinality(acquired \cup {c}) = Cardinality(acquired) + 1
      BY <2>2, <1>f, FS_AddElement
    <3> QED BY <3>1, <1>f
  <2> QED BY <2>1, <2>2
<1>grow. ASSUME NEW c, acquired' = acquired \cup {c} \/ acquired' = acquired
         PROVE  Cardinality(acquired') <= Cardinality(acquired) + 1
  <2>1. CASE acquired' = acquired \cup {c}
    BY <2>1, <1>add
  <2>2. CASE acquired' = acquired
    BY <2>2, <1>f
  <2> QED BY <1>grow, <2>1, <2>2
<1>sub. \A S : Cardinality(acquired \ S) <= Cardinality(acquired)
  <2> SUFFICES ASSUME NEW S
               PROVE  Cardinality(acquired \ S) <= Cardinality(acquired)
    OBVIOUS
  <2>1. acquired \ S \in SUBSET acquired
    OBVIOUS
  <2> QED BY <1>f, <2>1, FS_Subset
<1>same. ASSUME acquired' = acquired, free' = free, pending' <= pending
         PROVE  CapacityBound'
  BY <1>same, <1>t, <1>f, <1>z DEF CapacityBound
<1>1. ASSUME NEW t \in Tasks, Acquire(t) PROVE CapacityBound'
  <2>1. CASE free # <<>>
    <3>1. free' = Tail(free) /\ pending' = pending
          /\ (acquired' = acquired \cup {Head(free)} \/ acquired' = acquired)
      BY <1>1, <2>1 DEF Acquire, TakeFree, TakeForPing, SkipFree, Reserve, Wait,
                        Refuse, PopFree
    <3>2. Len(free') = Len(free) - 1
      BY <1>t, <2>1, <3>1, TailProperties
    <3>3. Cardinality(acquired') <= Cardinality(acquired) + 1
      BY <3>1, <1>grow
    <3> QED BY <3>1, <3>2, <3>3, <1>t, <1>f, <1>z DEF CapacityBound
  <2>2. CASE free = <<>>
    <3>1. CASE Reserve(t)
      BY <3>1, <1>t, <1>f, <1>z DEF Reserve, Room, CapacityBound
    <3>2. CASE Wait(t) \/ Refuse(t)
      <4>1. acquired' = acquired /\ free' = free /\ pending' = pending
        BY <3>2 DEF Wait, Refuse, shared
      <4> QED BY <4>1, <1>t, <1>same
    <3> QED BY <1>1, <2>2, <3>1, <3>2 DEF Acquire, TakeFree, TakeForPing, SkipFree
  <2> QED BY <2>1, <2>2
<1>2. ASSUME NEW t \in Tasks, Checkout(t) PROVE CapacityBound'
  <2>1. CASE Created(t)
    <3>1. PICK c \in Conns : mine[t] = {c}
      BY <2>1 DEF Created, Ownership, HoldsOne
    <3>2. pending' = pending - 1 /\ free' = free
          /\ (acquired' = acquired \cup {c} \/ acquired' = acquired)
      BY <2>1, <3>1 DEF Created
    <3>3. Cardinality(acquired') <= Cardinality(acquired) + 1
      BY <3>2, <1>grow
    <3> QED BY <3>2, <3>3, <1>t, <1>f, <1>z DEF CapacityBound
  <2>2. CASE CreateFailed(t)
    <3>1. acquired' = acquired /\ free' = free /\ pending' = pending - 1
      BY <2>2 DEF CreateFailed
    <3>2. pending' <= pending
      BY <3>1, <1>t
    <3> QED BY <3>1, <3>2, <1>same
  <2>3. CASE PingAnswered(t) \/ PingFailed(t)
    <3>1. free' = free /\ pending' = pending
          /\ (acquired' = acquired \/ acquired' = acquired \ mine[t])
      BY <2>3 DEF PingAnswered, PingFailed, shared
    <3>2. Cardinality(acquired') <= Cardinality(acquired)
      BY <3>1, <1>sub, <1>f
    <3> QED BY <3>1, <3>2, <1>t, <1>f, <1>z DEF CapacityBound
  <2> QED BY <1>2, <2>1, <2>2, <2>3 DEF Checkout
<1>3. ASSUME NEW t \in Tasks, Release(t) PROVE CapacityBound'
  <2>1. CASE ReleaseFree(t)
    <3>1. PICK c \in mine[t] : free' = Pushed(free, <<c>>)
      BY <2>1 DEF ReleaseFree
    <3>2. <<c>> \in Seq(Conns) /\ Len(<<c>>) = 1
      BY <1>t, <3>1
    <3>3. Len(free') <= Len(free) + 1
      BY <1>t, <3>1, <3>2, PushedProperties
    <3>4. acquired' \in SUBSET (acquired \ {c}) /\ c \in acquired
          /\ pending' = pending
      BY <2>1, <3>1 DEF ReleaseFree
    <3>5. /\ IsFiniteSet(acquired \ {c})
          /\ Cardinality(acquired \ {c}) = Cardinality(acquired) - 1
      BY <1>f, <3>4, FS_RemoveElement
    <3>6. Cardinality(acquired') <= Cardinality(acquired) - 1
      BY <3>4, <3>5, FS_Subset
    <3> QED BY <3>3, <3>4, <3>6, <1>t, <1>f, <1>z DEF CapacityBound
  <2>2. CASE ReleaseBroken(t) \/ ReleaseForeign(t)
    <3>1. free' = free /\ pending' = pending
          /\ (acquired' = acquired \/ acquired' = acquired \ mine[t])
      BY <2>2 DEF ReleaseBroken, ReleaseForeign, shared
    <3>2. Cardinality(acquired') <= Cardinality(acquired)
      BY <3>1, <1>sub, <1>f
    <3> QED BY <3>1, <3>2, <1>t, <1>f, <1>z DEF CapacityBound
  <2> QED BY <1>3, <2>1, <2>2 DEF Release
<1>4. ASSUME NEW t \in Tasks, Startup(t) PROVE CapacityBound'
  <2>1. CASE StartupBegin(t)
    BY <2>1, <1>t, <1>f, <1>z DEF StartupBegin, Room, CapacityBound
  <2>2. CASE ~StartupBegin(t)
    <3>1. acquired' = acquired /\ free' = free /\ pending' = pending
      BY <1>4, <2>2 DEF Startup, StartupJoin, StartupEmpty, StartupTooLarge
    <3> QED BY <3>1, <1>t, <1>same
  <2> QED BY <2>1, <2>2
<1>5. ASSUME NEW t \in Tasks, StartupProceeds(t) PROVE CapacityBound'
  <2>1. CASE StartupKeep(t)
    <3>1. PICK order \in [1..MinSize -> mine[t]] : free' = Pushed(free, order)
      BY <2>1 DEF StartupKeep
    <3>2. order \in Seq(Conns) /\ Len(order) = MinSize
      BY <1>t, <1>z, <3>1
    <3>3. Len(free') <= Len(free) + MinSize
      BY <1>t, <3>1, <3>2, PushedProperties
    <3>4. acquired' = acquired /\ pending' = pending - MinSize
      BY <2>1 DEF StartupKeep
    <3> QED BY <3>3, <3>4, <1>t, <1>f, <1>z DEF CapacityBound
  <2>2. CASE StartupDrop(t) \/ StartupCollected(t)
    <3>1. acquired' = acquired /\ free' = free /\ pending' = pending - MinSize
      BY <2>2 DEF StartupDrop, StartupCollected, GiveUpStartup
    <3>2. pending' <= pending
      BY <3>1, <1>t, <1>z
    <3> QED BY <3>1, <3>2, <1>same
  <2>3. CASE ChildEnds(t) \/ StartupAborted(t) \/ JoinEnds(t)
    <3>1. acquired' = acquired /\ free' = free /\ pending' = pending
      BY <2>3 DEF ChildEnds, StartupAborted, JoinEnds, shared
    <3> QED BY <3>1, <1>t, <1>same
  <2> QED BY <1>5, <2>1, <2>2, <2>3 DEF StartupProceeds
<1>6. ASSUME NEW t \in Tasks, Shutdown(t) PROVE CapacityBound'
  <2>1. /\ Cardinality(acquired') = 0 /\ Len(free') = 0 /\ pending' = pending
    BY <1>6, FS_EmptySet DEF Shutdown
  <2> QED BY <2>1, <1>t, <1>f, <1>z DEF CapacityBound
<1>7. ASSUME NEW t \in Tasks,
             Queue(t) \/ Use(t) \/ Discard(t) \/ DiscardLast(t)
      PROVE  CapacityBound'
  <2>1. acquired' = acquired /\ free' = free /\ pending' = pending
    BY <1>7 DEF Queue, Use, Discard, DiscardLast, shared
  <2> QED BY <2>1, <1>t, <1>same
<1>8. ASSUME NEW t \in Tasks, Cancel(t) PROVE CapacityBound'
  <2>1. acquired' = acquired /\ free' = free /\ pending' = pending
    BY <1>8 DEF Cancel, PingCancelled, QueueCancelled, WaitCancelled,
       StartupCancelled, CollectCancelled, JoinCancelled, DiscardCancelled, shared
  <2> QED BY <2>1, <1>t, <1>same
<1>9. ASSUME StaleUse \/ UNCHANGED vars PROVE CapacityBound'
  <2>1. acquired' = acquired /\ free' = free /\ pending' = pending
    BY <1>9 DEF StaleUse, shared, vars
  <2> QED BY <2>1, <1>t, <1>same
<1> QED BY <1>1, <1>2, <1>3, <1>4, <1>5, <1>6, <1>7, <1>8, <1>9 DEF Next

-----------------------------------------------------------------------------
(* The invariant and what follows from it *)

LEMMA InvariantInit == Init => IInv
<1> SUFFICES ASSUME Init PROVE IInv
  OBVIOUS
<1>1. TypeOK
  BY TypeInit
<1>2. DOMAIN <<>> = {} /\ Len(<<>>) = 0
  OBVIOUS
<1>3. QueuedOnce /\ ClosedIsEmpty /\ PingTickets
  BY <1>2 DEF Init, QueuedOnce, ClosedIsEmpty, PingTickets, IsInjective
<1>4. Ownership
  BY <1>2 DEF Init, Ownership, HoldsOne, AcquiredHeld, HeldApart, FreeIsUnshared,
              IsInjective, Range
<1>5. CapacityBound
  <2>1. Cardinality(acquired) = 0 /\ Len(free) = 0 /\ pending = 0
    BY <1>2, FS_EmptySet DEF Init
  <2> QED BY <2>1, SizeAssumption DEF CapacityBound
<1> QED BY <1>1, <1>3, <1>4, <1>5 DEF IInv

LEMMA InvariantStep == IInv /\ [Next]_vars => IInv'
<1> SUFFICES ASSUME IInv, [Next]_vars PROVE IInv'
  OBVIOUS
<1>1. /\ TypeOK /\ QueuedOnce /\ ClosedIsEmpty /\ PingTickets /\ Ownership
      /\ CapacityBound
  BY DEF IInv
<1>2. TypeOK'
  BY <1>1, TypeStep
<1>3. QueuedOnce'
  <2>1. CASE UNCHANGED vars
    BY <1>1, <2>1 DEF vars, QueuedOnce, IsInjective
  <2> QED BY <1>1, <2>1, StepFacts
<1>4. ClosedIsEmpty' /\ PingTickets' /\ Ownership' /\ CapacityBound'
  BY <1>1, <1>2, ClosedStep, PingStep, OwnershipStep, CapacityStep
<1> QED BY <1>2, <1>3, <1>4 DEF IInv

THEOREM InvariantCorrect == Spec => []IInv
<1> QED BY InvariantInit, InvariantStep, PTL DEF Spec

\* The pool never owns or prepares more than maxsize connections, for every
\* number of tasks, every maxsize and every cancellation.
THEOREM CapacityCorrect == Spec => []CapacityBound
<1>1. IInv => CapacityBound
  BY DEF IInv
<1> QED BY <1>1, InvariantCorrect, PTL

\* A borrower shares its connection with nobody but a shutdown that closes it.
THEOREM LeasesExclusiveCorrect == Spec => []LeasesExclusive
<1>1. IInv => LeasesExclusive
  BY DEF IInv, Ownership, HeldApart, LeasesExclusive
<1> QED BY <1>1, InvariantCorrect, PTL

\* Idle connections are in the deque once and held by no task.
THEOREM FreeUnsharedCorrect == Spec => []FreeIsUnshared
<1>1. IInv => FreeIsUnshared
  BY DEF IInv, Ownership
<1> QED BY <1>1, InvariantCorrect, PTL

\* A closed pool owns nothing and is not open at the same time.
THEOREM ClosedEmptyCorrect == Spec => []ClosedIsEmpty
<1>1. IInv => ClosedIsEmpty
  BY DEF IInv
<1> QED BY <1>1, InvariantCorrect, PTL
=============================================================================
