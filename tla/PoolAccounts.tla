---------------------------- MODULE PoolAccounts -----------------------------
(* Theorems about Pool: what it accounts for.  Slots, idle times, startup     *)
(* initiators, borrowers and open connections, and what a checkout and a      *)
(* startup hand out.  They rest on the invariant of PoolProofs.               *)
(*                                                                            *)
(* And about PoolService: every behaviour of the pool, whatever is cancelled, *)
(* lost, overtaken or used too late, is a behaviour of the lease service.  The *)
(* initial states map to the initial state, and every step to a step of the   *)
(* service or to none.                                                        *)
EXTENDS PoolService, PoolProofs

-----------------------------------------------------------------------------
(* Steps *)

\* What task t may do.
Acts(t) ==
  \/ Queue(t) \/ Acquire(t) \/ Checkout(t)
  \/ Use(t) \/ Release(t)
  \/ Startup(t) \/ StartupProceeds(t)
  \/ Shutdown(t) \/ Discard(t) \/ DiscardLast(t)
  \/ Cancel(t)

\* A step is somebody's, and it only wakes the others.
LEMMA OneActs ==
  ASSUME IInv, Next
  PROVE  (\E t \in Tasks : OthersCalm(t) /\ Acts(t)) \/ StaleUse
<1> QED BY StepFacts DEF IInv, Acts

\* Where the helpers that leave a pool call put the task itself.
LEMMA Landing ==
  ASSUME TypeOK, QueuedOnce, NEW t \in Tasks
  PROVE  /\ pc[t] # "queued" /\ (Leave(t) \/ LeaveNotifying(t))
              => pc'[t] = "idle" /\ mine'[t] = {}
         /\ Raises(t) => pc'[t] = "idle" /\ mine'[t] = {}
         /\ GiveUpStartup(t) =>
              \/ Survivors(t) = {} /\ pc'[t] = "idle" /\ mine'[t] = {}
              \/ /\ Survivors(t) # {}
                 /\ pc'[t] = "unwinding" /\ mine'[t] = Survivors(t)
         /\ StartupKeep(t) \/ CollectCancelled(t)
              => pc'[t] = "idle" /\ mine'[t] = {}
         /\ Created(t) => pc'[t] = IF Current(t) THEN "using" ELSE "refusing"
         /\ Shutdown(t) =>
              /\ mine'[t] = acquired \cup Range(free)
              /\ pc'[t] = IF mine'[t] = {} THEN "idle" ELSE "draining"
<1>t. pc \in [Tasks -> Places] /\ mine \in [Tasks -> SUBSET Conns]
  BY DEF TypeOK
<1>1. ASSUME pc[t] # "queued", Leave(t) \/ LeaveNotifying(t)
      PROVE  pc'[t] = "idle" /\ mine'[t] = {}
  <2>1. Handover([pc EXCEPT ![t] = "idle"])[t] = "idle"
    <3>1. "idle" \in Places
      BY DEF Places
    <3> QED BY <1>1, <3>1, HandoverFacts
  <2>2. pc'[t] = "idle"
    BY <1>1, <2>1 DEF Leave, LeaveNotifying, Notified
  <2> QED BY <1>1, <1>t, <2>2 DEF Leave, LeaveNotifying
<1>2. ASSUME Raises(t) PROVE pc'[t] = "idle" /\ mine'[t] = {}
  <2>1. CASE Leave(t) /\ pc[t] \in {"skipping", "refusing", "retiring"}
    BY <2>1, <1>1
  <2>2. CASE pc[t] = "unwinding"
    BY <1>2, <2>2, <1>t DEF Raises, StartupFails, StartupSet
  <2>3. CASE pc[t] = "draining"
    BY <1>2, <2>3, <1>t DEF Raises, Go
  <2> QED BY <1>2, <2>1, <2>2, <2>3 DEF Raises
<1>3. ASSUME GiveUpStartup(t)
      PROVE  \/ Survivors(t) = {} /\ pc'[t] = "idle" /\ mine'[t] = {}
             \/ /\ Survivors(t) # {}
                /\ pc'[t] = "unwinding" /\ mine'[t] = Survivors(t)
  BY <1>3, <1>t DEF GiveUpStartup, StartupFails, StartupSet, Notified
<1>4. ASSUME StartupKeep(t) \/ CollectCancelled(t)
      PROVE  pc'[t] = "idle" /\ mine'[t] = {}
  BY <1>4, <1>t DEF StartupKeep, CollectCancelled, StartupFails, StartupSet,
                    Notified
<1>5. ASSUME Created(t)
      PROVE  pc'[t] = IF Current(t) THEN "using" ELSE "refusing"
  BY <1>5, <1>t DEF Created, Notified
<1>6. ASSUME Shutdown(t)
      PROVE  /\ mine'[t] = acquired \cup Range(free)
             /\ pc'[t] = IF mine'[t] = {} THEN "idle" ELSE "draining"
  BY <1>6, <1>t DEF Shutdown, Notified
<1> QED BY <1>1, <1>2, <1>3, <1>4, <1>5, <1>6

\* The places a task arrives at, the actions that bring it there, and what it
\* then holds.
LEMMA Arrivals ==
  ASSUME TypeOK, QueuedOnce, NEW t \in Tasks, Acts(t)
  PROVE  /\ pc'[t] \in Resters =>
              mine'[t] = {} \/ (mine'[t] = mine[t] /\ pc[t] \in Resters)
         /\ pc'[t] \in Founding =>
              \/ StartupBegin(t)
              \/ /\ mine'[t] = mine[t] /\ pc[t] \in Founding
                 /\ pc'[t] = "collecting" =>
                      state' = state /\ (pc[t] = "collecting" \/ Gathered(t))
         /\ pc'[t] = "using" =>
              \/ TakeFree(t) \/ Created(t) \/ PingAnswered(t)
              \/ /\ pc[t] = "using" /\ mine'[t] = mine[t]
                 /\ acquired' = acquired
         /\ pc'[t] = "pinging" => TakeForPing(t)
         /\ pc'[t] = "creating" => Reserve(t)
         /\ pc'[t] = "waiting" => Wait(t)
         /\ pc'[t] = "joining" => StartupJoin(t)
<1>t. pc \in [Tasks -> Places] /\ mine \in [Tasks -> SUBSET Conns]
  BY DEF TypeOK
<1> DEFINE Goal ==
         /\ pc'[t] \in Resters =>
              mine'[t] = {} \/ (mine'[t] = mine[t] /\ pc[t] \in Resters)
         /\ pc'[t] \in Founding =>
              \/ StartupBegin(t)
              \/ /\ mine'[t] = mine[t] /\ pc[t] \in Founding
                 /\ pc'[t] = "collecting" =>
                      state' = state /\ (pc[t] = "collecting" \/ Gathered(t))
         /\ pc'[t] = "using" =>
              \/ TakeFree(t) \/ Created(t) \/ PingAnswered(t)
              \/ /\ pc[t] = "using" /\ mine'[t] = mine[t]
                 /\ acquired' = acquired
         /\ pc'[t] = "pinging" => TakeForPing(t)
         /\ pc'[t] = "creating" => Reserve(t)
         /\ pc'[t] = "waiting" => Wait(t)
         /\ pc'[t] = "joining" => StartupJoin(t)
<1>idle. ASSUME pc'[t] = "idle", mine'[t] = {} PROVE Goal
  BY <1>idle DEF Founding
<1>1. ASSUME Queue(t) PROVE Goal
  BY <1>1, <1>t DEF Queue, Resters, Founding
<1>2. ASSUME Acquire(t) PROVE Goal
  <2>1. CASE Refuse(t)
    BY <2>1, <1>idle, Landing DEF Refuse, Enters
  <2>2. CASE TakeFree(t) \/ TakeForPing(t) \/ SkipFree(t) \/ Reserve(t) \/ Wait(t)
    BY <2>2, <1>t DEF TakeFree, TakeForPing, SkipFree, Reserve, Wait, Go,
                      Resters, Founding
  <2> QED BY <1>2, <2>1, <2>2 DEF Acquire
<1>3. ASSUME Checkout(t) PROVE Goal
  <2>1. CASE Created(t)
    <3>1. pc'[t] \in {"using", "refusing"}
      BY <2>1, Landing
    <3> QED BY <2>1, <3>1 DEF Resters, Founding
  <2>2. CASE CreateFailed(t)
    BY <2>2, <1>idle, Landing DEF CreateFailed
  <2>3. CASE PingAnswered(t) \/ PingFailed(t)
    BY <2>3, <1>t DEF PingAnswered, PingFailed, Resters, Founding
  <2> QED BY <1>3, <2>1, <2>2, <2>3 DEF Checkout
<1>4. ASSUME Use(t) PROVE Goal
  BY <1>4, <1>t DEF Use, locals, shared, Resters, Founding
<1>5. ASSUME Release(t) PROVE Goal
  <2>1. CASE ReleaseFree(t) \/ ReleaseForeign(t)
    BY <2>1, <1>idle, Landing DEF ReleaseFree, ReleaseForeign
  <2>2. CASE ReleaseBroken(t)
    BY <2>2, <1>t DEF ReleaseBroken, Resters, Founding
  <2> QED BY <1>5, <2>1, <2>2 DEF Release
<1>6. ASSUME Startup(t) PROVE Goal
  BY <1>6, <1>t DEF Startup, StartupJoin, StartupBegin, StartupEmpty,
                    StartupTooLarge, Go, locals, Resters, Founding
<1>give. ASSUME GiveUpStartup(t) PROVE Goal
  <2>1. \/ pc'[t] = "idle" /\ mine'[t] = {}
        \/ pc'[t] = "unwinding"
    BY <1>give, Landing
  <2> QED BY <2>1, <1>idle DEF Resters, Founding
<1>7. ASSUME StartupProceeds(t) PROVE Goal
  <2>1. CASE StartupKeep(t)
    BY <2>1, <1>idle, Landing
  <2>2. CASE StartupDrop(t) \/ StartupCollected(t)
    BY <2>2, <1>give DEF StartupDrop, StartupCollected
  <2>3. CASE ChildEnds(t) \/ StartupAborted(t) \/ JoinEnds(t)
    BY <2>3, <1>t DEF ChildEnds, StartupAborted, JoinEnds, locals, shared,
                      Resters, Founding
  <2> QED BY <1>7, <2>1, <2>2, <2>3 DEF StartupProceeds
<1>8. ASSUME Shutdown(t) PROVE Goal
  <2>1. \/ pc'[t] = "idle" /\ mine'[t] = {}
        \/ pc'[t] = "draining"
    BY <1>8, Landing
  <2> QED BY <2>1, <1>idle DEF Resters, Founding
<1>9. ASSUME Discard(t) PROVE Goal
  BY <1>9, <1>t DEF Discard, Discarding, Resters, Founding
<1>10. ASSUME DiscardLast(t) PROVE Goal
  <2>1. CASE Raises(t)
    BY <2>1, <1>idle, Landing
  <2>2. CASE Go(t, "ready", {})
    BY <2>2, <1>t DEF Go, Founding
  <2> QED BY <1>10, <2>1, <2>2 DEF DiscardLast
<1>11. ASSUME Cancel(t) PROVE Goal
  <2>1. CASE PingCancelled(t) \/ WaitCancelled(t)
    BY <2>1, <1>idle, Landing DEF PingCancelled, WaitCancelled
  <2>2. CASE CollectCancelled(t)
    BY <2>2, <1>idle, Landing
  <2>3. CASE DiscardCancelled(t)
    BY <2>3, <1>idle, Landing DEF DiscardCancelled
  <2>4. CASE QueueCancelled(t) \/ StartupCancelled(t) \/ JoinCancelled(t)
    BY <2>4, <1>t DEF QueueCancelled, StartupCancelled, JoinCancelled,
                      Resters, Founding
  <2> QED BY <1>11, <2>1, <2>2, <2>3, <2>4 DEF Cancel
<1> HIDE DEF Goal
<1>12. Goal
  BY <1>1, <1>2, <1>3, <1>4, <1>5, <1>6, <1>7, <1>8, <1>9, <1>10, <1>11 DEF Acts
<1> QED BY <1>12 DEF Goal

\* Whose connections change their state, and to what.
LEMMA StateMoves ==
  ASSUME TypeOK, NEW t \in Tasks, Acts(t), NEW c \in Conns,
         state'[c] # state[c]
  PROVE  \/ c \in Fresh /\ state'[c] = "connecting" /\ c \in mine'[t]
         \/ /\ c \in mine[t]
            /\ \/ pc[t] = "creating" /\ state'[c] \in {"open", "down"}
               \/ /\ pc[t] = "using"
                  /\ state[c] # "down" \/ c \in acquired \/ "revive" \in Faults
               \/ /\ pc[t] \in {"starting", "aborting"}
                  /\ state[c] = "connecting" /\ state'[c] \in {"open", "down"}
               \/ pc[t] \in Discarding /\ state'[c] = "down"
<1> DEFINE Goal ==
         \/ c \in Fresh /\ state'[c] = "connecting" /\ c \in mine'[t]
         \/ /\ c \in mine[t]
            /\ \/ pc[t] = "creating" /\ state'[c] \in {"open", "down"}
               \/ /\ pc[t] = "using"
                  /\ state[c] # "down" \/ c \in acquired \/ "revive" \in Faults
               \/ /\ pc[t] \in {"starting", "aborting"}
                  /\ state[c] = "connecting" /\ state'[c] \in {"open", "down"}
               \/ pc[t] \in Discarding /\ state'[c] = "down"
<1>t. /\ state \in [Conns -> ConnStates]
      /\ pc \in [Tasks -> Places] /\ mine \in [Tasks -> SUBSET Conns]
  BY DEF TypeOK
<1>1. ASSUME Queue(t) PROVE FALSE
  BY <1>1 DEF Queue
<1>2. ASSUME Acquire(t) PROVE Goal
  BY <1>2, <1>t DEF Acquire, TakeFree, TakeForPing, SkipFree, Reserve, Wait,
                    Refuse, Go
<1>3. ASSUME Checkout(t) PROVE Goal
  BY <1>3, <1>t DEF Checkout, Created, CreateFailed, PingAnswered, PingFailed
<1>4. ASSUME Use(t) PROVE Goal
  BY <1>4, <1>t DEF Use
<1>5. ASSUME Release(t) PROVE FALSE
  BY <1>5 DEF Release, ReleaseFree, ReleaseBroken, ReleaseForeign
<1>6. ASSUME Startup(t) PROVE Goal
  BY <1>6, <1>t DEF Startup, StartupJoin, StartupBegin, StartupEmpty,
                    StartupTooLarge, Go
<1>7. ASSUME StartupProceeds(t) PROVE Goal
  BY <1>7, <1>t DEF StartupProceeds, ChildEnds, StartupKeep, StartupDrop,
                    StartupAborted, StartupCollected, GiveUpStartup, JoinEnds
<1>8. ASSUME Shutdown(t) PROVE FALSE
  BY <1>8 DEF Shutdown
<1>9. ASSUME Discard(t) \/ DiscardLast(t) PROVE Goal
  BY <1>9, <1>t DEF Discard, DiscardLast
<1>10. ASSUME Cancel(t) PROVE Goal
  BY <1>10, <1>t DEF Cancel, PingCancelled, QueueCancelled, WaitCancelled,
     StartupCancelled, CollectCancelled, JoinCancelled, DiscardCancelled
<1> HIDE DEF Goal
<1>11. Goal
  BY <1>1, <1>2, <1>3, <1>4, <1>5, <1>6, <1>7, <1>8, <1>9, <1>10 DEF Acts
<1> QED BY <1>11 DEF Goal

-----------------------------------------------------------------------------
(* Slots *)

\* The slots that one task has reserved.
SlotsOf(t) ==
  IF pc[t] = "creating" THEN 1 ELSE IF pc[t] \in Founding THEN MinSize ELSE 0

\* A finite set changes its size by its change at one element.
LEMMA CountOne ==
  ASSUME NEW S, NEW R, NEW x, IsFiniteSet(S), S \ {x} = R \ {x}
  PROVE  /\ IsFiniteSet(R)
         /\ Cardinality(S) \in Nat /\ Cardinality(R) \in Nat
         /\ (x \in S <=> x \in R) => Cardinality(R) = Cardinality(S)
         /\ x \in R /\ x \notin S => Cardinality(R) = Cardinality(S) + 1
         /\ x \in S /\ x \notin R => Cardinality(R) = Cardinality(S) - 1
<1>1. CASE x \in S <=> x \in R
  <2>1. S = R
    BY <1>1
  <2> QED BY <1>1, <2>1, FS_CardinalityType
<1>2. CASE x \in R /\ x \notin S
  <2>1. R = S \cup {x}
    BY <1>2
  <2>2. Cardinality(R) = Cardinality(S) + 1 /\ IsFiniteSet(R)
    BY <1>2, <2>1, FS_AddElement
  <2> QED BY <1>2, <2>2, FS_CardinalityType
<1>3. CASE x \in S /\ x \notin R
  <2>1. R = S \ {x}
    BY <1>3
  <2>2. Cardinality(R) = Cardinality(S) - 1 /\ IsFiniteSet(R)
    BY <1>3, <2>1, FS_RemoveElement
  <2> QED BY <1>3, <2>2, FS_CardinalityType
<1> QED BY <1>1, <1>2, <1>3

\* Products that differ by one factor.
LEMMA Multiples ==
  ASSUME NEW m \in Nat, NEW k \in Nat, NEW n \in Nat
  PROVE  /\ m * k \in Nat
         /\ n = k + 1 => m * n = m * k + m
         /\ n = k - 1 => m * n = m * k - m
<1>1. m * (k + 1) = m * k + m /\ m * (k - 1) = m * k - m
  OBVIOUS
<1>2. m * k \in Nat
  OBVIOUS
<1> QED BY <1>1, <1>2

\* Only the acting task's slots change.
LEMMA SlotsChange ==
  ASSUME pc \in [Tasks -> Places], NEW t \in Tasks, OthersCalm(t)
  PROVE  /\ Slots \in Nat /\ Slots' \in Nat
         /\ SlotsOf(t) \in Nat /\ SlotsOf(t)' \in Nat
         /\ Slots' - Slots = SlotsOf(t)' - SlotsOf(t)
<1> DEFINE c == Cardinality(Creators)
           f == Cardinality(Founders)
<1>z. MinSize \in Nat
  BY SizeAssumption
<1>1. IsFiniteSet(Creators) /\ IsFiniteSet(Founders)
  <2>1. Creators \in SUBSET Tasks /\ Founders \in SUBSET Tasks
    BY DEF Creators, Founders
  <2> QED BY <2>1, FS_Subset, PopulationAssumption
<1>2. Creators \ {t} = Creators' \ {t} /\ Founders \ {t} = Founders' \ {t}
  BY DEF OthersCalm, Resting, Creators, Founders, Founding
<1>3. /\ c \in Nat /\ c' \in Nat
      /\ (pc[t] = "creating" <=> pc'[t] = "creating") => c' = c
      /\ pc[t] # "creating" /\ pc'[t] = "creating" => c' = c + 1
      /\ pc[t] = "creating" /\ pc'[t] # "creating" => c' = c - 1
  <2>1. /\ t \in Creators <=> pc[t] = "creating"
        /\ t \in Creators' <=> pc'[t] = "creating"
    BY DEF Creators
  <2> QED BY <1>1, <1>2, <2>1, CountOne
<1>4. /\ f \in Nat /\ f' \in Nat
      /\ (pc[t] \in Founding <=> pc'[t] \in Founding) => f' = f
      /\ pc[t] \notin Founding /\ pc'[t] \in Founding => f' = f + 1
      /\ pc[t] \in Founding /\ pc'[t] \notin Founding => f' = f - 1
  <2>1. /\ t \in Founders <=> pc[t] \in Founding
        /\ t \in Founders' <=> pc'[t] \in Founding
    BY DEF Founders, Founding
  <2> QED BY <1>1, <1>2, <2>1, CountOne
<1>5. Slots = c + MinSize * f /\ Slots' = c' + MinSize * f'
  BY DEF Slots
<1>6. "creating" \notin Founding
  BY DEF Founding
<1>7. /\ SlotsOf(t) = IF pc[t] = "creating" THEN 1
                      ELSE IF pc[t] \in Founding THEN MinSize ELSE 0
      /\ SlotsOf(t)' = IF pc'[t] = "creating" THEN 1
                       ELSE IF pc'[t] \in Founding THEN MinSize ELSE 0
  BY DEF SlotsOf, Founding
<1>8. /\ MinSize * f \in Nat /\ MinSize * f' \in Nat
      /\ f' = f + 1 => MinSize * f' = MinSize * f + MinSize
      /\ f' = f - 1 => MinSize * f' = MinSize * f - MinSize
  BY <1>z, <1>4, Multiples
<1>9. PICK k \in Nat, l \in Nat, i \in Nat, j \in Nat, m \in Nat, n \in Nat :
        k = c /\ l = c' /\ i = f /\ j = f' /\ m = MinSize * f /\ n = MinSize * f'
  BY <1>3, <1>4, <1>8
<1>10. Slots = k + m /\ Slots' = l + n
  BY <1>5, <1>9
<1>11. /\ (pc[t] = "creating" <=> pc'[t] = "creating") => l = k
       /\ pc[t] # "creating" /\ pc'[t] = "creating" => l = k + 1
       /\ pc[t] = "creating" /\ pc'[t] # "creating" => l = k - 1
  BY <1>3, <1>9
<1>12. /\ (pc[t] \in Founding <=> pc'[t] \in Founding) => n = m
       /\ pc[t] \notin Founding /\ pc'[t] \in Founding => n = m + MinSize
       /\ pc[t] \in Founding /\ pc'[t] \notin Founding => n = m - MinSize
  BY <1>4, <1>8, <1>9
<1> QED BY <1>z, <1>6, <1>7, <1>10, <1>11, <1>12

\* Every action of a task moves pending by the slots it reserves or gives back;
\* only a startup cancelled again while it collects forgets its slots.
LEMMA SlotsStep ==
  ASSUME TypeOK, QueuedOnce, NEW t \in Tasks, Acts(t)
  PROVE  /\ ~CollectCancelled(t)
              => pending' - pending = SlotsOf(t)' - SlotsOf(t)
         /\ CollectCancelled(t)
              => pending' = pending /\ SlotsOf(t)' = 0
<1> DEFINE Exact == pending' - pending = SlotsOf(t)' - SlotsOf(t)
<1>t. /\ pc \in [Tasks -> Places] /\ mine \in [Tasks -> SUBSET Conns]
      /\ pending \in Int /\ MinSize \in Nat
  BY SizeAssumption DEF TypeOK
<1>s. /\ SlotsOf(t) = IF pc[t] = "creating" THEN 1
                      ELSE IF pc[t] \in Founding THEN MinSize ELSE 0
      /\ SlotsOf(t)' = IF pc'[t] = "creating" THEN 1
                       ELSE IF pc'[t] \in Founding THEN MinSize ELSE 0
  BY DEF SlotsOf, Founding
<1>f. Founding = {"starting", "aborting", "collecting"}
  BY DEF Founding
<1>n. SlotsOf(t) \in Int /\ SlotsOf(t)' \in Int
  BY <1>t, <1>s
<1>same. ASSUME pending' = pending, SlotsOf(t)' = SlotsOf(t) PROVE Exact
  BY <1>same, <1>t, <1>n
<1>1. ASSUME Queue(t) \/ Use(t) PROVE Exact
  BY <1>1, <1>t, <1>s, <1>f, <1>same DEF Queue, Use, locals, shared
<1>2. ASSUME Acquire(t) PROVE Exact
  <2>1. CASE Reserve(t)
    BY <2>1, <1>t, <1>s, <1>f DEF Reserve, Enters, Go
  <2>2. CASE TakeFree(t) \/ TakeForPing(t) \/ SkipFree(t) \/ Wait(t)
    BY <2>2, <1>t, <1>s, <1>f, <1>same
       DEF TakeFree, TakeForPing, SkipFree, Wait, Enters, Go, shared
  <2>3. CASE Refuse(t)
    <3>1. pc'[t] = "idle"
      BY <2>3, Landing DEF Refuse, Enters
    <3> QED BY <2>3, <3>1, <1>s, <1>f, <1>same DEF Refuse, Enters, shared
  <2> QED BY <1>2, <2>1, <2>2, <2>3 DEF Acquire
<1>3. ASSUME Checkout(t) PROVE Exact
  <2>1. CASE Created(t)
    <3>1. pc'[t] \in {"using", "refusing"}
      BY <2>1, Landing
    <3> QED BY <2>1, <3>1, <1>t, <1>s, <1>f DEF Created
  <2>2. CASE CreateFailed(t)
    <3>1. pc'[t] = "idle"
      BY <2>2, Landing DEF CreateFailed
    <3> QED BY <2>2, <3>1, <1>t, <1>s, <1>f DEF CreateFailed
  <2>3. CASE PingAnswered(t) \/ PingFailed(t)
    BY <2>3, <1>t, <1>s, <1>f, <1>same DEF PingAnswered, PingFailed, shared
  <2> QED BY <1>3, <2>1, <2>2, <2>3 DEF Checkout
<1>5. ASSUME Release(t) PROVE Exact
  <2>1. pc[t] = "using" /\ pc'[t] \in {"idle", "retiring"}
    BY <1>5, <1>t, Landing
       DEF Release, ReleaseFree, ReleaseBroken, ReleaseForeign
  <2> QED BY <1>5, <2>1, <1>s, <1>f, <1>same
          DEF Release, ReleaseFree, ReleaseBroken, ReleaseForeign, shared
<1>6. ASSUME Startup(t) PROVE Exact
  <2>1. CASE StartupBegin(t)
    BY <2>1, <1>t, <1>s, <1>f DEF StartupBegin, Go
  <2>2. CASE StartupJoin(t) \/ StartupEmpty(t) \/ StartupTooLarge(t)
    BY <2>2, <1>t, <1>s, <1>f, <1>same
       DEF StartupJoin, StartupEmpty, StartupTooLarge, locals
  <2> QED BY <1>6, <2>1, <2>2 DEF Startup
<1>7. ASSUME StartupProceeds(t) PROVE Exact
  <2>1. CASE StartupKeep(t)
    <3>1. pc[t] = "starting" /\ pc'[t] = "idle" /\ pending' = pending - MinSize
      BY <2>1, Landing DEF StartupKeep
    <3> QED BY <3>1, <1>t, <1>s, <1>f
  <2>2. CASE StartupDrop(t) \/ StartupCollected(t)
    <3>1. /\ pc[t] \in Founding /\ pc'[t] \in {"idle", "unwinding"}
          /\ pending' = pending - MinSize
      BY <2>2, <1>f, Landing DEF StartupDrop, StartupCollected, GiveUpStartup
    <3> QED BY <3>1, <1>t, <1>s, <1>f
  <2>3. CASE ChildEnds(t) \/ StartupAborted(t) \/ JoinEnds(t)
    BY <2>3, <1>t, <1>s, <1>f, <1>same
       DEF ChildEnds, StartupAborted, JoinEnds, locals, shared
  <2> QED BY <1>7, <2>1, <2>2, <2>3 DEF StartupProceeds
<1>8. ASSUME Shutdown(t) PROVE Exact
  <2>1. pc[t] = "idle" /\ pc'[t] \in {"idle", "draining"} /\ pending' = pending
    BY <1>8, Landing DEF Shutdown
  <2> QED BY <2>1, <1>s, <1>f, <1>same
<1>9. ASSUME Discard(t) PROVE Exact
  BY <1>9, <1>s, <1>same DEF Discard, shared
<1>raise. ASSUME pc[t] \in Discarding, Raises(t), pending' = pending PROVE Exact
  <2>1. pc'[t] = "idle"
    BY <1>raise, Landing
  <2> QED BY <1>raise, <2>1, <1>s, <1>f, <1>same DEF Discarding
<1>10. ASSUME DiscardLast(t) PROVE Exact
  <2>1. CASE Raises(t)
    BY <1>10, <2>1, <1>raise DEF DiscardLast
  <2>2. CASE Go(t, "ready", {})
    BY <1>10, <2>2, <1>t, <1>s, <1>f, <1>same DEF DiscardLast, Discarding, Go
  <2> QED BY <1>10, <2>1, <2>2 DEF DiscardLast
<1>11. ASSUME Cancel(t), ~CollectCancelled(t) PROVE Exact
  <2>1. CASE PingCancelled(t) \/ WaitCancelled(t)
    <3>1. pc'[t] = "idle" /\ pc[t] \in {"pinging", "waiting", "ready"}
      BY <2>1, Landing DEF PingCancelled, WaitCancelled
    <3> QED BY <2>1, <3>1, <1>s, <1>f, <1>same
            DEF PingCancelled, WaitCancelled, shared
  <2>2. CASE QueueCancelled(t) \/ StartupCancelled(t) \/ JoinCancelled(t)
    BY <2>2, <1>t, <1>s, <1>f, <1>same
       DEF QueueCancelled, StartupCancelled, JoinCancelled, shared
  <2>3. CASE DiscardCancelled(t)
    BY <2>3, <1>raise DEF DiscardCancelled
  <2> QED BY <1>11, <2>1, <2>2, <2>3 DEF Cancel
<1>12. ASSUME CollectCancelled(t)
       PROVE  pending' = pending /\ SlotsOf(t)' = 0
  <2>1. pc'[t] = "idle"
    BY <1>12, Landing
  <2> QED BY <1>12, <2>1, <1>s, <1>f DEF CollectCancelled
<1> QED BY <1>1, <1>2, <1>3, <1>5, <1>6, <1>7, <1>8, <1>9, <1>10, <1>11,
           <1>12 DEF Acts

-----------------------------------------------------------------------------
(* Pending slots *)

LEMMA CoversStep ==
  ASSUME IInv, PendingCovers, [Next]_vars
  PROVE  PendingCovers'
<1>t. pc \in [Tasks -> Places] /\ pending \in Int /\ pending' \in Int
  BY InvariantStep DEF IInv, TypeOK
<1>1. ASSUME NEW t \in Tasks, OthersCalm(t), Acts(t) PROVE PendingCovers'
  <2>1. /\ Slots \in Nat /\ Slots' \in Nat
        /\ SlotsOf(t) \in Nat /\ SlotsOf(t)' \in Nat
        /\ Slots' - Slots = SlotsOf(t)' - SlotsOf(t)
    BY <1>1, <1>t, SlotsChange
  <2>2. /\ ~CollectCancelled(t)
              => pending' - pending = SlotsOf(t)' - SlotsOf(t)
        /\ CollectCancelled(t) => pending' = pending /\ SlotsOf(t)' = 0
    BY <1>1, SlotsStep DEF IInv
  <2> QED BY <1>t, <2>1, <2>2 DEF PendingCovers
<1>2. ASSUME StaleUse \/ UNCHANGED vars PROVE PendingCovers'
  <2>1. pc' = pc /\ pending' = pending
    BY <1>2 DEF StaleUse, locals, shared, vars
  <2> QED BY <2>1 DEF PendingCovers, Slots, Creators, Founders
<1> QED BY <1>1, <1>2, OneActs

\* Before the first step nothing is reserved.
LEMMA SlotsInit == Init => Slots = 0
<1> SUFFICES ASSUME Init PROVE Slots = 0
  OBVIOUS
<1>1. Creators = {} /\ Founders = {}
  BY DEF Init, Creators, Founders, Founding
<1>2. MinSize \in Nat
  BY SizeAssumption
<1> QED BY <1>1, <1>2, FS_EmptySet DEF Slots

\* Every creation in flight has its slots, so _pending_connections is never
\* negative and no other reservation can take its place.
THEOREM PendingCoversCorrect == Spec => []PendingCovers
<1>1. Init => PendingCovers
  BY SlotsInit DEF Init, PendingCovers
<1> QED BY <1>1, CoversStep, InvariantCorrect, PTL DEF Spec

\* Unless a startup is cancelled again while it collects, no error path loses
\* a slot or gives one back twice (_finish_connection_reservation).
THEOREM PendingExactCorrect ==
  ASSUME "cancel_collect" \notin Faults
  PROVE  Spec => []PendingExact
<1>1. Init => PendingExact
  BY SlotsInit DEF Init, PendingExact
<1>2. ASSUME IInv, PendingExact, [Next]_vars PROVE PendingExact'
  <2>t. pc \in [Tasks -> Places] /\ pending \in Int /\ pending' \in Int
    BY <1>2, InvariantStep DEF IInv, TypeOK
  <2>1. ASSUME NEW t \in Tasks, OthersCalm(t), Acts(t) PROVE PendingExact'
    <3>1. /\ Slots \in Nat /\ Slots' \in Nat
          /\ SlotsOf(t) \in Nat /\ SlotsOf(t)' \in Nat
          /\ Slots' - Slots = SlotsOf(t)' - SlotsOf(t)
      BY <2>1, <2>t, SlotsChange
    <3>2. pending' - pending = SlotsOf(t)' - SlotsOf(t)
      BY <1>2, <2>1, SlotsStep DEF IInv, CollectCancelled
    <3> QED BY <1>2, <2>t, <3>1, <3>2 DEF PendingExact
  <2>2. ASSUME StaleUse \/ UNCHANGED vars PROVE PendingExact'
    <3>1. pc' = pc /\ pending' = pending
      BY <2>2 DEF StaleUse, locals, shared, vars
    <3> QED BY <1>2, <3>1 DEF PendingExact, Slots, Creators, Founders
  <2> QED BY <1>2, <2>1, <2>2, OneActs
<1> QED BY <1>1, <1>2, InvariantCorrect, PTL DEF Spec

-----------------------------------------------------------------------------
(* What tasks hold *)

LEMMA RestersStep ==
  ASSUME IInv, RestersHoldNothing, [Next]_vars
  PROVE  RestersHoldNothing'
<1>1. ASSUME NEW t \in Tasks, OthersCalm(t), Acts(t) PROVE RestersHoldNothing'
  <2>1. pc'[t] \in Resters =>
          mine'[t] = {} \/ (mine'[t] = mine[t] /\ pc[t] \in Resters)
    BY <1>1, Arrivals DEF IInv
  <2>2. \A u \in Tasks \ {t} :
          mine'[u] = mine[u] /\ (pc'[u] \in Resters => pc[u] \in Resters)
    BY <1>1 DEF OthersCalm, Resting, Resters
  <2> QED BY <2>1, <2>2 DEF RestersHoldNothing
<1>2. ASSUME StaleUse \/ UNCHANGED vars PROVE RestersHoldNothing'
  BY <1>2 DEF StaleUse, locals, vars, RestersHoldNothing
<1> QED BY <1>1, <1>2, OneActs

\* A startup at work shares its connections with nobody.
LEMMA FoundersAlone ==
  ASSUME Ownership, NEW t \in Tasks, NEW u \in Tasks, t # u, pc[u] \in Founding
  PROVE  mine[t] \cap mine[u] = {}
<1> QED BY DEF Ownership, HeldApart, Founding, Overtaken

LEMMA FoundersStep ==
  ASSUME IInv, FoundersHold, [Next]_vars
  PROVE  FoundersHold'
<1>t. /\ TypeOK /\ Ownership
      /\ pc \in [Tasks -> Places] /\ mine \in [Tasks -> SUBSET Conns]
  BY DEF IInv, TypeOK
<1>1. ASSUME NEW t \in Tasks, OthersCalm(t), Acts(t) PROVE FoundersHold'
  <2>1. ASSUME NEW u \in Tasks, pc'[u] \in Founding, u # t
        PROVE  /\ Cardinality(mine'[u]) = MinSize
               /\ \A c \in mine'[u] :
                    state'[c] \in {"connecting", "open", "down"}
               /\ pc'[u] = "collecting" =>
                     \A c \in mine'[u] : state'[c] # "connecting"
    <3>1. mine'[u] = mine[u] /\ pc'[u] = pc[u] /\ pc[u] \in Founding
      BY <1>1, <2>1 DEF OthersCalm, Resting, Founding
    <3>2. mine[t] \cap mine[u] = {}
      BY <1>t, <2>1, <3>1, FoundersAlone
    <3>3. \A c \in mine[u] : c \in Conns /\ c \notin Fresh
      BY <1>t, <2>1 DEF Fresh, Referenced
    <3>4. \A c \in mine[u] : state'[c] = state[c]
      BY <1>1, <1>t, <3>2, <3>3, StateMoves
    <3> QED BY <2>1, <3>1, <3>4 DEF FoundersHold, Gathered
  <2>2. ASSUME pc'[t] \in Founding
        PROVE  /\ Cardinality(mine'[t]) = MinSize
               /\ \A c \in mine'[t] :
                    state'[c] \in {"connecting", "open", "down"}
               /\ pc'[t] = "collecting" =>
                    \A c \in mine'[t] : state'[c] # "connecting"
    <3>1. \/ StartupBegin(t)
          \/ /\ mine'[t] = mine[t] /\ pc[t] \in Founding
             /\ pc'[t] = "collecting" =>
                  state' = state /\ (pc[t] = "collecting" \/ Gathered(t))
      BY <1>1, <2>2, Arrivals DEF IInv
    <3>2. CASE StartupBegin(t)
      <4>1. PICK batch \in SUBSET Fresh :
              /\ Cardinality(batch) = MinSize
              /\ Go(t, "starting", batch)
              /\ state' = [c \in Conns |-> IF c \in batch THEN "connecting"
                                                          ELSE state[c]]
        BY <3>2 DEF StartupBegin
      <4>2. pc'[t] = "starting" /\ mine'[t] = batch /\ batch \subseteq Conns
        BY <4>1, <1>t DEF Go, Fresh
      <4> QED BY <4>1, <4>2
    <3>3. CASE ~StartupBegin(t)
      <4>1. \A c \in mine[t] : c \in Conns /\ c \notin Fresh
        BY <1>t DEF Fresh, Referenced
      <4>2. /\ mine'[t] = mine[t] /\ pc[t] \in Founding
            /\ pc'[t] = "collecting" =>
                 state' = state /\ (pc[t] = "collecting" \/ Gathered(t))
        BY <3>1, <3>3
      <4>3. \A c \in mine[t] :
              state'[c] = state[c] \/ state'[c] \in {"open", "down"}
        <5> SUFFICES ASSUME NEW c \in mine[t], state'[c] # state[c]
                     PROVE  state'[c] \in {"open", "down"}
          OBVIOUS
        <5>1. c \in Conns /\ c \notin Fresh
          BY <4>1
        <5> QED BY <1>1, <1>t, <4>2, <5>1, StateMoves DEF Founding, Discarding
      <4>4. pc'[t] = "collecting" => \A c \in mine[t] : state[c] # "connecting"
        BY <4>2 DEF FoundersHold, Gathered
      <4> QED BY <2>2, <4>2, <4>3, <4>4 DEF FoundersHold
    <3> QED BY <3>2, <3>3
  <2> QED BY <2>1, <2>2 DEF FoundersHold, Gathered
<1>2. ASSUME StaleUse PROVE FoundersHold'
  <2>1. pc' = pc /\ mine' = mine
    BY <1>2 DEF StaleUse, locals
  <2>2. \A u \in Tasks : \A c \in mine[u] : state'[c] = state[c]
    BY <1>2, <1>t DEF StaleUse, Ownership, FreeIsUnshared, TypeOK
  <2> QED BY <2>1, <2>2 DEF FoundersHold, Gathered
<1>3. ASSUME UNCHANGED vars PROVE FoundersHold'
  BY <1>3 DEF vars, FoundersHold, Gathered
<1> QED BY <1>1, <1>2, <1>3, OneActs

-----------------------------------------------------------------------------
(* The deque *)

\* What is appended to a deque that has room for it is all kept.
LEMMA PushedKeepsAll ==
  ASSUME NEW q \in Seq(Conns), NEW cs \in Seq(Conns),
         Len(q) + Len(cs) <= MaxSize
  PROVE  /\ Range(Pushed(q, cs)) = Range(q) \cup Range(cs)
         /\ Len(Pushed(q, cs)) = Len(q) + Len(cs)
<1> DEFINE all == q \o cs
<1>1. /\ all \in Seq(Conns)
      /\ Len(all) = Len(q) + Len(cs)
      /\ \A i \in 1 .. Len(q) + Len(cs) :
           all[i] = IF i <= Len(q) THEN q[i] ELSE cs[i - Len(q)]
  BY ConcatProperties
<1>2. /\ DOMAIN q = 1..Len(q) /\ DOMAIN cs = 1..Len(cs)
      /\ DOMAIN all = 1 .. Len(q) + Len(cs)
      /\ Len(q) \in Nat /\ Len(cs) \in Nat
  BY <1>1, LenProperties
<1>3. Pushed(q, cs) = all
  BY <1>1 DEF Pushed
<1> HIDE DEF all
<1>4. Range(q) \subseteq Range(all)
  <2>1. \A i \in 1..Len(q) : i \in 1 .. Len(q) + Len(cs) /\ all[i] = q[i]
    BY <1>1, <1>2
  <2> QED BY <1>2, <2>1 DEF Range
<1>5. Range(cs) \subseteq Range(all)
  <2>1. \A i \in 1..Len(cs) :
          /\ Len(q) + i \in 1 .. Len(q) + Len(cs)
          /\ all[Len(q) + i] = cs[i]
    <3> SUFFICES ASSUME NEW i \in 1..Len(cs)
                 PROVE  /\ Len(q) + i \in 1 .. Len(q) + Len(cs)
                        /\ all[Len(q) + i] = cs[i]
      OBVIOUS
    <3>1. /\ Len(q) + i \in 1 .. Len(q) + Len(cs)
          /\ ~(Len(q) + i <= Len(q)) /\ (Len(q) + i) - Len(q) = i
      BY <1>2
    <3> QED BY <1>1, <3>1
  <2> QED BY <1>2, <2>1 DEF Range
<1>6. Range(all) \subseteq Range(q) \cup Range(cs)
  BY <1>3, PushedProperties
<1> QED BY <1>1, <1>3, <1>4, <1>5, <1>6

\* An ordering of as many connections as there are lists them all.
LEMMA OrderIsComplete ==
  ASSUME NEW S \in SUBSET Conns, NEW n \in Nat, Cardinality(S) = n,
         NEW order \in [1..n -> S], IsInjective(order)
  PROVE  Range(order) = S /\ order \in Seq(Conns) /\ Len(order) = n
<1>1. IsFiniteSet(S)
  BY FS_Subset, PopulationAssumption
<1>2. order \in Injection(1..n, S)
  BY DEF Injection, IsInjective
<1>3. Cardinality(1..n) = n
  BY FS_Interval
<1>4. order \in Surjection(1..n, S)
  BY <1>1, <1>2, <1>3, FS_Injection
<1>5. Range(order) = S
  BY <1>4 DEF Surjection, Range
<1> QED BY <1>5

\* A startup that opens the pool adds its connections to the deque, whole.
LEMMA KeepFacts ==
  ASSUME IInv, PendingCovers, FoundersHold, NEW t \in Tasks, StartupKeep(t)
  PROVE  /\ Range(free') = Range(free) \cup mine[t]
         /\ Len(free') = Len(free) + MinSize
<1>z. MaxSize \in Nat /\ MinSize \in Nat
  BY SizeAssumption
<1>t. /\ free \in Seq(Conns) /\ Len(free) \in Nat /\ pending \in Int
      /\ mine \in [Tasks -> SUBSET Conns] /\ CapacityBound
      /\ Cardinality(acquired) \in Nat
  <2>1. /\ free \in Seq(Conns) /\ pending \in Int /\ acquired \in SUBSET Conns
        /\ mine \in [Tasks -> SUBSET Conns] /\ CapacityBound
    BY DEF IInv, TypeOK
  <2> QED BY <2>1, LenProperties, FS_Subset, FS_CardinalityType,
             PopulationAssumption
<1>1. Cardinality(mine[t]) = MinSize /\ pc[t] \in Founding
  BY DEF StartupKeep, FoundersHold, Founding
<1>2. pending >= MinSize
  <2>1. IsFiniteSet(Creators) /\ IsFiniteSet(Founders) /\ t \in Founders
    <3>1. Creators \in SUBSET Tasks /\ Founders \in SUBSET Tasks
      BY DEF Creators, Founders
    <3> QED BY <1>1, <3>1, FS_Subset, PopulationAssumption DEF Founders
  <2>2. Cardinality(Founders) \in Nat \ {0} /\ Cardinality(Creators) \in Nat
    BY <2>1, FS_EmptySet, FS_CardinalityType
  <2>3. MinSize * Cardinality(Founders) >= MinSize
    <3>1. \A f \in Nat \ {0} : MinSize * f >= MinSize
      <4> SUFFICES ASSUME NEW f \in Nat \ {0} PROVE MinSize * f >= MinSize
        OBVIOUS
      <4>1. f - 1 \in Nat /\ f = (f - 1) + 1
        OBVIOUS
      <4>2. MinSize * f = MinSize * (f - 1) + MinSize
            /\ MinSize * (f - 1) \in Nat
        BY <1>z, <4>1, Multiples
      <4> QED BY <1>z, <4>2
    <3> QED BY <2>2, <3>1
  <2>4. PICK m \in Nat : m = MinSize * Cardinality(Founders) /\ m >= MinSize
    <3>1. MinSize * Cardinality(Founders) \in Nat
      BY <1>z, <2>2, Multiples
    <3> QED BY <2>3, <3>1
  <2>5. pending >= Cardinality(Creators) + m
    BY <2>4 DEF PendingCovers, Slots
  <2> QED BY <1>t, <1>z, <2>2, <2>4, <2>5
<1>3. PICK order \in [1..MinSize -> mine[t]] :
        IsInjective(order) /\ free' = Pushed(free, order)
  BY DEF StartupKeep
<1>4. mine[t] \in SUBSET Conns
  BY <1>t
<1>5. Range(order) = mine[t] /\ order \in Seq(Conns) /\ Len(order) = MinSize
  BY <1>z, <1>1, <1>3, <1>4, OrderIsComplete
<1>6. Len(free) + Len(order) <= MaxSize
  BY <1>t, <1>z, <1>2, <1>5 DEF CapacityBound
<1> QED BY <1>t, <1>3, <1>5, <1>6, PushedKeepsAll

\* A returned connection is added to the deque, which drops none for it.
LEMMA ReturnFacts ==
  ASSUME IInv, PendingCovers, NEW t \in Tasks, ReleaseFree(t)
  PROVE  Range(free') = Range(free) \cup mine[t]
<1>z. MaxSize \in Nat /\ MinSize \in Nat
  BY SizeAssumption
<1>t. /\ free \in Seq(Conns) /\ Len(free) \in Nat /\ pending \in Int
      /\ mine \in [Tasks -> SUBSET Conns] /\ CapacityBound
      /\ IsFiniteSet(acquired)
  <2>1. /\ free \in Seq(Conns) /\ pending \in Int /\ acquired \in SUBSET Conns
        /\ mine \in [Tasks -> SUBSET Conns] /\ CapacityBound
    BY DEF IInv, TypeOK
  <2> QED BY <2>1, LenProperties, FS_Subset, PopulationAssumption
<1>1. PICK c \in mine[t] : free' = Pushed(free, <<c>>)
  BY DEF ReleaseFree
<1>2. mine[t] = {c} /\ c \in acquired /\ c \in Conns
  BY <1>1, <1>t DEF ReleaseFree, IInv, Ownership, HoldsOne
<1>3. Cardinality(acquired) \in Nat \ {0}
  BY <1>t, <1>2, FS_EmptySet, FS_CardinalityType
<1>4. Slots \in Nat
  <2>1. Creators \in SUBSET Tasks /\ Founders \in SUBSET Tasks
    BY DEF Creators, Founders
  <2>2. Cardinality(Creators) \in Nat /\ Cardinality(Founders) \in Nat
    BY <2>1, FS_Subset, FS_CardinalityType, PopulationAssumption
  <2>3. MinSize * Cardinality(Founders) \in Nat
    BY <1>z, <2>2, Multiples
  <2> QED BY <2>2, <2>3 DEF Slots
<1>5. /\ <<c>> \in Seq(Conns) /\ Len(<<c>>) = 1 /\ Range(<<c>>) = {c}
  BY <1>2 DEF Range
<1>6. Len(free) + Len(<<c>>) <= MaxSize
  BY <1>t, <1>z, <1>3, <1>4, <1>5 DEF CapacityBound, PendingCovers
<1> QED BY <1>t, <1>1, <1>2, <1>5, <1>6, PushedKeepsAll

-----------------------------------------------------------------------------
(* Idle times, initiators, and what opens a pool *)

Accounts == IInv /\ PendingCovers /\ FoundersHold /\ RestersHoldNothing

LEMMA AccountsStep == Accounts /\ [Next]_vars => Accounts'
<1> QED BY InvariantStep, CoversStep, FoundersStep, RestersStep DEF Accounts

\* The slots cover the creations in flight, a startup holds the connections it
\* creates, and a task outside its network calls holds none.
THEOREM AccountsCorrect == Spec => []Accounts
<1>1. Init => Accounts
  <2>1. Init => PendingCovers
    BY SlotsInit DEF Init, PendingCovers
  <2>2. Init => FoundersHold /\ RestersHoldNothing
    BY DEF Init, FoundersHold, RestersHoldNothing, Founding
  <2> QED BY <2>1, <2>2, InvariantInit DEF Accounts
<1> QED BY <1>1, AccountsStep, PTL DEF Spec

\* popleft takes exactly the head away.
LEMMA TailRange ==
  ASSUME NEW q \in Seq(Conns), q # <<>>, IsInjective(q)
  PROVE  Range(Tail(q)) = Range(q) \ {Head(q)}
<1>1. /\ Len(q) \in Nat \ {0} /\ DOMAIN q = 1..Len(q) /\ Head(q) = q[1]
      /\ Tail(q) \in Seq(Conns)
      /\ Len(Tail(q)) = Len(q) - 1
      /\ \A i \in 1 .. Len(Tail(q)) : Tail(q)[i] = q[i+1]
  BY EmptySeq, LenProperties, HeadTailProperties
<1>2. /\ Range(Tail(q)) \subseteq Range(q)
      /\ Head(q) \notin Range(Tail(q))
  BY TailProperties
<1>3. ASSUME NEW i \in 1..Len(q), q[i] # Head(q) PROVE q[i] \in Range(Tail(q))
  <2>1. i - 1 \in 1 .. Len(q) - 1 /\ (i - 1) + 1 = i
    BY <1>1, <1>3
  <2>2. Tail(q)[i - 1] = q[i] /\ i - 1 \in DOMAIN Tail(q)
    BY <1>1, <2>1, LenProperties
  <2> QED BY <2>2 DEF Range
<1>4. Range(q) \ {Head(q)} \subseteq Range(Tail(q))
  BY <1>1, <1>3 DEF Range
<1> QED BY <1>2, <1>4

LEMMA IdleTimesStep ==
  ASSUME Accounts, IdleTimesMatch, [Next]_vars
  PROVE  IdleTimesMatch'
<1>same. ASSUME free' = free, idleSince' = idleSince PROVE IdleTimesMatch'
  BY <1>same DEF IdleTimesMatch
<1>pop. ASSUME free # <<>>, PopFree PROVE IdleTimesMatch'
  <2>1. free \in Seq(Conns) /\ IsInjective(free)
    BY DEF Accounts, IInv, TypeOK, Ownership, FreeIsUnshared
  <2>2. Range(Tail(free)) = Range(free) \ {Head(free)}
    BY <1>pop, <2>1, TailRange
  <2> QED BY <1>pop, <2>2 DEF PopFree, IdleTimesMatch
<1>1. ASSUME NEW t \in Tasks, Acquire(t) PROVE IdleTimesMatch'
  BY <1>1, <1>same, <1>pop DEF Acquire, TakeFree, TakeForPing, SkipFree, Reserve,
                               Wait, Refuse, shared
<1>2. ASSUME NEW t \in Tasks, ReleaseFree(t) PROVE IdleTimesMatch'
  BY <1>2, ReturnFacts DEF ReleaseFree, IdleTimesMatch, Accounts
<1>3. ASSUME NEW t \in Tasks, StartupKeep(t) PROVE IdleTimesMatch'
  BY <1>3, KeepFacts DEF StartupKeep, IdleTimesMatch, Accounts
<1>4. ASSUME NEW t \in Tasks, Shutdown(t) PROVE IdleTimesMatch'
  <2>1. free' = <<>> /\ idleSince' = {}
    BY <1>4 DEF Shutdown
  <2>2. Range(<<>>) = {}
    BY DEF Range
  <2> QED BY <2>1, <2>2 DEF IdleTimesMatch
<1>5. ASSUME NEW t \in Tasks,
             \/ Queue(t) \/ Use(t) \/ Discard(t) \/ DiscardLast(t)
             \/ Checkout(t) \/ ReleaseBroken(t) \/ ReleaseForeign(t)
      PROVE  IdleTimesMatch'
  BY <1>5, <1>same DEF Queue, Use, Discard, DiscardLast, Checkout, Created,
     CreateFailed, PingAnswered, PingFailed, ReleaseBroken, ReleaseForeign,
     shared
<1>6. ASSUME NEW t \in Tasks, Startup(t) PROVE IdleTimesMatch'
  BY <1>6, <1>same DEF Startup, StartupJoin, StartupBegin, StartupEmpty,
                       StartupTooLarge
<1>7. ASSUME NEW t \in Tasks, StartupProceeds(t), ~StartupKeep(t)
      PROVE  IdleTimesMatch'
  BY <1>7, <1>same DEF StartupProceeds, ChildEnds, StartupDrop, StartupAborted,
                       StartupCollected, GiveUpStartup, JoinEnds, shared
<1>8. ASSUME NEW t \in Tasks, Cancel(t) PROVE IdleTimesMatch'
  BY <1>8, <1>same DEF Cancel, PingCancelled, QueueCancelled, WaitCancelled,
     StartupCancelled, CollectCancelled, JoinCancelled, DiscardCancelled, shared
<1>9. ASSUME StaleUse \/ UNCHANGED vars PROVE IdleTimesMatch'
  BY <1>9, <1>same DEF StaleUse, shared, vars
<1> QED BY <1>1, <1>2, <1>3, <1>4, <1>5, <1>6, <1>7, <1>8, <1>9
        DEF Next, Release

\* The pop of a connection's idle time never raises KeyError, and no time
\* outlives its connection's stay in the deque (_idle_since).
THEOREM IdleTimesCorrect == Spec => []IdleTimesMatch
<1>1. Init => IdleTimesMatch
  <2>1. Range(<<>>) = {}
    BY DEF Range
  <2> QED BY <2>1 DEF Init, IdleTimesMatch
<1> QED BY <1>1, IdleTimesStep, AccountsCorrect, PTL DEF Spec

Initiating == Founding \cup {"unwinding"}

LEMMA OneStarterStep ==
  ASSUME IInv, OneStarter, [Next]_vars
  PROVE  OneStarter'
<1>t. pc \in [Tasks -> Places]
  BY DEF IInv, TypeOK
<1>i. Initiating = {"starting", "aborting", "collecting", "unwinding"}
  BY DEF Initiating, Founding
<1>o. OneStarter <=>
        /\ starting <=> \E t \in Tasks : pc[t] \in Initiating
        /\ \A t, u \in Tasks :
             pc[t] \in Initiating /\ pc[u] \in Initiating => t = u
        /\ (\E t \in Tasks : pc[t] = "joining") => starting
  BY DEF OneStarter, Initiating
<1>p. OneStarter' <=>
        /\ starting' <=> \E t \in Tasks : pc'[t] \in Initiating
        /\ \A t, u \in Tasks :
             pc'[t] \in Initiating /\ pc'[u] \in Initiating => t = u
        /\ (\E t \in Tasks : pc'[t] = "joining") => starting'
  BY DEF OneStarter, Initiating, Founding
<1>others. ASSUME NEW t \in Tasks, OthersCalm(t)
           PROVE  \A u \in Tasks \ {t} :
                    /\ pc'[u] \in Initiating <=> pc[u] \in Initiating
                    /\ pc'[u] = "joining" => pc[u] = "joining"
  BY <1>others, <1>i DEF OthersCalm, Resting
<1>same. ASSUME NEW t \in Tasks, OthersCalm(t), starting' = starting,
                pc'[t] \in Initiating <=> pc[t] \in Initiating,
                pc'[t] = "joining" => pc[t] = "joining" \/ starting
         PROVE  OneStarter'
  BY <1>same, <1>others, <1>o, <1>p
<1>ends. ASSUME NEW t \in Tasks, OthersCalm(t), pc[t] \in Initiating,
                NEW p \in [Tasks -> Places], StartupFails(t, p)
         PROVE  OneStarter'
  <2>1. pc'[t] = "idle" /\ starting' = FALSE
        /\ \A u \in Tasks : pc'[u] # "joining"
    BY <1>ends DEF StartupFails, StartupSet
  <2>2. \A u \in Tasks \ {t} : pc'[u] \notin Initiating
    BY <1>ends, <1>others, <1>o
  <2> QED BY <2>1, <2>2, <1>p, <1>i
<1>1. ASSUME NEW t \in Tasks, OthersCalm(t), Queue(t) \/ Use(t)
      PROVE  OneStarter'
  BY <1>1, <1>t, <1>i, <1>same DEF Queue, Use, locals, shared
<1>2. ASSUME NEW t \in Tasks, OthersCalm(t), Acquire(t) PROVE OneStarter'
  <2>1. CASE Refuse(t)
    <3>1. pc'[t] = "idle" /\ pc[t] \in {"idle", "ready"} /\ starting' = starting
      BY <2>1, Landing DEF Refuse, Enters, IInv, shared
    <3> QED BY <1>2, <3>1, <1>i, <1>same
  <2>2. CASE ~Refuse(t)
    BY <1>2, <2>2, <1>t, <1>i, <1>same
       DEF Acquire, TakeFree, TakeForPing, SkipFree, Reserve, Wait, Enters, Go,
           shared
  <2> QED BY <2>1, <2>2
<1>3. ASSUME NEW t \in Tasks, OthersCalm(t), Checkout(t) PROVE OneStarter'
  <2>1. /\ starting' = starting
        /\ pc[t] \in {"creating", "pinging"}
        /\ pc'[t] \in {"using", "refusing", "skipping", "idle"}
    BY <1>3, <1>t, Landing DEF Checkout, Created, CreateFailed, PingAnswered,
                               PingFailed, shared, IInv
  <2> QED BY <1>3, <2>1, <1>i, <1>same
<1>4. ASSUME NEW t \in Tasks, OthersCalm(t), Release(t) PROVE OneStarter'
  <2>1. starting' = starting /\ pc[t] = "using" /\ pc'[t] \in {"idle", "retiring"}
    BY <1>4, <1>t, Landing DEF Release, ReleaseFree, ReleaseBroken,
                               ReleaseForeign, shared, IInv
  <2> QED BY <1>4, <2>1, <1>i, <1>same
<1>5. ASSUME NEW t \in Tasks, OthersCalm(t), Startup(t) PROVE OneStarter'
  <2>1. CASE StartupBegin(t)
    <3>1. /\ starting' = TRUE /\ ~starting
          /\ pc[t] = "idle" /\ pc'[t] = "starting"
      BY <2>1, <1>t DEF StartupBegin, Go
    <3>2. \A u \in Tasks \ {t} : pc'[u] \notin Initiating
      BY <1>5, <3>1, <1>others, <1>o
    <3> QED BY <3>1, <3>2, <1>p, <1>i
  <2>2. CASE ~StartupBegin(t)
    BY <1>5, <2>2, <1>t, <1>i, <1>same
       DEF Startup, StartupJoin, StartupEmpty, StartupTooLarge, locals
  <2> QED BY <2>1, <2>2
<1>give. ASSUME NEW t \in Tasks, OthersCalm(t), pc[t] \in Founding,
                GiveUpStartup(t)
         PROVE  OneStarter'
  <2>1. Notified(pc) \in [Tasks -> Places] /\ pc[t] \in Initiating
    BY <1>t, <1>give, WakingTypes DEF IInv, TypeOK, Initiating
  <2>2. CASE Survivors(t) = {}
    BY <1>give, <2>1, <2>2, <1>ends DEF GiveUpStartup
  <2>3. CASE Survivors(t) # {}
    <3>1. pc'[t] = "unwinding" /\ starting' = starting
      BY <1>give, <2>3, Landing DEF GiveUpStartup, IInv
    <3> QED BY <1>give, <2>1, <3>1, <1>i, <1>same
  <2> QED BY <2>2, <2>3
<1>6. ASSUME NEW t \in Tasks, OthersCalm(t), StartupProceeds(t)
      PROVE  OneStarter'
  <2>1. CASE StartupKeep(t)
    <3>1. pc[t] = "starting" /\ pc'[t] = "idle" /\ starting' = FALSE
          /\ \A u \in Tasks : pc'[u] # "joining"
      BY <2>1, Landing DEF StartupKeep, StartupSet, IInv
    <3>2. \A u \in Tasks \ {t} : pc'[u] \notin Initiating
      BY <1>6, <3>1, <1>others, <1>o, <1>i
    <3> QED BY <3>1, <3>2, <1>p, <1>i
  <2>2. CASE StartupDrop(t) \/ StartupCollected(t)
    BY <1>6, <2>2, <1>give DEF StartupDrop, StartupCollected, Founding
  <2>3. CASE ChildEnds(t) \/ StartupAborted(t) \/ JoinEnds(t)
    BY <1>6, <2>3, <1>t, <1>i, <1>same
       DEF ChildEnds, StartupAborted, JoinEnds, locals, shared
  <2> QED BY <1>6, <2>1, <2>2, <2>3 DEF StartupProceeds
<1>7. ASSUME NEW t \in Tasks, OthersCalm(t), Shutdown(t) PROVE OneStarter'
  <2>1. /\ starting' = starting /\ pc[t] = "idle"
        /\ pc'[t] \in {"idle", "draining"}
    BY <1>7, Landing DEF Shutdown, IInv
  <2> QED BY <1>7, <2>1, <1>i, <1>same
<1>raise. ASSUME NEW t \in Tasks, OthersCalm(t), Raises(t) PROVE OneStarter'
  <2>1. CASE pc[t] = "unwinding"
    <3>1. StartupFails(t, pc)
      BY <1>raise, <2>1 DEF Raises
    <3> QED BY <1>raise, <2>1, <3>1, <1>ends, <1>t, <1>i
  <2>2. CASE pc[t] # "unwinding"
    <3>1. /\ starting' = starting /\ pc'[t] = "idle"
          /\ pc[t] \in {"skipping", "refusing", "retiring", "draining"}
      BY <1>raise, <2>2, Landing DEF Raises, IInv
    <3> QED BY <1>raise, <3>1, <1>i, <1>same
  <2> QED BY <2>1, <2>2
<1>8. ASSUME NEW t \in Tasks, OthersCalm(t), Discard(t) \/ DiscardLast(t)
      PROVE  OneStarter'
  <2>1. CASE Discard(t)
    BY <1>8, <2>1, <1>same DEF Discard, Discarding, shared
  <2>2. CASE DiscardLast(t) /\ Raises(t)
    BY <1>8, <2>2, <1>raise
  <2>3. CASE DiscardLast(t) /\ ~Raises(t)
    BY <1>8, <2>3, <1>t, <1>i, <1>same DEF DiscardLast, Go
  <2> QED BY <1>8, <2>1, <2>2, <2>3
<1>9. ASSUME NEW t \in Tasks, OthersCalm(t), Cancel(t) PROVE OneStarter'
  <2>1. CASE PingCancelled(t) \/ WaitCancelled(t)
    <3>1. /\ starting' = starting /\ pc'[t] = "idle"
          /\ pc[t] \in {"pinging", "waiting", "ready"}
      BY <2>1, Landing DEF PingCancelled, WaitCancelled, shared, IInv
    <3> QED BY <1>9, <3>1, <1>i, <1>same
  <2>2. CASE CollectCancelled(t)
    BY <1>9, <2>2, <1>ends, <1>t, <1>i DEF CollectCancelled
  <2>3. CASE DiscardCancelled(t)
    BY <1>9, <2>3, <1>raise DEF DiscardCancelled
  <2>4. CASE QueueCancelled(t) \/ StartupCancelled(t) \/ JoinCancelled(t)
    BY <1>9, <2>4, <1>t, <1>i, <1>same
       DEF QueueCancelled, StartupCancelled, JoinCancelled, shared
  <2> QED BY <1>9, <2>1, <2>2, <2>3, <2>4 DEF Cancel
<1>10. ASSUME StaleUse \/ UNCHANGED vars PROVE OneStarter'
  BY <1>10 DEF StaleUse, locals, shared, vars, OneStarter
<1> QED BY <1>1, <1>2, <1>3, <1>4, <1>5, <1>6, <1>7, <1>8, <1>9, <1>10, OneActs
        DEF Acts

\* A startup event has exactly one initiator, which will set it for those who
\* joined, whatever fails or is cancelled.
THEOREM OneStarterCorrect == Spec => []OneStarter
<1>1. Init => OneStarter
  BY DEF Init, OneStarter, Founding
<1> QED BY <1>1, OneStarterStep, InvariantCorrect, PTL DEF Spec

\* A startup that opens the pool has filled it to minsize with connections that
\* are connected.
THEOREM OpensFilledCorrect == Spec => OpensFilled
<1>1. ASSUME Accounts, Next, ~opened, opened'
      PROVE  /\ Cardinality(acquired') + Len(free') >= MinSize
             /\ \A c \in Range(free') \ Range(free) : state'[c] = "open"
  <2>z. MinSize \in Nat
    BY SizeAssumption
  <2>t. /\ Len(free) \in Nat /\ Len(free') \in Nat
        /\ Cardinality(acquired') \in Nat
    <3>1. /\ free \in Seq(Conns) /\ free' \in Seq(Conns)
          /\ acquired' \in SUBSET Conns
      BY <1>1, AccountsStep DEF Accounts, IInv, TypeOK
    <3> QED BY <3>1, LenProperties, FS_Subset, FS_CardinalityType,
               PopulationAssumption
  <2>1. PICK t \in Tasks : StartupKeep(t) \/ StartupEmpty(t)
    <3>1. ~StaleUse
      BY <1>1 DEF StaleUse, shared
    <3>2. PICK t \in Tasks : Acts(t)
      BY <1>1, <3>1, OneActs DEF Accounts
    <3>3. opened' # opened
      BY <1>1
    <3>4. ~(Queue(t) \/ Acquire(t) \/ Checkout(t) \/ Use(t) \/ Release(t))
      BY <3>3 DEF Queue, Acquire, TakeFree, TakeForPing, SkipFree, Reserve, Wait,
         Refuse, Checkout, Created, CreateFailed, PingAnswered, PingFailed, Use,
         Release, ReleaseFree, ReleaseBroken, ReleaseForeign, shared
    <3>5. ~(Shutdown(t) \/ Discard(t) \/ DiscardLast(t) \/ Cancel(t))
      BY <1>1, <3>3 DEF Shutdown, Discard, DiscardLast, Cancel, PingCancelled,
         QueueCancelled, WaitCancelled, StartupCancelled, CollectCancelled,
         JoinCancelled, DiscardCancelled, shared
    <3>6. Startup(t) => StartupEmpty(t)
      BY <3>3 DEF Startup, StartupJoin, StartupBegin, StartupTooLarge
    <3>7. StartupProceeds(t) => StartupKeep(t)
      BY <3>3 DEF StartupProceeds, ChildEnds, StartupDrop, StartupAborted,
                  StartupCollected, GiveUpStartup, JoinEnds, shared
    <3> QED BY <3>2, <3>4, <3>5, <3>6, <3>7 DEF Acts
  <2>2. CASE StartupEmpty(t)
    <3>1. free' = free /\ MinSize = 0
      BY <2>2 DEF StartupEmpty
    <3> QED BY <2>t, <3>1
  <2>3. CASE StartupKeep(t)
    <3>1. /\ Range(free') = Range(free) \cup mine[t]
          /\ Len(free') = Len(free) + MinSize
      BY <1>1, <2>3, KeepFacts DEF Accounts
    <3>2. \A c \in mine[t] : state'[c] = "open"
      BY <2>3 DEF StartupKeep, Survivors
    <3> QED BY <2>t, <2>z, <3>1, <3>2
  <2> QED BY <2>1, <2>2, <2>3
<1>2. Accounts /\ [Next]_vars =>
        [~opened /\ opened' =>
           /\ Cardinality(acquired') + Len(free') >= MinSize
           /\ \A c \in Range(free') \ Range(free) : state'[c] = "open"]_vars
  BY <1>1
<1> QED BY <1>2, AccountsCorrect, PTL DEF Spec, OpensFilled

-----------------------------------------------------------------------------
(* What is lent out *)

\* Which connections become, and cease to be, registered as borrowed.
LEMMA AcquiredMoves ==
  ASSUME TypeOK, NEW t \in Tasks, Acts(t), NEW c
  PROVE  /\ c \in acquired' \ acquired =>
              c \in mine'[t] /\ (TakeFree(t) \/ TakeForPing(t) \/ Created(t))
         /\ c \in acquired \ acquired' =>
              \/ Shutdown(t)
              \/ c \in mine[t] /\ pc[t] \in {"pinging", "using"}
<1> DEFINE Goal ==
         /\ c \in acquired' \ acquired =>
              c \in mine'[t] /\ (TakeFree(t) \/ TakeForPing(t) \/ Created(t))
         /\ c \in acquired \ acquired' =>
              \/ Shutdown(t)
              \/ c \in mine[t] /\ pc[t] \in {"pinging", "using"}
<1>t. pc \in [Tasks -> Places] /\ mine \in [Tasks -> SUBSET Conns]
  BY DEF TypeOK
<1>same. ASSUME acquired' = acquired PROVE Goal
  BY <1>same
<1>1. ASSUME Acquire(t) PROVE Goal
  BY <1>1, <1>t DEF Acquire, TakeFree, TakeForPing, SkipFree, Reserve, Wait,
                    Refuse, Go, shared
<1>2. ASSUME Checkout(t) PROVE Goal
  BY <1>2, <1>t DEF Checkout, Created, CreateFailed, PingAnswered, PingFailed,
                    shared
<1>3. ASSUME Release(t) PROVE Goal
  BY <1>3 DEF Release, ReleaseFree, ReleaseBroken, ReleaseForeign, shared
<1>4. ASSUME \/ Queue(t) \/ Use(t) \/ Startup(t) \/ StartupProceeds(t)
             \/ Discard(t) \/ DiscardLast(t) \/ Cancel(t)
      PROVE  Goal
  <2>1. acquired' = acquired
    BY <1>4 DEF Queue, Use, Startup, StartupJoin, StartupBegin, StartupEmpty,
       StartupTooLarge, StartupProceeds, ChildEnds, StartupKeep, StartupDrop,
       StartupAborted, StartupCollected, GiveUpStartup, JoinEnds, Discard,
       DiscardLast, Cancel, PingCancelled, QueueCancelled, WaitCancelled,
       StartupCancelled, CollectCancelled, JoinCancelled, DiscardCancelled,
       shared
  <2> QED BY <2>1, <1>same
<1>5. ASSUME Shutdown(t) PROVE Goal
  BY <1>5 DEF Shutdown
<1> HIDE DEF Goal
<1>6. Goal
  BY <1>1, <1>2, <1>3, <1>4, <1>5 DEF Acts
<1> QED BY <1>6 DEF Goal

\* A connection that two tasks hold is being drained by one of them.
LEMMA SharedIsDrained ==
  ASSUME Ownership, NEW t \in Tasks, NEW u \in Tasks, t # u,
         NEW c \in mine[t], c \in mine[u]
  PROVE  \/ pc[t] = "draining" /\ pc[u] \in Overtaken
         \/ pc[u] = "draining" /\ pc[t] \in Overtaken
<1> QED BY DEF Ownership, HeldApart

LEMMA PingedStep ==
  ASSUME IInv, PingedIsOpen, [Next]_vars
  PROVE  PingedIsOpen'
<1>t. /\ TypeOK /\ QueuedOnce /\ Ownership /\ Ownership'
      /\ pc \in [Tasks -> Places] /\ mine \in [Tasks -> SUBSET Conns]
      /\ free \in Seq(Conns)
  BY InvariantStep DEF IInv, TypeOK
<1>1. ASSUME NEW t \in Tasks, OthersCalm(t), Acts(t) PROVE PingedIsOpen'
  <2> SUFFICES ASSUME NEW u \in Tasks, pc'[u] = "pinging",
                      NEW c \in mine'[u], c \in acquired'
               PROVE  state'[c] = "open"
    BY DEF PingedIsOpen
  <2>1. CASE u = t
    <3>1. TakeForPing(t)
      BY <1>1, <1>t, <2>1, Arrivals
    <3> QED BY <3>1, <2>1, <1>t DEF TakeForPing, Go
  <2>2. CASE u # t
    <3>1. pc[u] = "pinging" /\ mine'[u] = mine[u] /\ c \in Conns /\ c \notin Fresh
      BY <1>1, <1>t, <2>2 DEF OthersCalm, Resting, Fresh, Referenced
    <3>2. c \in acquired
      <4> SUFFICES ASSUME c \notin acquired PROVE FALSE
        OBVIOUS
      <4>1. c \in mine'[t] /\ (TakeFree(t) \/ TakeForPing(t) \/ Created(t))
        BY <1>1, <1>t, AcquiredMoves
      <4>2. pc'[t] \in {"using", "pinging", "refusing"}
        BY <4>1, <1>t, Landing DEF TakeFree, TakeForPing, Go
      <4> QED BY <1>t, <2>2, <4>1, <4>2 DEF Ownership, HeldApart
    <3>3. state[c] = "open"
      BY <3>1, <3>2 DEF PingedIsOpen
    <3>4. ASSUME state'[c] # state[c] PROVE FALSE
      <4>1. /\ c \in mine[t]
            /\ pc[t] \in {"creating", "using", "starting", "aborting"}
                           \cup Discarding
        BY <1>1, <1>t, <3>1, <3>4, StateMoves
      <4>2. pc[t] = "draining"
        BY <1>t, <2>2, <3>1, <4>1, SharedIsDrained
      <4> QED BY <1>t, <3>2, <4>1, <4>2 DEF Ownership, AcquiredHeld
    <3> QED BY <3>3, <3>4
  <2> QED BY <2>1, <2>2
<1>2. ASSUME StaleUse PROVE PingedIsOpen'
  BY <1>2, <1>t DEF StaleUse, PingedIsOpen, locals, shared, Ownership,
                    FreeIsUnshared, TypeOK
<1>3. ASSUME UNCHANGED vars PROVE PingedIsOpen'
  BY <1>3 DEF vars, PingedIsOpen
<1> QED BY <1>1, <1>2, <1>3, OneActs

\* A connection under the checkout ping is open for as long as the pool counts it
\* as borrowed: only a shutdown, which takes it away first, may close it.
THEOREM PingedIsOpenCorrect == Spec => []PingedIsOpen
<1>1. Init => PingedIsOpen
  BY DEF Init, PingedIsOpen
<1> QED BY <1>1, PingedStep, InvariantCorrect, PTL DEF Spec

\* What connection() hands to a borrower is connected, executes no query and is
\* registered as borrowed, also after the network calls that a shutdown or a
\* stale user may overtake.
THEOREM LeasedIsUsableCorrect == Spec => LeasedIsUsable
<1>1. ASSUME IInv, PingedIsOpen, Next, NEW u \in Tasks,
             pc[u] # "using", pc'[u] = "using", NEW c \in mine'[u]
      PROVE  state'[c] = "open" /\ c \in acquired'
  <2>t. /\ TypeOK /\ QueuedOnce /\ Ownership
        /\ pc \in [Tasks -> Places] /\ mine \in [Tasks -> SUBSET Conns]
        /\ free \in Seq(Conns) /\ state \in [Conns -> ConnStates]
    BY <1>1 DEF IInv, TypeOK
  <2>1. ~StaleUse
    BY <1>1 DEF StaleUse, locals
  <2>2. PICK t \in Tasks : OthersCalm(t) /\ Acts(t)
    BY <1>1, <2>1, OneActs
  <2>3. u = t
    BY <1>1, <2>2 DEF OthersCalm
  <2>4. TakeFree(t) \/ Created(t) \/ PingAnswered(t)
    BY <1>1, <2>t, <2>2, <2>3, Arrivals
  <2>5. CASE TakeFree(t)
    BY <1>1, <2>t, <2>3, <2>5 DEF TakeFree, Go
  <2>6. CASE Created(t)
    <3>1. Current(t)
      BY <1>1, <2>t, <2>3, <2>6, Landing
    <3> QED BY <1>1, <2>t, <2>3, <2>6, <3>1 DEF Created
  <2>7. CASE PingAnswered(t)
    <3>1. /\ mine' = mine /\ state' = state /\ acquired' = acquired
          /\ mine[t] \subseteq acquired /\ pc[t] = "pinging"
      BY <1>1, <2>t, <2>3, <2>7 DEF PingAnswered, shared
    <3> QED BY <1>1, <2>3, <3>1 DEF PingedIsOpen
  <2> QED BY <2>4, <2>5, <2>6, <2>7
<1>2. IInv /\ PingedIsOpen /\ [Next]_vars =>
        [\A t \in Tasks :
           pc[t] # "using" /\ pc'[t] = "using" =>
             \A c \in mine'[t] : state'[c] = "open" /\ c \in acquired']_vars
  BY <1>1
<1> QED BY <1>2, InvariantCorrect, PingedIsOpenCorrect, PTL
        DEF Spec, LeasedIsUsable

-----------------------------------------------------------------------------
(* The semaphore *)

LEMMA SemaphoreStep ==
  ASSUME IInv, SemaphoreBound, [Next]_vars
  PROVE  SemaphoreBound'
<1>t. /\ TypeOK /\ QueuedOnce
      /\ pc \in [Tasks -> Places] /\ queue \in Seq(Tasks)
      /\ \A i \in DOMAIN queue : queue[i] \in Tasks /\ pc[queue[i]] = "queued"
  BY LenProperties DEF IInv, TypeOK, QueuedOnce
<1>z. MaxSize \in Nat
  BY SizeAssumption
<1>b. Borrowing = {"ready", "waiting", "creating", "pinging", "using",
                   "skipping", "refusing", "retiring"}
  BY DEF Borrowing
<1>i. /\ IsFiniteSet(Inside) /\ Cardinality(Inside) \in Nat
      /\ Inside' = {t \in Tasks : pc'[t] \in Borrowing}
  <2>1. Inside \in SUBSET Tasks
    BY DEF Inside
  <2> QED BY <2>1, FS_Subset, FS_CardinalityType, PopulationAssumption
          DEF Inside, Borrowing
<1>subset. ASSUME Inside' \subseteq Inside PROVE SemaphoreBound'
  <2>1. Cardinality(Inside') <= Cardinality(Inside) /\ Cardinality(Inside') \in Nat
    BY <1>subset, <1>i, FS_Subset, FS_CardinalityType
  <2> QED BY <1>i, <1>z, <2>1 DEF SemaphoreBound
<1>kept. ASSUME NEW t \in Tasks,
                \A u \in Tasks \ {t} : pc'[u] \in Borrowing => pc[u] \in Borrowing,
                pc'[t] \in Borrowing => pc[t] \in Borrowing
         PROVE  SemaphoreBound'
  BY <1>kept, <1>i, <1>subset DEF Inside
<1>swap. ASSUME NEW t \in Inside, NEW h, Inside' \subseteq (Inside \ {t}) \cup {h}
         PROVE  SemaphoreBound'
  <2>1. /\ IsFiniteSet(Inside \ {t})
        /\ Cardinality(Inside \ {t}) = Cardinality(Inside) - 1
    BY <1>i, FS_RemoveElement
  <2>2. /\ IsFiniteSet((Inside \ {t}) \cup {h})
        /\ Cardinality((Inside \ {t}) \cup {h}) <= Cardinality(Inside)
    <3>1. /\ IsFiniteSet((Inside \ {t}) \cup {h})
          /\ \/ Cardinality((Inside \ {t}) \cup {h}) = Cardinality(Inside \ {t})
             \/ Cardinality((Inside \ {t}) \cup {h}) = Cardinality(Inside \ {t}) + 1
      BY <2>1, FS_AddElement
    <3> QED BY <1>i, <2>1, <3>1
  <2>3. /\ Cardinality(Inside') <= Cardinality((Inside \ {t}) \cup {h})
        /\ Cardinality(Inside') \in Nat
        /\ Cardinality((Inside \ {t}) \cup {h}) \in Nat
    BY <1>swap, <2>2, FS_Subset, FS_CardinalityType
  <2> QED BY <1>i, <1>z, <2>2, <2>3 DEF SemaphoreBound
<1>add. ASSUME NEW t \in Tasks, Cardinality(Inside) < MaxSize,
               Inside' \subseteq Inside \cup {t}
        PROVE  SemaphoreBound'
  <2>1. /\ IsFiniteSet(Inside \cup {t})
        /\ Cardinality(Inside \cup {t}) <= Cardinality(Inside) + 1
    <3>1. /\ IsFiniteSet(Inside \cup {t})
          /\ \/ Cardinality(Inside \cup {t}) = Cardinality(Inside)
             \/ Cardinality(Inside \cup {t}) = Cardinality(Inside) + 1
      BY <1>i, FS_AddElement
    <3> QED BY <1>i, <3>1
  <2>2. /\ Cardinality(Inside') <= Cardinality(Inside \cup {t})
        /\ Cardinality(Inside') \in Nat /\ Cardinality(Inside \cup {t}) \in Nat
    BY <1>add, <2>1, FS_Subset, FS_CardinalityType
  <2> QED BY <1>add, <1>i, <1>z, <2>1, <2>2 DEF SemaphoreBound
\* A permit is handed to the oldest waiter when its holder leaves.
<1>left. ASSUME NEW t \in Tasks, pc[t] \in Borrowing,
                Leave(t) \/ LeaveNotifying(t)
         PROVE  SemaphoreBound'
  <2> DEFINE p == [pc EXCEPT ![t] = "idle"]
  <2>1. \A u \in Tasks :
          pc'[u] \in Borrowing => Handover(p)[u] \in Borrowing
    BY <1>left, <1>b DEF Leave, LeaveNotifying, Notified
  <2>2. \A u \in Tasks :
          p[u] \in Borrowing <=> u \in Inside \ {t}
    BY <1>t, <1>b DEF Inside
  <2>3. p \in [Tasks -> Places]
    BY <1>t DEF Places
  <2> HIDE DEF p
  <2>4. CASE queue = <<>>
    <3>1. Handover(p) = p
      BY <2>4 DEF Handover
    <3> QED BY <2>1, <2>2, <3>1, <1>i, <1>subset
  <2>5. CASE queue # <<>>
    <3>1. Handover(p) = [p EXCEPT ![Head(queue)] = "ready"]
      BY <2>5 DEF Handover
    <3>2. \A u \in Tasks :
            Handover(p)[u] \in Borrowing => p[u] \in Borrowing \/ u = Head(queue)
      BY <2>3, <3>1
    <3>3. Inside' \subseteq (Inside \ {t}) \cup {Head(queue)}
      BY <2>1, <2>2, <3>2, <1>i
    <3>4. t \in Inside
      BY <1>left DEF Inside
    <3> QED BY <3>3, <3>4, <1>swap
  <2> QED BY <2>4, <2>5
<1>1. ASSUME NEW t \in Tasks, Queue(t) \/ Use(t) PROVE SemaphoreBound'
  BY <1>1, <1>t, <1>b, <1>kept DEF Queue, Use, locals
<1>2. ASSUME NEW t \in Tasks, Acquire(t) PROVE SemaphoreBound'
  <2>1. CASE Refuse(t)
    <3>1. CASE pc[t] = "ready"
      BY <2>1, <3>1, <1>b, <1>left DEF Refuse
    <3>2. CASE pc[t] # "ready"
      <4>1. pc[t] = "idle" /\ pc' = [pc EXCEPT ![t] = "idle"]
        BY <2>1, <3>2 DEF Refuse, Enters, Leave, Handover
      <4> QED BY <4>1, <1>t, <1>b, <1>kept
    <3> QED BY <3>1, <3>2
  <2>2. CASE ~Refuse(t)
    <3>1. /\ Enters(t)
          /\ \A u \in Tasks \ {t} : pc'[u] = pc[u]
      BY <1>2, <2>2, <1>t DEF Acquire, TakeFree, TakeForPing, SkipFree, Reserve,
                              Wait, Go
    <3>2. CASE pc[t] = "ready"
      BY <3>1, <3>2, <1>b, <1>kept
    <3>3. CASE pc[t] # "ready"
      <4>1. Cardinality(Inside) < MaxSize
        BY <3>1, <3>3 DEF Enters
      <4>2. Inside' \subseteq Inside \cup {t}
        BY <3>1, <1>i DEF Inside
      <4> QED BY <4>1, <4>2, <1>add
    <3> QED BY <3>2, <3>3
  <2> QED BY <2>1, <2>2
<1>3. ASSUME NEW t \in Tasks, Checkout(t) PROVE SemaphoreBound'
  <2>1. CASE CreateFailed(t)
    BY <2>1, <1>b, <1>left DEF CreateFailed
  <2>2. CASE ~CreateFailed(t)
    BY <1>3, <2>2, <1>t, <1>b, <1>kept
       DEF Checkout, Created, PingAnswered, PingFailed, Notified
  <2> QED BY <2>1, <2>2
<1>4. ASSUME NEW t \in Tasks, Release(t) PROVE SemaphoreBound'
  <2>1. CASE ReleaseBroken(t)
    BY <2>1, <1>t, <1>b, <1>kept DEF ReleaseBroken
  <2>2. CASE ~ReleaseBroken(t)
    BY <1>4, <2>2, <1>b, <1>left DEF Release, ReleaseFree, ReleaseForeign
  <2> QED BY <2>1, <2>2
<1>5. ASSUME NEW t \in Tasks, Startup(t) PROVE SemaphoreBound'
  BY <1>5, <1>t, <1>b, <1>kept DEF Startup, StartupJoin, StartupBegin,
     StartupEmpty, StartupTooLarge, Go, locals
<1>6. ASSUME NEW t \in Tasks, StartupProceeds(t) PROVE SemaphoreBound'
  <2>1. CASE StartupDrop(t) \/ StartupCollected(t)
    BY <2>1, <1>t, <1>b, <1>kept DEF StartupDrop, StartupCollected,
       GiveUpStartup, StartupFails, StartupSet, Notified
  <2>2. CASE StartupKeep(t)
    BY <2>2, <1>t, <1>b, <1>kept DEF StartupKeep, StartupSet, Notified
  <2>3. CASE ChildEnds(t) \/ StartupAborted(t) \/ JoinEnds(t)
    BY <2>3, <1>t, <1>b, <1>kept DEF ChildEnds, StartupAborted, JoinEnds, locals
  <2> QED BY <1>6, <2>1, <2>2, <2>3 DEF StartupProceeds
<1>7. ASSUME NEW t \in Tasks, Shutdown(t) PROVE SemaphoreBound'
  BY <1>7, <1>t, <1>b, <1>kept DEF Shutdown, Notified
<1>raise. ASSUME NEW t \in Tasks, Raises(t) PROVE SemaphoreBound'
  <2>1. CASE Leave(t) /\ pc[t] \in {"skipping", "refusing", "retiring"}
    BY <2>1, <1>b, <1>left
  <2>2. CASE ~Leave(t)
    BY <1>raise, <2>2, <1>t, <1>b, <1>kept
       DEF Raises, StartupFails, StartupSet, Go
  <2>3. CASE pc[t] = "unwinding"
    BY <1>raise, <2>3, <1>t, <1>b, <1>kept DEF Raises, StartupFails, StartupSet
  <2>4. CASE pc[t] = "draining"
    BY <1>raise, <2>4, <1>t, <1>b, <1>kept DEF Raises, Go
  <2> QED BY <1>raise, <2>1, <2>2, <2>3, <2>4 DEF Raises
<1>8. ASSUME NEW t \in Tasks, Discard(t) \/ DiscardLast(t) PROVE SemaphoreBound'
  <2>1. CASE Discard(t)
    BY <2>1, <1>kept DEF Discard
  <2>2. CASE DiscardLast(t) /\ Raises(t)
    BY <2>2, <1>raise
  <2>3. CASE DiscardLast(t) /\ ~Raises(t)
    BY <2>3, <1>t, <1>b, <1>kept DEF DiscardLast, Go
  <2> QED BY <1>8, <2>1, <2>2, <2>3
<1>9. ASSUME NEW t \in Tasks, Cancel(t) PROVE SemaphoreBound'
  <2>1. CASE PingCancelled(t) \/ WaitCancelled(t)
    BY <2>1, <1>b, <1>left DEF PingCancelled, WaitCancelled
  <2>2. CASE DiscardCancelled(t)
    BY <2>2, <1>raise DEF DiscardCancelled
  <2>3. CASE \/ QueueCancelled(t) \/ StartupCancelled(t) \/ CollectCancelled(t)
             \/ JoinCancelled(t)
    BY <2>3, <1>t, <1>b, <1>kept DEF QueueCancelled, StartupCancelled,
       CollectCancelled, JoinCancelled, StartupFails, StartupSet
  <2> QED BY <1>9, <2>1, <2>2, <2>3 DEF Cancel
<1>10. ASSUME StaleUse \/ UNCHANGED vars PROVE SemaphoreBound'
  BY <1>10 DEF StaleUse, locals, vars, SemaphoreBound, Inside
<1> QED BY <1>1, <1>2, <1>3, <1>4, <1>5, <1>6, <1>7, <1>8, <1>9, <1>10 DEF Next

\* At most maxsize borrowers are past the semaphore, whoever is woken, cancelled
\* or refused: a permit is handed on by the task that leaves, never twice.
THEOREM SemaphoreCorrect == Spec => []SemaphoreBound
<1>1. Init => SemaphoreBound
  <2> SUFFICES ASSUME Init PROVE SemaphoreBound
    OBVIOUS
  <2>1. Inside = {}
    BY DEF Init, Inside, Borrowing
  <2> QED BY <2>1, FS_EmptySet, SizeAssumption DEF SemaphoreBound
<1> QED BY <1>1, SemaphoreStep, InvariantCorrect, PTL DEF Spec

-----------------------------------------------------------------------------
(* Borrowers *)

\* How a borrower lets go of what it has checked out.
LEMMA LetsGo ==
  ASSUME TypeOK, NEW t \in Tasks, Acts(t), pc[t] \in {"pinging", "using"}
  PROVE  \/ mine'[t] = mine[t]
         \/ ReleaseFree(t) \/ ReleaseForeign(t) \/ PingCancelled(t)
<1>t. pc \in [Tasks -> Places] /\ mine \in [Tasks -> SUBSET Conns]
  BY DEF TypeOK
<1>1. ~(\/ Queue(t) \/ Acquire(t) \/ Startup(t) \/ StartupProceeds(t)
        \/ Shutdown(t) \/ Discard(t) \/ DiscardLast(t))
  BY DEF Queue, Acquire, TakeFree, TakeForPing, SkipFree, Reserve, Wait, Refuse,
     Enters, Startup, StartupJoin, StartupBegin, StartupEmpty, StartupTooLarge,
     StartupProceeds, ChildEnds, StartupKeep, StartupDrop, StartupAborted,
     StartupCollected, JoinEnds, Shutdown, Discard, DiscardLast, Discarding
<1>2. Cancel(t) => PingCancelled(t)
  BY DEF Cancel, QueueCancelled, WaitCancelled, StartupCancelled,
     CollectCancelled, JoinCancelled, DiscardCancelled, Discarding
<1>3. Checkout(t) \/ Use(t) => mine'[t] = mine[t]
  BY DEF Checkout, Created, CreateFailed, PingAnswered, PingFailed, Use, locals
<1>4. Release(t) =>
        mine'[t] = mine[t] \/ ReleaseFree(t) \/ ReleaseForeign(t)
  BY DEF Release, ReleaseBroken
<1> QED BY <1>1, <1>2, <1>3, <1>4 DEF Acts

LEMMA BorrowersStep ==
  ASSUME "cancel_ping" \notin Faults, IInv, AcquiredHasBorrower, [Next]_vars
  PROVE  AcquiredHasBorrower'
<1>t. /\ TypeOK /\ QueuedOnce /\ Ownership /\ Ownership'
      /\ pc \in [Tasks -> Places] /\ mine \in [Tasks -> SUBSET Conns]
      /\ pc' \in [Tasks -> Places] /\ mine' \in [Tasks -> SUBSET Conns]
  BY InvariantStep DEF IInv, TypeOK
<1>1. ASSUME NEW t \in Tasks, OthersCalm(t), Acts(t)
      PROVE  AcquiredHasBorrower'
  <2> SUFFICES ASSUME NEW c \in acquired'
               PROVE  \E u \in Tasks :
                        pc'[u] \in {"using", "pinging"} /\ c \in mine'[u]
    BY DEF AcquiredHasBorrower
  <2>held. ASSUME c \in mine'[t]
           PROVE  pc'[t] \in {"using", "pinging"}
    BY <1>t, <2>held DEF Ownership, AcquiredHeld
  <2>1. CASE c \notin acquired
    BY <1>1, <1>t, <2>1, <2>held, AcquiredMoves
  <2>2. CASE c \in acquired
    <3>1. PICK w \in Tasks : pc[w] \in {"using", "pinging"} /\ c \in mine[w]
      BY <2>2 DEF AcquiredHasBorrower
    <3>2. CASE w # t
      BY <1>1, <3>1, <3>2 DEF OthersCalm, Resting
    <3>3. CASE w = t
      <4>1. mine[t] = {c}
        BY <1>t, <3>1, <3>3 DEF Ownership, HoldsOne
      <4>2. ~ReleaseFree(t) /\ ~ReleaseForeign(t) /\ ~PingCancelled(t)
        BY <2>2, <4>1 DEF ReleaseFree, ReleaseForeign, PingCancelled
      <4>3. mine'[t] = mine[t]
        BY <1>1, <1>t, <3>1, <3>3, <4>2, LetsGo
      <4> QED BY <2>held, <4>1, <4>3
    <3> QED BY <3>2, <3>3
  <2> QED BY <2>1, <2>2
<1>2. ASSUME StaleUse \/ UNCHANGED vars PROVE AcquiredHasBorrower'
  BY <1>2 DEF StaleUse, locals, shared, vars, AcquiredHasBorrower
<1> QED BY <1>1, <1>2, OneActs

\* Unless a ping is cancelled, what the pool counts as borrowed has a task that
\* will return or discard it: no error path forgets a connection.
THEOREM BorrowersCorrect ==
  ASSUME "cancel_ping" \notin Faults
  PROVE  Spec => []AcquiredHasBorrower
<1>1. Init => AcquiredHasBorrower
  BY DEF Init, AcquiredHasBorrower
<1>2. IInv /\ AcquiredHasBorrower /\ [Next]_vars => AcquiredHasBorrower'
  BY BorrowersStep
<1> QED BY <1>1, <1>2, InvariantCorrect, PTL DEF Spec

-----------------------------------------------------------------------------
(* Connections that a shutdown detached *)

\* A shutdown closes what it drops from its locals.
LEMMA Drains ==
  ASSUME "cancel_drain" \notin Faults, TypeOK, NEW t \in Tasks, Acts(t),
         pc[t] = "draining", NEW c \in mine[t], c \in Conns
  PROVE  state'[c] = "down" \/ (pc'[t] = "draining" /\ c \in mine'[t])
<1>t. /\ pc \in [Tasks -> Places] /\ mine \in [Tasks -> SUBSET Conns]
      /\ state \in [Conns -> ConnStates]
  BY DEF TypeOK
<1>1. Discard(t) \/ DiscardLast(t) \/ DiscardCancelled(t)
  <2>1. ~(\/ Queue(t) \/ Acquire(t) \/ Checkout(t) \/ Use(t) \/ Release(t)
          \/ Startup(t) \/ StartupProceeds(t) \/ Shutdown(t))
    BY DEF Queue, Acquire, TakeFree, TakeForPing, SkipFree, Reserve, Wait,
       Refuse, Enters, Checkout, Created, CreateFailed, PingAnswered,
       PingFailed, Use, Release, ReleaseFree, ReleaseBroken, ReleaseForeign,
       Startup, StartupJoin, StartupBegin, StartupEmpty, StartupTooLarge,
       StartupProceeds, ChildEnds, StartupKeep, StartupDrop, StartupAborted,
       StartupCollected, JoinEnds, Shutdown
  <2>2. Cancel(t) => DiscardCancelled(t)
    BY DEF Cancel, PingCancelled, QueueCancelled, WaitCancelled,
       StartupCancelled, CollectCancelled, JoinCancelled
  <2> QED BY <2>1, <2>2 DEF Acts
<1>2. CASE Discard(t)
  BY <1>2, <1>t DEF Discard
<1>3. CASE DiscardLast(t)
  BY <1>3, <1>t DEF DiscardLast
<1>4. CASE DiscardCancelled(t)
  <2>1. Cardinality(mine[t]) = 1 /\ IsFiniteSet(mine[t])
    BY <1>4, <1>t, FS_Subset, PopulationAssumption DEF DiscardCancelled
  <2>2. mine[t] = {c}
    BY <2>1, FS_Singleton
  <2> QED BY <1>4, <1>t, <2>2 DEF DiscardCancelled
<1> QED BY <1>1, <1>2, <1>3, <1>4

LEMMA RevokedStep ==
  ASSUME "revive" \notin Faults, "cancel_drain" \notin Faults,
         IInv, RevokedIsDrained, [Next]_vars
  PROVE  RevokedIsDrained'
<1>t. /\ TypeOK /\ QueuedOnce /\ Ownership
      /\ pc \in [Tasks -> Places] /\ mine \in [Tasks -> SUBSET Conns]
  BY DEF IInv, TypeOK
<1>1. ASSUME NEW t \in Tasks, OthersCalm(t), Acts(t) PROVE RevokedIsDrained'
  <2> SUFFICES ASSUME NEW w \in Tasks, pc'[w] = "using",
                      NEW c \in mine'[w], c \notin acquired', state'[c] # "down"
               PROVE  \E u \in Tasks : pc'[u] = "draining" /\ c \in mine'[u]
    BY DEF RevokedIsDrained
  <2>1. /\ pc[w] = "using" /\ c \in mine[w]
        /\ w = t => acquired' = acquired
    <3>1. CASE w # t
      BY <1>1, <3>1 DEF OthersCalm, Resting
    <3>2. CASE w = t
      <4>1. ~TakeFree(t)
        BY <1>t, <3>2 DEF TakeFree, Go
      <4>2. ~Created(t)
        BY <1>t, <3>2, Landing DEF Created
      <4>3. ~PingAnswered(t)
        BY <1>t, <3>2 DEF PingAnswered, shared
      <4> QED BY <1>1, <1>t, <3>2, <4>1, <4>2, <4>3, Arrivals
    <3> QED BY <3>1, <3>2
  <2>2. c \in Conns /\ c \notin Fresh
    BY <1>t, <2>1 DEF Fresh, Referenced
  <2>3. CASE c \in acquired
    <3>1. CASE Shutdown(t)
      BY <1>t, <2>3, <3>1, Landing
    <3>2. CASE c \in mine[t] /\ pc[t] \in {"pinging", "using"}
      <4>1. w # t
        BY <2>1, <2>3
      <4> QED BY <1>t, <2>1, <3>2, <4>1, SharedIsDrained
    <3> QED BY <1>1, <1>t, <2>3, <3>1, <3>2, AcquiredMoves
  <2>4. CASE c \notin acquired
    <3>1. ASSUME state[c] = "down" PROVE FALSE
      <4>1. c \in mine[t] /\ pc[t] = "creating"
        BY <1>1, <1>t, <2>2, <2>4, <3>1, StateMoves
      <4> QED BY <1>t, <2>1, <4>1, SharedIsDrained
    <3>2. PICK u \in Tasks : pc[u] = "draining" /\ c \in mine[u]
      BY <2>1, <2>4, <3>1 DEF RevokedIsDrained
    <3>3. pc'[u] = "draining" /\ c \in mine'[u]
      <4>1. CASE u # t
        BY <1>1, <3>2, <4>1 DEF OthersCalm, Resting
      <4>2. CASE u = t
        BY <1>1, <1>t, <2>2, <3>2, <4>2, Drains
      <4> QED BY <4>1, <4>2
    <3> QED BY <3>3
  <2> QED BY <2>3, <2>4
<1>2. ASSUME StaleUse PROVE RevokedIsDrained'
  BY <1>2, <1>t DEF StaleUse, RevokedIsDrained, locals, shared, Ownership,
                    FreeIsUnshared, TypeOK
<1>3. ASSUME UNCHANGED vars PROVE RevokedIsDrained'
  BY <1>3 DEF vars, RevokedIsDrained
<1> QED BY <1>1, <1>2, <1>3, OneActs

\* A connection that a shutdown took from its borrower is closed by the
\* shutdown, if it has to be closed at all.
THEOREM RevokedCorrect ==
  ASSUME "revive" \notin Faults, "cancel_drain" \notin Faults
  PROVE  Spec => []RevokedIsDrained
<1>1. Init => RevokedIsDrained
  BY DEF Init, RevokedIsDrained
<1>2. IInv /\ RevokedIsDrained /\ [Next]_vars => RevokedIsDrained'
  BY RevokedStep
<1> QED BY <1>1, <1>2, InvariantCorrect, PTL DEF Spec

-----------------------------------------------------------------------------
(* Nothing leaks *)

\* A connection leaves the deque for the locals of a task.
LEMMA LeavesFree ==
  ASSUME Accounts, NEW t \in Tasks, Acts(t), NEW c \in Range(free)
  PROVE  c \in Range(free') \/ c \in mine'[t]
<1>t. /\ IInv /\ TypeOK /\ QueuedOnce /\ PendingCovers /\ FoundersHold
      /\ free \in Seq(Conns) /\ IsInjective(free)
      /\ mine \in [Tasks -> SUBSET Conns] /\ pc \in [Tasks -> Places]
  BY DEF Accounts, IInv, TypeOK, Ownership, FreeIsUnshared
<1>same. ASSUME free' = free PROVE c \in Range(free')
  BY <1>same
<1>1. ASSUME Acquire(t) PROVE c \in Range(free') \/ c \in mine'[t]
  <2>1. CASE TakeFree(t) \/ TakeForPing(t) \/ SkipFree(t)
    <3>1. free # <<>> /\ free' = Tail(free) /\ mine'[t] = {Head(free)}
      BY <2>1, <1>t DEF TakeFree, TakeForPing, SkipFree, PopFree, Go
    <3>2. Range(free') = Range(free) \ {Head(free)}
      BY <1>t, <3>1, TailRange
    <3> QED BY <3>1, <3>2
  <2>2. CASE Reserve(t) \/ Wait(t) \/ Refuse(t)
    BY <2>2, <1>same DEF Reserve, Wait, Refuse, shared
  <2> QED BY <1>1, <2>1, <2>2 DEF Acquire
<1>2. ASSUME Release(t) PROVE c \in Range(free')
  BY <1>2, <1>t, <1>same, ReturnFacts
     DEF Release, ReleaseBroken, ReleaseForeign, shared
<1>3. ASSUME StartupProceeds(t) PROVE c \in Range(free')
  <2>1. CASE StartupKeep(t)
    BY <2>1, <1>t, KeepFacts
  <2>2. CASE ~StartupKeep(t)
    BY <1>3, <2>2, <1>same DEF StartupProceeds, ChildEnds, StartupDrop,
       StartupAborted, StartupCollected, GiveUpStartup, JoinEnds, shared
  <2> QED BY <2>1, <2>2
<1>4. ASSUME Shutdown(t) PROVE c \in mine'[t]
  BY <1>4, <1>t, Landing
<1>5. ASSUME \/ Queue(t) \/ Checkout(t) \/ Use(t) \/ Startup(t)
             \/ Discard(t) \/ DiscardLast(t) \/ Cancel(t)
      PROVE  c \in Range(free')
  <2>1. free' = free
    BY <1>5 DEF Queue, Checkout, Created, CreateFailed, PingAnswered,
       PingFailed, Use, Startup, StartupJoin, StartupBegin, StartupEmpty,
       StartupTooLarge, Discard, DiscardLast, Cancel, PingCancelled,
       QueueCancelled, WaitCancelled, StartupCancelled, CollectCancelled,
       JoinCancelled, DiscardCancelled, shared
  <2> QED BY <2>1, <1>same
<1> QED BY <1>1, <1>2, <1>3, <1>4, <1>5 DEF Acts

\* A task drops from its locals what it has closed or given back, and what a
\* shutdown took from it.
LEMMA LeavesLocals ==
  ASSUME Faults \subseteq {"stale_use"}, Accounts, NEW t \in Tasks, Acts(t),
         NEW c \in mine[t], c \notin mine'[t]
  PROVE  \/ state'[c] = "down" \/ c \in Range(free')
         \/ ReleaseForeign(t)
<1>t. /\ IInv /\ TypeOK /\ QueuedOnce /\ PendingCovers /\ FoundersHold
      /\ RestersHoldNothing
      /\ mine \in [Tasks -> SUBSET Conns] /\ pc \in [Tasks -> Places]
      /\ state \in [Conns -> ConnStates] /\ c \in Conns
  BY DEF Accounts, IInv, TypeOK
<1>f. /\ "cancel_ping" \notin Faults /\ "cancel_collect" \notin Faults
      /\ "cancel_drain" \notin Faults
  OBVIOUS
<1>r. pc[t] \notin Resters
  BY <1>t DEF RestersHoldNothing
<1>1. ~Queue(t) /\ ~Acquire(t) /\ ~Startup(t) /\ ~Shutdown(t) /\ ~Use(t)
  BY <1>r DEF Queue, Acquire, TakeFree, TakeForPing, SkipFree, Reserve, Wait,
     Refuse, Enters, Startup, StartupJoin, StartupBegin, StartupEmpty,
     StartupTooLarge, Shutdown, Use, locals, Resters
<1>2. ASSUME Checkout(t) PROVE state'[c] = "down"
  BY <1>2, <1>t DEF Checkout, Created, CreateFailed, PingAnswered, PingFailed
<1>3. ASSUME Release(t) PROVE c \in Range(free') \/ ReleaseForeign(t)
  BY <1>3, <1>t, ReturnFacts DEF Release, ReleaseBroken
<1>4. ASSUME StartupProceeds(t) PROVE state'[c] = "down" \/ c \in Range(free')
  <2>1. CASE StartupKeep(t)
    BY <2>1, <1>t, KeepFacts
  <2>2. CASE StartupDrop(t) \/ StartupCollected(t)
    <3>1. GiveUpStartup(t) /\ pc[t] \in Founding
      BY <2>2 DEF StartupDrop, StartupCollected, Founding
    <3>2. c \notin Survivors(t)
      BY <1>t, <3>1, Landing
    <3>3. Gathered(t)
      BY <1>t, <2>2 DEF StartupDrop, StartupCollected, FoundersHold, Founding
    <3>4. state[c] = "down"
      BY <1>t, <3>1, <3>2, <3>3 DEF FoundersHold, Gathered, Survivors
    <3> QED BY <3>1, <3>4 DEF GiveUpStartup
  <2>3. CASE ChildEnds(t) \/ StartupAborted(t) \/ JoinEnds(t)
    BY <2>3 DEF ChildEnds, StartupAborted, JoinEnds, locals
  <2> QED BY <1>4, <2>1, <2>2, <2>3 DEF StartupProceeds
<1>5. ASSUME Discard(t) \/ DiscardLast(t) PROVE state'[c] = "down"
  BY <1>5, <1>t DEF Discard, DiscardLast
<1>6. ASSUME Cancel(t) PROVE state'[c] = "down"
  <2>1. DiscardCancelled(t)
    BY <1>6, <1>f, <1>r DEF Cancel, PingCancelled, QueueCancelled,
       WaitCancelled, StartupCancelled, CollectCancelled, JoinCancelled, Resters
  <2>2. Cardinality(mine[t]) = 1 /\ IsFiniteSet(mine[t])
    BY <1>f, <1>t, <2>1, FS_Subset, PopulationAssumption DEF DiscardCancelled
  <2>3. mine[t] = {c}
    BY <2>2, FS_Singleton
  <2> QED BY <1>t, <2>1, <2>3 DEF DiscardCancelled
<1> QED BY <1>1, <1>2, <1>3, <1>4, <1>5, <1>6 DEF Acts

LEMMA LeaksStep ==
  ASSUME Faults \subseteq {"stale_use"}, Accounts, RevokedIsDrained,
         NothingLeaks, [Next]_vars
  PROVE  NothingLeaks'
<1>t. /\ IInv /\ TypeOK /\ Ownership
      /\ pc \in [Tasks -> Places] /\ mine \in [Tasks -> SUBSET Conns]
  BY DEF Accounts, IInv, TypeOK
<1>1. ASSUME NEW t \in Tasks, OthersCalm(t), Acts(t) PROVE NothingLeaks'
  <2> SUFFICES ASSUME NEW c \in Conns, state'[c] # "down",
                      c \notin Range(free'), \A u \in Tasks : c \notin mine'[u]
               PROVE  FALSE
    BY DEF NothingLeaks
  <2>1. CASE c \in mine[t]
    <3>1. ReleaseForeign(t)
      BY <1>1, <2>1, LeavesLocals
    <3>2. /\ pc[t] = "using" /\ c \notin acquired /\ state[c] # "down"
      BY <1>t, <2>1, <3>1 DEF ReleaseForeign, Ownership, HoldsOne
    <3>3. PICK u \in Tasks : pc[u] = "draining" /\ c \in mine[u]
      BY <2>1, <3>2 DEF RevokedIsDrained
    <3>4. u # t
      BY <3>2, <3>3
    <3> QED BY <1>1, <3>3, <3>4 DEF OthersCalm
  <2>2. CASE c \notin mine[t]
    <3>1. state[c] # "down"
      BY <1>1, <1>t, <2>2, StateMoves
    <3>2. CASE c \in Range(free)
      BY <1>1, <3>2, LeavesFree
    <3>3. CASE \E u \in Tasks : c \in mine[u]
      BY <1>1, <2>2, <3>3 DEF OthersCalm
    <3> QED BY <3>1, <3>2, <3>3 DEF NothingLeaks
  <2> QED BY <2>1, <2>2
<1>2. ASSUME StaleUse PROVE NothingLeaks'
  <2>1. mine' = mine /\ free' = free
    BY <1>2 DEF StaleUse, locals, shared
  <2>2. \A c \in Conns : state'[c] # state[c] => c \in Range(free)
    BY <1>2, <1>t DEF StaleUse, TypeOK
  <2> QED BY <2>1, <2>2 DEF NothingLeaks
<1>3. ASSUME UNCHANGED vars PROVE NothingLeaks'
  BY <1>3 DEF vars, NothingLeaks
<1> QED BY <1>1, <1>2, <1>3, <1>t, OneActs

\* Whatever fails, is cancelled or is overtaken by a shutdown, a connection that
\* is not down is idle in the pool or in the hands of a task that will return
\* or close it.  The awkward events that are left out do leak.
THEOREM NothingLeaksCorrect ==
  ASSUME Faults \subseteq {"stale_use"}
  PROVE  Spec => []NothingLeaks
<1>1. Init => NothingLeaks
  BY DEF Init, NothingLeaks
<1>2. Accounts /\ RevokedIsDrained /\ NothingLeaks /\ [Next]_vars
        => NothingLeaks'
  BY LeaksStep
<1>3. Spec => []RevokedIsDrained
  BY RevokedCorrect
<1> QED BY <1>1, <1>2, <1>3, AccountsCorrect, PTL DEF Spec

-----------------------------------------------------------------------------
(* Waiting for capacity *)

\* Slots are given back only by waking those who wait for them.
LEMMA SlotsReturnedNotify ==
  ASSUME TypeOK, NEW t \in Tasks, Acts(t)
  PROVE  pending' >= pending \/ \A u \in Tasks : pc'[u] # "waiting"
<1>t. pending \in Int /\ MinSize \in Nat /\ pc \in [Tasks -> Places]
  BY SizeAssumption DEF TypeOK
<1>same. ASSUME pending' = pending PROVE pending' >= pending
  BY <1>t, <1>same
<1>1. ASSUME Checkout(t)
      PROVE  pending' >= pending \/ \A u \in Tasks : pc'[u] # "waiting"
  <2>1. CASE Created(t) \/ CreateFailed(t)
    BY <2>1, <1>t DEF Created, CreateFailed, LeaveNotifying, Notified
  <2>2. CASE PingAnswered(t) \/ PingFailed(t)
    BY <2>2, <1>same DEF PingAnswered, PingFailed, shared
  <2> QED BY <1>1, <2>1, <2>2 DEF Checkout
<1>2. ASSUME StartupProceeds(t)
      PROVE  pending' >= pending \/ \A u \in Tasks : pc'[u] # "waiting"
  <2>1. CASE StartupKeep(t) \/ GiveUpStartup(t)
    BY <2>1, <1>t DEF StartupKeep, GiveUpStartup, StartupFails, StartupSet,
                      Notified
  <2>2. CASE ChildEnds(t) \/ StartupAborted(t) \/ JoinEnds(t)
    BY <2>2, <1>same DEF ChildEnds, StartupAborted, JoinEnds, shared
  <2> QED BY <1>2, <2>1, <2>2 DEF StartupProceeds, StartupDrop, StartupCollected
<1>3. ASSUME Acquire(t) \/ Startup(t) PROVE pending' >= pending
  BY <1>3, <1>t DEF Acquire, TakeFree, TakeForPing, SkipFree, Reserve, Wait,
     Refuse, Startup, StartupJoin, StartupBegin, StartupEmpty, StartupTooLarge,
     shared
<1>4. ASSUME \/ Queue(t) \/ Use(t) \/ Release(t) \/ Shutdown(t)
             \/ Discard(t) \/ DiscardLast(t) \/ Cancel(t)
      PROVE  pending' = pending
  BY <1>4 DEF Queue, Use, Release, ReleaseFree, ReleaseBroken, ReleaseForeign,
     Shutdown, Discard, DiscardLast, Cancel, PingCancelled, QueueCancelled,
     WaitCancelled, StartupCancelled, CollectCancelled, JoinCancelled,
     DiscardCancelled, shared
<1> QED BY <1>1, <1>2, <1>3, <1>4, <1>same DEF Acts

\* There are no more borrowed connections than borrowers that have one.
Holders == {t \in Tasks : pc[t] \in {"using", "pinging"}}

LEMMA AcquiredBound ==
  ASSUME TypeOK, Ownership, AcquiredHasBorrower
  PROVE  /\ IsFiniteSet(Holders) /\ Cardinality(Holders) \in Nat
         /\ Cardinality(acquired) \in Nat
         /\ Cardinality(acquired) <= Cardinality(Holders)
<1> DEFINE f == [c \in acquired |-> CHOOSE t \in Holders : c \in mine[t]]
<1>1. \A c \in acquired : f[c] \in Holders /\ c \in mine[f[c]]
  BY DEF AcquiredHasBorrower, Holders
<1>2. \A t \in Holders : \E c \in Conns : mine[t] = {c}
  BY DEF Holders, Ownership, HoldsOne
<1>3. f \in [acquired -> Holders]
  BY <1>1
<1> HIDE DEF f
<1>4. \A c, d \in acquired : f[c] = f[d] => c = d
  BY <1>1, <1>2
<1>5. f \in Injection(acquired, Holders)
  BY <1>3, <1>4 DEF Injection, IsInjective
<1>6. IsFiniteSet(Holders)
  <2>1. Holders \in SUBSET Tasks
    BY DEF Holders
  <2> QED BY <2>1, FS_Subset, PopulationAssumption
<1> QED BY <1>5, <1>6, FS_Injection, FS_CardinalityType

LEMMA WaitersStep ==
  ASSUME IInv, SemaphoreBound, AcquiredHasBorrower, WaitersAreWoken,
         [Next]_vars
  PROVE  WaitersAreWoken'
<1>t. /\ TypeOK /\ QueuedOnce /\ Ownership /\ SemaphoreBound'
      /\ pc \in [Tasks -> Places] /\ pending \in Int /\ pending' \in Int
      /\ MaxSize \in Nat
  BY InvariantStep, SemaphoreStep, SizeAssumption DEF IInv, TypeOK
<1>1. ASSUME NEW t \in Tasks, Wait(t) PROVE pending' > 0
  <2>1. /\ pending' = pending /\ Len(free) = 0
        /\ ~(Cardinality(acquired) + Len(free) + pending + 1 <= MaxSize)
        /\ pc[t] \in {"ready", "idle"} /\ pc' = [pc EXCEPT ![t] = "waiting"]
    BY <1>1 DEF Wait, Enters, Room, Go, shared
  <2>2. /\ IsFiniteSet(Holders) /\ Cardinality(Holders) \in Nat
        /\ Cardinality(acquired) \in Nat
        /\ Cardinality(acquired) <= Cardinality(Holders)
    BY <1>t, AcquiredBound
  <2>3. /\ Cardinality(Holders \cup {t}) = Cardinality(Holders) + 1
        /\ IsFiniteSet(Holders \cup {t})
    <3>1. t \notin Holders
      BY <2>1 DEF Holders
    <3> QED BY <2>2, <3>1, FS_AddElement
  <2>4. Inside' = {u \in Tasks : pc'[u] \in Borrowing}
    BY DEF Inside, Borrowing
  <2>5. Holders \cup {t} \subseteq Inside'
    BY <1>t, <2>1, <2>4 DEF Holders, Borrowing
  <2>6. /\ Cardinality(Holders \cup {t}) <= Cardinality(Inside')
        /\ Cardinality(Inside') \in Nat
    <3>1. Inside' \in SUBSET Tasks
      BY <2>4
    <3>2. IsFiniteSet(Inside')
      BY <3>1, FS_Subset, PopulationAssumption
    <3> QED BY <2>5, <3>2, FS_Subset, FS_CardinalityType
  <2>7. Cardinality(Inside') <= MaxSize
    BY <1>t DEF SemaphoreBound
  <2> QED BY <1>t, <2>1, <2>2, <2>3, <2>6, <2>7
<1>2. ASSUME NEW t \in Tasks, OthersCalm(t), Acts(t) PROVE WaitersAreWoken'
  <2> SUFFICES ASSUME NEW u \in Tasks, pc'[u] = "waiting" PROVE pending' > 0
    BY DEF WaitersAreWoken
  <2>1. CASE u = t
    BY <1>1, <1>2, <1>t, <2>1, Arrivals
  <2>2. CASE u # t
    <3>1. pc[u] = "waiting"
      BY <1>2, <2>2 DEF OthersCalm
    <3>2. pending > 0 /\ pending' >= pending
      BY <1>2, <1>t, <3>1, SlotsReturnedNotify DEF WaitersAreWoken
    <3> QED BY <1>t, <3>2
  <2> QED BY <2>1, <2>2
<1>3. ASSUME StaleUse \/ UNCHANGED vars PROVE WaitersAreWoken'
  BY <1>3 DEF StaleUse, locals, shared, vars, WaitersAreWoken
<1> QED BY <1>2, <1>3, OneActs

\* Nobody waits for capacity unless a creation is in flight, whose end will
\* notify: since at most maxsize borrowers are inside the semaphore, borrowed
\* connections alone cannot use up the capacity.
THEOREM WaitersAreWokenCorrect ==
  ASSUME "cancel_ping" \notin Faults
  PROVE  Spec => []WaitersAreWoken
<1>1. Init => WaitersAreWoken
  BY DEF Init, WaitersAreWoken
<1>2. /\ IInv /\ SemaphoreBound /\ AcquiredHasBorrower /\ WaitersAreWoken
      /\ [Next]_vars
      => WaitersAreWoken'
  BY WaitersStep
<1>3. Spec => []AcquiredHasBorrower
  BY BorrowersCorrect
<1> QED BY <1>1, <1>2, <1>3, InvariantCorrect, SemaphoreCorrect, PTL DEF Spec

-----------------------------------------------------------------------------
(* Tickets *)

\* Only a shutdown moves the generation or closes the pool, and a ticket is
\* drawn by its task.
LEMMA GlobalMoves ==
  ASSUME TypeOK, NEW t \in Tasks, Acts(t)
  PROVE  /\ \A u \in Tasks \ {t} : ticket'[u] = ticket[u]
         /\ ~Shutdown(t) => generation' = generation /\ (closed' => closed)
<1> DEFINE Goal ==
         /\ \A u \in Tasks \ {t} : ticket'[u] = ticket[u]
         /\ ~Shutdown(t) => generation' = generation /\ (closed' => closed)
<1>t. ticket \in [Tasks -> Nat]
  BY DEF TypeOK
<1>1. ASSUME Acquire(t) PROVE Goal
  BY <1>1, <1>t DEF Acquire, TakeFree, TakeForPing, SkipFree, Reserve, Wait,
                    Refuse, shared
<1>2. ASSUME Startup(t) PROVE Goal
  BY <1>2, <1>t DEF Startup, StartupJoin, StartupBegin, StartupEmpty,
                    StartupTooLarge, locals
<1>3. ASSUME Checkout(t) \/ StartupProceeds(t) PROVE Goal
  BY <1>3 DEF Checkout, Created, CreateFailed, PingAnswered, PingFailed,
     StartupProceeds, ChildEnds, StartupKeep, StartupDrop, StartupAborted,
     StartupCollected, GiveUpStartup, JoinEnds, locals, shared
<1>4. ASSUME Queue(t) \/ Use(t) \/ Release(t) \/ Discard(t) \/ DiscardLast(t)
      PROVE  Goal
  BY <1>4 DEF Queue, Use, Release, ReleaseFree, ReleaseBroken, ReleaseForeign,
     Discard, DiscardLast, locals, shared
<1>5. ASSUME Cancel(t) PROVE Goal
  BY <1>5 DEF Cancel, PingCancelled, QueueCancelled, WaitCancelled,
     StartupCancelled, CollectCancelled, JoinCancelled, DiscardCancelled, shared
<1>6. ASSUME Shutdown(t) PROVE Goal
  BY <1>6 DEF Shutdown
<1> HIDE DEF Goal
<1>7. Goal
  BY <1>1, <1>2, <1>3, <1>4, <1>5, <1>6 DEF Acts
<1> QED BY <1>7 DEF Goal

LEMMA TicketsStep ==
  ASSUME IInv, TicketsValid, [Next]_vars
  PROVE  TicketsValid'
<1>t. /\ TypeOK /\ QueuedOnce /\ Ownership /\ ClosedIsEmpty
      /\ pc \in [Tasks -> Places] /\ mine \in [Tasks -> SUBSET Conns]
      /\ ticket \in [Tasks -> Nat] /\ generation \in Nat
  BY DEF IInv, TypeOK
<1>1. ASSUME NEW t \in Tasks, OthersCalm(t), Acts(t) PROVE TicketsValid'
  <2> SUFFICES ASSUME NEW u \in Tasks, pc'[u] \in {"creating", "pinging"}
               PROVE  /\ ticket'[u] <= generation'
                      /\ closed' => ticket'[u] # generation'
                      /\ pc'[u] = "pinging" /\ ticket'[u] = generation' =>
                           mine'[u] \subseteq acquired'
    BY DEF TicketsValid
  <2>1. CASE u = t
    <3>1. Reserve(t) \/ TakeForPing(t)
      BY <1>1, <1>t, <2>1, Arrivals
    <3>2. CASE Reserve(t)
      BY <1>t, <2>1, <3>2 DEF Reserve, Go
    <3>3. CASE TakeForPing(t)
      BY <1>t, <2>1, <3>3 DEF TakeForPing, Go, ClosedIsEmpty
    <3> QED BY <3>1, <3>2, <3>3
  <2>2. CASE u # t
    <3>1. /\ pc[u] = pc'[u] /\ mine'[u] = mine[u] /\ ticket'[u] = ticket[u]
          /\ ticket[u] \in Nat
      BY <1>1, <1>t, <2>2, GlobalMoves DEF OthersCalm
    <3>2. /\ ticket[u] <= generation
          /\ closed => ticket[u] # generation
          /\ pc[u] = "pinging" /\ ticket[u] = generation =>
               mine[u] \subseteq acquired
      BY <3>1 DEF TicketsValid
    <3>3. CASE Shutdown(t)
      BY <1>t, <3>1, <3>2, <3>3 DEF Shutdown
    <3>4. CASE ~Shutdown(t)
      <4>1. generation' = generation /\ (closed' => closed)
        BY <1>1, <1>t, <3>4, GlobalMoves
      <4>2. ASSUME pc[u] = "pinging", ticket[u] = generation, NEW c \in mine[u],
                   c \notin acquired'
            PROVE  FALSE
        <5>1. c \in mine[t] /\ pc[t] \in {"pinging", "using"}
          BY <1>1, <1>t, <3>2, <3>4, <4>2, AcquiredMoves
        <5> QED BY <1>t, <2>2, <4>2, <5>1, SharedIsDrained
      <4> QED BY <3>1, <3>2, <4>1, <4>2
    <3> QED BY <3>3, <3>4
  <2> QED BY <2>1, <2>2
<1>2. ASSUME StaleUse \/ UNCHANGED vars PROVE TicketsValid'
  BY <1>2 DEF StaleUse, locals, shared, vars, TicketsValid
<1> QED BY <1>1, <1>2, OneActs

\* A reservation or a candidate never carries a generation that a closed pool
\* still counts as current: a startup that resets `closed` revives none of them.
THEOREM TicketsCorrect == Spec => []TicketsValid
<1>1. Init => TicketsValid
  BY DEF Init, TicketsValid
<1> QED BY <1>1, TicketsStep, InvariantCorrect, PTL DEF Spec

-----------------------------------------------------------------------------
(* The mapping *)

ClientMap == [t \in Tasks |-> ClientOf(t)]
LeaseMap  == [t \in Tasks |-> LeaseOf(t)]

\* What the mapping says of a task, before and after a step.
LEMMA Mapping ==
  ASSUME NEW t \in Tasks
  PROVE  /\ pc[t] = "using" =>
              /\ ClientMap[t] = IF mine[t] \subseteq acquired THEN "leased"
                                                              ELSE "revoked"
              /\ LeaseMap[t] = mine[t]
         /\ pc[t] # "using" => LeaseMap[t] = {}
         /\ pc[t] \in {"creating", "pinging"} =>
              ClientMap[t] = IF ticket[t] = generation THEN "asking"
                                                       ELSE "doomed"
         /\ pc[t] = "refusing" => ClientMap[t] = "doomed"
         /\ pc[t] \in {"queued", "ready", "waiting", "skipping"} =>
              ClientMap[t] = "asking"
         /\ pc[t] \notin {"using", "creating", "pinging", "refusing", "queued",
                          "ready", "waiting", "skipping"} =>
              ClientMap[t] = "idle"
<1> QED BY DEF ClientMap, LeaseMap, ClientOf, LeaseOf

LEMMA MappingNext ==
  ASSUME NEW t \in Tasks
  PROVE  /\ pc'[t] = "using" =>
              /\ ClientMap'[t] = IF mine'[t] \subseteq acquired' THEN "leased"
                                                                ELSE "revoked"
              /\ LeaseMap'[t] = mine'[t]
         /\ pc'[t] # "using" => LeaseMap'[t] = {}
         /\ pc'[t] \in {"creating", "pinging"} =>
              ClientMap'[t] = IF ticket'[t] = generation' THEN "asking"
                                                          ELSE "doomed"
         /\ pc'[t] = "refusing" => ClientMap'[t] = "doomed"
         /\ pc'[t] \in {"queued", "ready", "waiting", "skipping"} =>
              ClientMap'[t] = "asking"
         /\ pc'[t] \notin {"using", "creating", "pinging", "refusing", "queued",
                           "ready", "waiting", "skipping"} =>
              ClientMap'[t] = "idle"
<1> QED BY DEF ClientMap, LeaseMap, ClientOf, LeaseOf

-----------------------------------------------------------------------------
(* Steps of the service *)

Simulated == [Service!Next]_(Service!vars)

\* What one step may do to a client of the service.
ClientSteps(t) ==
  \/ ClientMap'[t] = ClientMap[t] /\ LeaseMap'[t] = LeaseMap[t]
  \/ /\ ClientMap[t] = "idle" /\ ClientMap'[t] = "asking"
     /\ LeaseMap'[t] = LeaseMap[t]
  \/ /\ ClientMap[t] \in {"asking", "doomed"} /\ ClientMap'[t] = "idle"
     /\ LeaseMap'[t] = LeaseMap[t]
  \/ /\ ClientMap[t] = "doomed" /\ ClientMap'[t] = "asking"
     /\ LeaseMap'[t] = LeaseMap[t]
  \/ /\ ClientMap[t] \in {"leased", "revoked"}
     /\ ClientMap'[t] = "idle" /\ LeaseMap'[t] = {}
  \/ /\ ClientMap[t] \in {"idle", "asking"} /\ ClientMap'[t] = "leased"
     /\ LifecycleOf # "closed"
     /\ Cardinality({u \in Tasks : ClientMap[u] = "leased"}) < MaxSize
     /\ \E c \in Conns \ UNION {LeaseMap[u] : u \in Tasks} : LeaseMap'[t] = {c}

\* A step that concerns one client is one of the service's.
LEMMA OneClient ==
  ASSUME NEW t \in Tasks,
         \A u \in Tasks \ {t} :
           ClientMap'[u] = ClientMap[u] /\ LeaseMap'[u] = LeaseMap[u],
         LifecycleOf' = LifecycleOf,
         ClientSteps(t)
  PROVE  Simulated
<1>d. /\ ClientMap = [u \in Tasks |-> ClientMap[u]]
      /\ ClientMap' = [u \in Tasks |-> ClientMap'[u]]
      /\ LeaseMap = [u \in Tasks |-> LeaseMap[u]]
      /\ LeaseMap' = [u \in Tasks |-> LeaseMap'[u]]
  BY DEF ClientMap, LeaseMap
<1>c. ClientMap' = [ClientMap EXCEPT ![t] = ClientMap'[t]]
  BY <1>d
<1>l. LeaseMap' = [LeaseMap EXCEPT ![t] = LeaseMap'[t]]
  BY <1>d
<1>u. ASSUME LeaseMap'[t] = LeaseMap[t] PROVE LeaseMap' = LeaseMap
  BY <1>u, <1>d
<1>1. CASE ClientMap'[t] = ClientMap[t] /\ LeaseMap'[t] = LeaseMap[t]
  <2>1. ClientMap' = ClientMap /\ LeaseMap' = LeaseMap
    BY <1>1, <1>d, <1>u
  <2> QED BY <2>1 DEF Simulated, Service!vars, ClientMap, LeaseMap
<1>2. CASE /\ ClientMap[t] = "idle" /\ ClientMap'[t] = "asking"
           /\ LeaseMap'[t] = LeaseMap[t]
  <2>1. ClientMap' = [ClientMap EXCEPT ![t] = "asking"] /\ LeaseMap' = LeaseMap
    BY <1>2, <1>c, <1>u
  <2>2. Service!Ask(t)
    BY <1>2, <2>1 DEF Service!Ask, ClientMap, LeaseMap
  <2> QED BY <2>2 DEF Simulated, Service!Next
<1>3. CASE /\ ClientMap[t] \in {"asking", "doomed"} /\ ClientMap'[t] = "idle"
           /\ LeaseMap'[t] = LeaseMap[t]
  <2>1. ClientMap' = [ClientMap EXCEPT ![t] = "idle"] /\ LeaseMap' = LeaseMap
    BY <1>3, <1>c, <1>u
  <2>2. Service!Deny(t)
    BY <1>3, <2>1 DEF Service!Deny, ClientMap, LeaseMap
  <2> QED BY <2>2 DEF Simulated, Service!Next
<1>4. CASE /\ ClientMap[t] = "doomed" /\ ClientMap'[t] = "asking"
           /\ LeaseMap'[t] = LeaseMap[t]
  <2>1. ClientMap' = [ClientMap EXCEPT ![t] = "asking"] /\ LeaseMap' = LeaseMap
    BY <1>4, <1>c, <1>u
  <2>2. Service!Retry(t)
    BY <1>4, <2>1 DEF Service!Retry, ClientMap, LeaseMap
  <2> QED BY <2>2 DEF Simulated, Service!Next
<1>5. CASE /\ ClientMap[t] \in {"leased", "revoked"}
           /\ ClientMap'[t] = "idle" /\ LeaseMap'[t] = {}
  <2>1. /\ ClientMap' = [ClientMap EXCEPT ![t] = "idle"]
        /\ LeaseMap' = [LeaseMap EXCEPT ![t] = {}]
    BY <1>5, <1>c, <1>l
  <2>2. Service!Return(t)
    BY <1>5, <2>1 DEF Service!Return, ClientMap, LeaseMap
  <2> QED BY <2>2 DEF Simulated, Service!Next
<1>6. CASE /\ ClientMap[t] \in {"idle", "asking"} /\ ClientMap'[t] = "leased"
           /\ LifecycleOf # "closed"
           /\ Cardinality({u \in Tasks : ClientMap[u] = "leased"}) < MaxSize
           /\ \E c \in Conns \ UNION {LeaseMap[u] : u \in Tasks} :
                LeaseMap'[t] = {c}
  <2>1. PICK c \in Conns \ UNION {LeaseMap[u] : u \in Tasks} :
          LeaseMap'[t] = {c}
    BY <1>6
  <2>2. /\ ClientMap' = [ClientMap EXCEPT ![t] = "leased"]
        /\ LeaseMap' = [LeaseMap EXCEPT ![t] = {c}]
    BY <1>6, <2>1, <1>c, <1>l
  <2>3. Service!Holding = {u \in Tasks : ClientMap[u] = "leased"}
    BY DEF Service!Holding, ClientMap
  <2>c. Service!Cardinality(Service!Holding) = Cardinality(Service!Holding)
    BY DEF Service!Cardinality, Cardinality
  <2>4. Service!Grant(t)
    BY <1>6, <2>2, <2>3, <2>c DEF Service!Grant, ClientMap, LeaseMap
  <2> QED BY <2>4 DEF Simulated, Service!Next
<1> QED BY <1>1, <1>2, <1>3, <1>4, <1>5, <1>6 DEF ClientSteps

\* A step that only concerns the lifecycle.
LEMMA OnlyLifecycle ==
  ASSUME \A u \in Tasks :
           ClientMap'[u] = ClientMap[u] /\ LeaseMap'[u] = LeaseMap[u],
         \/ LifecycleOf' = LifecycleOf
         \/ LifecycleOf' = "opened"
         \/ LifecycleOf = "closed" /\ LifecycleOf' = "created"
  PROVE  Simulated
<1>1. ClientMap' = ClientMap /\ LeaseMap' = LeaseMap
  <2>1. /\ ClientMap = [u \in Tasks |-> ClientMap[u]]
        /\ ClientMap' = [u \in Tasks |-> ClientMap'[u]]
        /\ LeaseMap = [u \in Tasks |-> LeaseMap[u]]
        /\ LeaseMap' = [u \in Tasks |-> LeaseMap'[u]]
    BY DEF ClientMap, LeaseMap
  <2> QED BY <2>1
<1>2. CASE LifecycleOf' = LifecycleOf
  BY <1>1, <1>2 DEF Simulated, Service!vars, ClientMap, LeaseMap
<1>3. CASE LifecycleOf' = "opened"
  <2>1. Service!Open
    BY <1>1, <1>3 DEF Service!Open, ClientMap, LeaseMap
  <2> QED BY <2>1 DEF Simulated, Service!Next
<1>4. CASE LifecycleOf = "closed" /\ LifecycleOf' = "created"
  <2>1. Service!Reset
    BY <1>1, <1>4 DEF Service!Reset, ClientMap, LeaseMap
  <2> QED BY <2>1 DEF Simulated, Service!Next
<1> QED BY <1>2, <1>3, <1>4

\* A shutdown concerns everyone.
LEMMA EveryClient ==
  ASSUME NEW attempts \in SUBSET {u \in Tasks : ClientMap[u] = "asking"},
         \A u \in Tasks :
           /\ ClientMap'[u] = IF ClientMap[u] = "leased" THEN "revoked"
                              ELSE IF u \in attempts THEN "doomed"
                              ELSE ClientMap[u]
           /\ LeaseMap'[u] = LeaseMap[u],
         LifecycleOf' = "closed"
  PROVE  Simulated
<1>1. /\ ClientMap' = [u \in Tasks |->
                         IF ClientMap[u] = "leased" THEN "revoked"
                         ELSE IF u \in attempts THEN "doomed"
                         ELSE ClientMap[u]]
      /\ LeaseMap' = LeaseMap
  <2>1. /\ ClientMap' = [u \in Tasks |-> ClientMap'[u]]
        /\ LeaseMap = [u \in Tasks |-> LeaseMap[u]]
        /\ LeaseMap' = [u \in Tasks |-> LeaseMap'[u]]
    BY DEF ClientMap, LeaseMap
  <2> QED BY <2>1
<1>2. Service!Shutdown
  BY <1>1 DEF Service!Shutdown, ClientMap, LeaseMap
<1> QED BY <1>2 DEF Simulated, Service!Next

-----------------------------------------------------------------------------
(* The simulation *)

\* Outside a shutdown only the acting task changes in the eyes of the service.
LEMMA OthersKeep ==
  ASSUME IInv, IInv', NEW t \in Tasks, OthersCalm(t), Acts(t), ~Shutdown(t),
         NEW u \in Tasks \ {t}
  PROVE  ClientMap'[u] = ClientMap[u] /\ LeaseMap'[u] = LeaseMap[u]
<1>t. /\ TypeOK /\ QueuedOnce /\ Ownership /\ Ownership' /\ u \in Tasks
      /\ pc \in [Tasks -> Places] /\ mine \in [Tasks -> SUBSET Conns]
  BY DEF IInv, TypeOK
<1>m. /\ mine'[u] = mine[u] /\ ticket'[u] = ticket[u]
      /\ generation' = generation
      /\ \/ pc'[u] = pc[u]
         \/ pc[u] \in {"queued", "waiting"} /\ pc'[u] = "ready"
         \/ pc[u] = "joining" /\ pc'[u] = "joined"
  BY <1>t, GlobalMoves DEF OthersCalm, Resting
<1>1. CASE pc[u] # "using"
  <2>1. pc'[u] # "using"
    BY <1>1, <1>m
  <2> QED BY <1>1, <1>m, <2>1, Mapping, MappingNext
<1>2. CASE pc[u] = "using"
  <2>1. pc'[u] = "using"
    BY <1>2, <1>m
  <2>2. PICK c : mine[u] = {c}
    BY <1>t, <1>2 DEF Ownership, HoldsOne
  <2>3. ASSUME c \in acquired, c \notin acquired' PROVE FALSE
    <3>1. c \in mine[t] /\ pc[t] \in {"pinging", "using"}
      BY <1>t, <2>3, AcquiredMoves
    <3> QED BY <1>t, <1>2, <2>2, <3>1, SharedIsDrained
  <2>4. ASSUME c \notin acquired, c \in acquired' PROVE FALSE
    <3>1. c \in mine'[t] /\ (TakeFree(t) \/ TakeForPing(t) \/ Created(t))
      BY <1>t, <2>4, AcquiredMoves
    <3>2. pc'[t] \in {"using", "pinging", "refusing"}
      BY <1>t, <3>1, Landing DEF TakeFree, TakeForPing, Go
    <3> QED BY <1>t, <1>m, <2>1, <2>2, <3>1, <3>2 DEF Ownership, HeldApart
  <2>5. mine[u] \subseteq acquired <=> mine'[u] \subseteq acquired'
    BY <1>m, <2>2, <2>3, <2>4
  <2> QED BY <1>m, <1>2, <2>1, <2>5, Mapping, MappingNext
<1> QED BY <1>1, <1>2

\* What a client is granted: the semaphore bounds the leases, and nobody else
\* holds the connection.
LEMMA GrantFacts ==
  ASSUME IInv, IInv', SemaphoreBound', NEW t \in Tasks, OthersCalm(t),
         pc[t] # "using", pc'[t] = "using"
  PROVE  /\ Cardinality({u \in Tasks : ClientMap[u] = "leased"}) < MaxSize
         /\ \E c \in Conns \ UNION {LeaseMap[u] : u \in Tasks} :
              LeaseMap'[t] = {c}
<1>t. /\ Ownership' /\ MaxSize \in Nat
      /\ pc \in [Tasks -> Places] /\ pc' \in [Tasks -> Places]
  BY SizeAssumption DEF IInv, TypeOK
<1> DEFINE leased == {u \in Tasks : ClientMap[u] = "leased"}
<1>1. \A u \in leased : pc[u] = "using" /\ u # t
  BY Mapping
<1>2. IsFiniteSet(leased) /\ Cardinality(leased) \in Nat
  <2>1. leased \in SUBSET Tasks
    OBVIOUS
  <2> HIDE DEF leased
  <2> QED BY <2>1, FS_Subset, FS_CardinalityType, PopulationAssumption
<1>3. leased \cup {t} \subseteq Inside' /\ Inside' \in SUBSET Tasks
  <2>1. Inside' = {u \in Tasks : pc'[u] \in Borrowing} /\ "using" \in Borrowing
    BY DEF Inside, Borrowing
  <2>2. \A u \in leased : u \in Tasks /\ pc'[u] = "using"
    BY <1>1 DEF OthersCalm, Resting
  <2> HIDE DEF leased
  <2> QED BY <2>1, <2>2
<1>4. t \notin leased
  BY <1>1
<1> HIDE DEF leased
<1>5. Cardinality(leased) < MaxSize
  <2>1. /\ IsFiniteSet(leased \cup {t})
        /\ Cardinality(leased \cup {t}) = Cardinality(leased) + 1
    BY <1>2, <1>4, FS_AddElement
  <2>2. IsFiniteSet(Inside')
    BY <1>3, FS_Subset, PopulationAssumption
  <2>3. /\ Cardinality(leased \cup {t}) <= Cardinality(Inside')
        /\ Cardinality(Inside') \in Nat
    BY <1>3, <2>2, FS_Subset, FS_CardinalityType
  <2> QED BY <1>2, <1>t, <2>1, <2>3 DEF SemaphoreBound
<1>6. PICK c \in Conns : mine'[t] = {c}
  BY <1>t DEF Ownership, HoldsOne
<1>7. LeaseMap'[t] = {c}
  BY <1>6, MappingNext
<1>8. ASSUME NEW u \in Tasks, c \in LeaseMap[u] PROVE FALSE
  <2>1. pc[u] = "using" /\ c \in mine[u] /\ u # t
    BY <1>8, Mapping
  <2>2. pc'[u] = "using" /\ c \in mine'[u]
    BY <2>1 DEF OthersCalm, Resting
  <2> QED BY <1>t, <1>6, <2>1, <2>2 DEF Ownership, HeldApart
<1> QED BY <1>5, <1>6, <1>7, <1>8 DEF leased

\* A shutdown revokes every lease and dooms what was reserved before it.
LEMMA ShutdownSimulated ==
  ASSUME IInv, TicketsValid, NEW t \in Tasks, OthersCalm(t), Shutdown(t)
  PROVE  Simulated
<1>t. /\ TypeOK /\ QueuedOnce /\ Ownership
      /\ pc \in [Tasks -> Places] /\ mine \in [Tasks -> SUBSET Conns]
      /\ ticket \in [Tasks -> Nat] /\ generation \in Nat
  BY DEF IInv, TypeOK
<1>s. /\ pc[t] = "idle" /\ pc'[t] \in {"idle", "draining"}
      /\ acquired' = {} /\ generation' = generation + 1 /\ ticket' = ticket
      /\ closed'
  BY <1>t, Landing DEF Shutdown
<1> DEFINE attempts == {u \in Tasks : /\ pc[u] \in {"creating", "pinging"}
                                      /\ ticket[u] = generation}
<1>1. attempts \in SUBSET {u \in Tasks : ClientMap[u] = "asking"}
  BY Mapping
<1>2. ASSUME NEW u \in Tasks
      PROVE  /\ ClientMap'[u] = IF ClientMap[u] = "leased" THEN "revoked"
                                ELSE IF u \in attempts THEN "doomed"
                                ELSE ClientMap[u]
             /\ LeaseMap'[u] = LeaseMap[u]
  <2>1. CASE u = t
    BY <1>s, <2>1, Mapping, MappingNext
  <2>2. CASE u # t
    <3>1. /\ mine'[u] = mine[u]
          /\ \/ pc'[u] = pc[u]
             \/ pc[u] \in {"queued", "waiting"} /\ pc'[u] = "ready"
             \/ pc[u] = "joining" /\ pc'[u] = "joined"
      BY <2>2 DEF OthersCalm, Resting
    <3>2. CASE pc[u] = "using"
      <4>1. mine[u] # {}
        BY <1>t, <3>2 DEF Ownership, HoldsOne
      <4> QED BY <1>s, <3>1, <3>2, <4>1, Mapping, MappingNext
    <3>3. CASE pc[u] \in {"creating", "pinging"}
      <4>1. ticket'[u] # generation'
        <5>1. ticket[u] \in Nat /\ ticket[u] <= generation
          BY <1>t, <3>3 DEF TicketsValid
        <5> QED BY <1>t, <1>s, <5>1
      <4> QED BY <3>1, <3>3, <4>1, Mapping, MappingNext
    <3>4. CASE pc[u] \notin {"using", "creating", "pinging"}
      BY <3>1, <3>4, Mapping, MappingNext
    <3> QED BY <3>2, <3>3, <3>4
  <2> QED BY <2>1, <2>2
<1>3. LifecycleOf' = "closed"
  BY <1>s DEF LifecycleOf
<1> HIDE DEF attempts
<1> QED BY <1>1, <1>2, <1>3, EveryClient

\* The acting task asks, is granted or denied, starts over, returns, or does
\* something that the service does not see.
LEMMA ActorSteps ==
  ASSUME IInv, IInv', SemaphoreBound', TicketsValid, NEW t \in Tasks,
         OthersCalm(t), Acts(t), ~Shutdown(t)
  PROVE  ClientSteps(t)
<1>t. /\ TypeOK /\ QueuedOnce /\ Ownership /\ ClosedIsEmpty
      /\ pc \in [Tasks -> Places] /\ mine \in [Tasks -> SUBSET Conns]
      /\ ticket \in [Tasks -> Nat]
      /\ "idle" \in Places
  BY DEF IInv, TypeOK, Places
<1>same. ASSUME ClientMap'[t] = ClientMap[t], LeaseMap'[t] = LeaseMap[t]
         PROVE  ClientSteps(t)
  BY <1>same DEF ClientSteps
\* A task that leaves a call with nothing in its locals.
<1>left. ASSUME pc'[t] = "idle" PROVE ClientSteps(t)
  BY <1>left, Mapping, MappingNext DEF ClientSteps
<1>1. ASSUME Queue(t) PROVE ClientSteps(t)
  <2>1. pc[t] = "idle" /\ pc'[t] = "queued"
    BY <1>1, <1>t DEF Queue
  <2> QED BY <2>1, Mapping, MappingNext DEF ClientSteps
<1>2. ASSUME Acquire(t) PROVE ClientSteps(t)
  <2>1. pc[t] \in {"idle", "ready"}
    BY <1>2 DEF Acquire, TakeFree, TakeForPing, SkipFree, Reserve, Wait, Refuse,
                Enters
  <2>2. CASE TakeFree(t)
    <3>1. /\ pc'[t] = "using" /\ mine'[t] \subseteq acquired'
          /\ ~closed
      BY <1>t, <2>2 DEF TakeFree, Go, ClosedIsEmpty
    <3>2. ClientMap'[t] = "leased" /\ LifecycleOf # "closed"
      BY <3>1, MappingNext DEF LifecycleOf
    <3>3. ClientMap[t] \in {"idle", "asking"}
      BY <2>1, Mapping
    <3> QED BY <2>1, <3>1, <3>2, <3>3, GrantFacts DEF ClientSteps
  <2>3. CASE Refuse(t)
    BY <1>t, <1>left, <2>1, <2>3, Landing DEF Refuse
  <2>4. CASE TakeForPing(t)
    <3>1. pc'[t] = "pinging" /\ ticket'[t] = generation'
      BY <1>t, <2>4 DEF TakeForPing, Go
    <3> QED BY <2>1, <3>1, Mapping, MappingNext DEF ClientSteps
  <2>5. CASE Reserve(t)
    <3>1. pc'[t] = "creating" /\ ticket'[t] = generation'
      BY <1>t, <2>5 DEF Reserve, Go
    <3> QED BY <2>1, <3>1, Mapping, MappingNext DEF ClientSteps
  <2>6. CASE SkipFree(t) \/ Wait(t)
    <3>1. pc'[t] \in {"skipping", "waiting"}
      BY <1>t, <2>6 DEF SkipFree, Wait, Go
    <3> QED BY <2>1, <3>1, Mapping, MappingNext DEF ClientSteps
  <2> QED BY <1>2, <2>2, <2>3, <2>4, <2>5, <2>6 DEF Acquire
<1>3. ASSUME Checkout(t) PROVE ClientSteps(t)
  <2>1. CASE Created(t)
    <3>1. CASE Current(t)
      <4>1. /\ pc[t] = "creating" /\ pc'[t] = "using"
            /\ mine'[t] \subseteq acquired' /\ ~closed /\ ticket[t] = generation
        BY <1>t, <2>1, <3>1, Landing DEF Created, Current
      <4>2. ClientMap'[t] = "leased" /\ LifecycleOf # "closed"
        BY <4>1, MappingNext DEF LifecycleOf
      <4>3. ClientMap[t] = "asking"
        BY <4>1, Mapping
      <4> QED BY <4>1, <4>2, <4>3, GrantFacts DEF ClientSteps
    <3>2. CASE ~Current(t)
      <4>1. /\ pc[t] = "creating" /\ pc'[t] = "refusing"
            /\ ticket[t] # generation
        BY <1>t, <2>1, <3>2, Landing DEF Created, Current, TicketsValid
      <4> QED BY <1>same, <4>1, Mapping, MappingNext
    <3> QED BY <3>1, <3>2
  <2>2. CASE CreateFailed(t)
    BY <1>t, <1>left, <2>2, Landing DEF CreateFailed
  <2>3. CASE PingAnswered(t)
    <3>1. CASE Current(t)
      <4>1. /\ pc[t] = "pinging" /\ pc'[t] = "using" /\ ~closed
            /\ mine'[t] \subseteq acquired' /\ ticket[t] = generation
        BY <1>t, <2>3, <3>1 DEF PingAnswered, Current, TicketsValid, shared
      <4>2. ClientMap'[t] = "leased" /\ LifecycleOf # "closed"
        BY <4>1, MappingNext DEF LifecycleOf
      <4>3. ClientMap[t] = "asking"
        BY <4>1, Mapping
      <4> QED BY <4>1, <4>2, <4>3, GrantFacts DEF ClientSteps
    <3>2. CASE ~Current(t)
      <4>1. /\ pc[t] = "pinging" /\ pc'[t] = "refusing"
            /\ ticket[t] # generation
        BY <1>t, <2>3, <3>2 DEF PingAnswered, Current, TicketsValid
      <4> QED BY <1>same, <4>1, Mapping, MappingNext
    <3> QED BY <3>1, <3>2
  <2>4. CASE PingFailed(t)
    <3>1. pc[t] = "pinging" /\ pc'[t] = "skipping"
      BY <1>t, <2>4 DEF PingFailed
    <3> QED BY <3>1, Mapping, MappingNext DEF ClientSteps
  <2> QED BY <1>3, <2>1, <2>2, <2>3, <2>4 DEF Checkout
<1>4. ASSUME Use(t) PROVE ClientSteps(t)
  <2>1. UNCHANGED <<pc, mine, acquired>>
    BY <1>4 DEF Use, locals, shared
  <2>2. pc[t] = "using"
    BY <1>4 DEF Use
  <2> QED BY <1>same, <2>1, <2>2, Mapping, MappingNext
<1>5. ASSUME Release(t) PROVE ClientSteps(t)
  <2>1. pc[t] = "using" /\ pc'[t] \in {"idle", "retiring"}
    BY <1>5, <1>t, Landing DEF Release, ReleaseFree, ReleaseBroken, ReleaseForeign
  <2> QED BY <2>1, Mapping, MappingNext DEF ClientSteps
\* Tasks inside startup() and shutdown() are no clients.
<1>idle. ASSUME pc[t] \notin {"using", "creating", "pinging", "refusing",
                              "queued", "ready", "waiting", "skipping"},
                pc'[t] \notin {"using", "creating", "pinging", "refusing",
                               "queued", "ready", "waiting", "skipping"}
         PROVE  ClientSteps(t)
  BY <1>idle, <1>same, Mapping, MappingNext
<1>6. ASSUME Startup(t) PROVE ClientSteps(t)
  <2>1. pc[t] = "idle" /\ pc'[t] \in {"idle", "joining", "starting"}
    BY <1>6, <1>t DEF Startup, StartupJoin, StartupBegin, StartupEmpty,
                      StartupTooLarge, Go, locals
  <2> QED BY <1>idle, <2>1
<1>7. ASSUME StartupProceeds(t) PROVE ClientSteps(t)
  <2>1. CASE StartupKeep(t) \/ StartupDrop(t) \/ StartupCollected(t)
    <3>1. pc[t] \in Founding
      BY <2>1 DEF StartupKeep, StartupDrop, StartupCollected, Founding
    <3>2. pc'[t] \in {"idle", "unwinding"}
      BY <1>t, <2>1, Landing DEF StartupDrop, StartupCollected
    <3> QED BY <1>idle, <3>1, <3>2 DEF Founding
  <2>2. CASE ChildEnds(t) \/ StartupAborted(t) \/ JoinEnds(t)
    <3>1. /\ pc[t] \in {"starting", "aborting", "joined"}
          /\ pc'[t] \in {"starting", "aborting", "collecting", "idle"}
      BY <1>t, <2>2 DEF ChildEnds, StartupAborted, JoinEnds, locals
    <3> QED BY <1>idle, <3>1
  <2> QED BY <1>7, <2>1, <2>2 DEF StartupProceeds
<1>8. ASSUME Discard(t) PROVE ClientSteps(t)
  <2>1. pc'[t] = pc[t] /\ pc[t] \in Discarding
    BY <1>8 DEF Discard
  <2> QED BY <1>same, <2>1, Mapping, MappingNext DEF Discarding
<1>9. ASSUME DiscardLast(t) \/ DiscardCancelled(t) PROVE ClientSteps(t)
  <2>1. CASE Raises(t)
    <3>1. pc[t] \in Discarding /\ pc'[t] = "idle"
      BY <1>9, <1>t, <2>1, Landing DEF DiscardLast, DiscardCancelled
    <3> QED BY <1>left, <3>1 DEF Discarding
  <2>2. CASE ~Raises(t)
    <3>1. pc[t] = "skipping" /\ pc'[t] = "ready"
      BY <1>9, <1>t, <2>2 DEF DiscardLast, DiscardCancelled, Go
    <3> QED BY <1>same, <3>1, Mapping, MappingNext
  <2> QED BY <2>1, <2>2
<1>10. ASSUME Cancel(t) PROVE ClientSteps(t)
  <2>1. CASE PingCancelled(t) \/ WaitCancelled(t)
    BY <1>t, <1>left, <2>1, Landing DEF PingCancelled, WaitCancelled
  <2>2. CASE QueueCancelled(t) \/ JoinCancelled(t)
    <3>1. pc[t] \in {"queued", "joining", "joined"} /\ pc'[t] = "idle"
      BY <1>t, <2>2 DEF QueueCancelled, JoinCancelled
    <3> QED BY <3>1, Mapping, MappingNext DEF ClientSteps
  <2>3. CASE StartupCancelled(t) \/ CollectCancelled(t)
    <3>1. pc[t] \in Founding
      BY <2>3 DEF StartupCancelled, CollectCancelled, Founding
    <3>2. pc'[t] \in {"idle", "aborting"}
      BY <1>t, <2>3, Landing DEF StartupCancelled
    <3> QED BY <1>idle, <3>1, <3>2 DEF Founding
  <2>4. CASE DiscardCancelled(t)
    BY <2>4, <1>9
  <2> QED BY <1>10, <2>1, <2>2, <2>3, <2>4 DEF Cancel
<1> QED BY <1>1, <1>2, <1>3, <1>4, <1>5, <1>6, <1>7, <1>8, <1>9, <1>10 DEF Acts

LEMMA SimulationStep ==
  ASSUME IInv, SemaphoreBound, TicketsValid, [Next]_vars
  PROVE  Simulated
<1>t. /\ TypeOK /\ QueuedOnce /\ ClosedIsEmpty /\ IInv' /\ SemaphoreBound'
      /\ opened \in BOOLEAN /\ closed \in BOOLEAN
      /\ opened' \in BOOLEAN /\ closed' \in BOOLEAN
  BY InvariantStep, SemaphoreStep DEF IInv, TypeOK
<1>1. ASSUME NEW t \in Tasks, OthersCalm(t), Acts(t) PROVE Simulated
  <2>1. CASE Shutdown(t)
    BY <1>1, <2>1, ShutdownSimulated
  <2>2. CASE ~Shutdown(t)
    <3>1. \A u \in Tasks \ {t} :
            ClientMap'[u] = ClientMap[u] /\ LeaseMap'[u] = LeaseMap[u]
      BY <1>1, <1>t, <2>2, OthersKeep
    <3>2. ClientSteps(t)
      BY <1>1, <1>t, <2>2, ActorSteps
    <3>3. CASE Startup(t) \/ StartupKeep(t)
      <4>1. /\ pc[t] \in {"idle", "starting"}
            /\ pc'[t] \in {"idle", "joining", "starting"}
        <5>1. CASE Startup(t)
          BY <1>t, <5>1 DEF Startup, StartupJoin, StartupBegin, StartupEmpty,
                            StartupTooLarge, Go, locals, TypeOK
        <5>2. CASE StartupKeep(t)
          BY <1>t, <5>2, Landing DEF StartupKeep
        <5> QED BY <3>3, <5>1, <5>2
      <4>2. ClientMap'[t] = ClientMap[t] /\ LeaseMap'[t] = LeaseMap[t]
        BY <4>1, Mapping, MappingNext
      <4>3. \/ LifecycleOf' = LifecycleOf
            \/ LifecycleOf' = "opened"
            \/ LifecycleOf = "closed" /\ LifecycleOf' = "created"
        <5>1. CASE StartupJoin(t) \/ StartupBegin(t) \/ StartupTooLarge(t)
          <6>1. ~opened /\ ~opened' /\ ~closed'
            BY <1>t, <5>1 DEF StartupJoin, StartupBegin, StartupTooLarge
          <6> QED BY <6>1 DEF LifecycleOf
        <5>2. CASE StartupEmpty(t)
          BY <5>2 DEF StartupEmpty, LifecycleOf
        <5>3. CASE StartupKeep(t)
          <6>1. ~closed' /\ opened'
            BY <5>3 DEF StartupKeep, Current
          <6> QED BY <6>1 DEF LifecycleOf
        <5> QED BY <3>3, <5>1, <5>2, <5>3 DEF Startup
      <4> QED BY <3>1, <4>2, <4>3, OnlyLifecycle
    <3>4. CASE ~(Startup(t) \/ StartupKeep(t))
      <4>1. opened' = opened /\ closed' = closed
        <5>1. CASE Acquire(t)
          BY <5>1 DEF Acquire, TakeFree, TakeForPing, SkipFree, Reserve, Wait,
                      Refuse, shared
        <5>2. CASE Checkout(t) \/ StartupProceeds(t)
          BY <3>4, <5>2 DEF Checkout, Created, CreateFailed, PingAnswered,
             PingFailed, StartupProceeds, ChildEnds, StartupDrop,
             StartupAborted, StartupCollected, GiveUpStartup, JoinEnds, shared
        <5>3. CASE \/ Queue(t) \/ Use(t) \/ Release(t)
                   \/ Discard(t) \/ DiscardLast(t)
          BY <5>3 DEF Queue, Use, Release, ReleaseFree, ReleaseBroken,
             ReleaseForeign, Discard, DiscardLast, shared
        <5>4. CASE Cancel(t)
          BY <5>4 DEF Cancel, PingCancelled, QueueCancelled, WaitCancelled,
             StartupCancelled, CollectCancelled, JoinCancelled,
             DiscardCancelled, shared
        <5> QED BY <1>1, <2>2, <3>4, <5>1, <5>2, <5>3, <5>4 DEF Acts
      <4>2. LifecycleOf' = LifecycleOf
        BY <4>1 DEF LifecycleOf
      <4> QED BY <3>1, <3>2, <4>2, OneClient
    <3> QED BY <3>3, <3>4
  <2> QED BY <2>1, <2>2
<1>2. ASSUME StaleUse \/ UNCHANGED vars PROVE Simulated
  <2>1. UNCHANGED <<pc, mine, ticket, acquired, generation, opened, closed>>
    BY <1>2 DEF StaleUse, locals, shared, vars
  <2>2. LifecycleOf' = LifecycleOf
    BY <2>1 DEF LifecycleOf
  <2>3. ASSUME NEW u \in Tasks
        PROVE  ClientMap'[u] = ClientMap[u] /\ LeaseMap'[u] = LeaseMap[u]
    BY <2>1 DEF ClientMap, LeaseMap, ClientOf, LeaseOf
  <2> QED BY <2>2, <2>3, OnlyLifecycle
<1> QED BY <1>1, <1>2, OneActs

\* The pool implements the lease service, whatever faults the environment may
\* produce: leases are exclusive and bounded by maxsize, an attempt that a
\* shutdown overtook is never granted, and a closed pool grants nothing.
THEOREM ImplementsServiceCorrect == Spec => ImplementsService
<1>1. Init => Service!Init
  <2> SUFFICES ASSUME Init PROVE Service!Init
    OBVIOUS
  <2>1. \A t \in Tasks : ClientOf(t) = "idle" /\ LeaseOf(t) = {}
    BY DEF Init, ClientOf, LeaseOf
  <2>2. LifecycleOf = "created"
    BY DEF Init, LifecycleOf
  <2> QED BY <2>1, <2>2 DEF Service!Init
<1>2. IInv /\ SemaphoreBound /\ TicketsValid /\ [Next]_vars
        => [Service!Next]_(Service!vars)
  BY SimulationStep DEF Simulated
<1> QED BY <1>1, <1>2, InvariantCorrect, SemaphoreCorrect, TicketsCorrect, PTL
        DEF Spec, ImplementsService, Service!Spec
=============================================================================
