-------------------------------- MODULE Pool --------------------------------
(***************************************************************************)
(* asynch/pool.py: the asyncio connection pool.                            *)
(*                                                                         *)
(* Every task of the event loop may borrow a connection (Pool.connection), *)
(* start the pool or shut it down.  The event loop switches tasks only at  *)
(* an await that suspends, and no `async with self._lock` body suspends,   *)
(* so the lock is never contended: one action is everything a task does    *)
(* between two suspending awaits, and pc[t] names the await it is at.      *)
(*                                                                         *)
(*   idle       not in a pool call                                         *)
(*   queued     in the FIFO queue of the semaphore                         *)
(*   ready      woken inside _acquire_connection, about to run its loop    *)
(*   waiting    at wait_event.wait(): no capacity to create a connection   *)
(*   creating   at _new_connection() with one reserved slot                *)
(*   pinging    at conn.ping() of an idle connection                       *)
(*   using      in the body of `async with pool.connection()`              *)
(*   skipping   closing an unusable idle connection, then the loop again   *)
(*   refusing   closing a connection that a shutdown overtook, then raise  *)
(*   retiring   closing an unusable connection while returning it          *)
(*   joining    startup() behind another startup: startup_event.wait()     *)
(*   joined     woken by startup_event.set()                               *)
(*   starting   startup() at gather() of minsize _new_connection tasks     *)
(*   aborting   cancelled startup() waiting for its cancelled tasks        *)
(*   collecting cancelled startup() at the second gather()                 *)
(*   unwinding  failed startup() closing the connections it will not keep  *)
(*   draining   shutdown() closing the connections it detached             *)
(*                                                                         *)
(* A connection that is already down is closed without suspending; the     *)
(* model still gives its close a step of its own, which only adds          *)
(* interleavings.                                                          *)
(***************************************************************************)
EXTENDS Integers, Sequences, FiniteSets, Functions

CONSTANTS
  Tasks,          \* the asyncio tasks that use the pool
  Conns,          \* identities of Connection objects
  MinSize,        \* the minsize argument
  MaxSize,        \* the maxsize argument
  PingOnCheckout, \* pool_recycle >= 0: an idle connection may need a ping
  Faults,         \* which awkward events the environment may produce
  MaxGeneration,  \* bound: how many shutdowns happen
  MaxStartups     \* bound: how many startups create connections

(* The awkward events:                                                     *)
(*   cancel_ping    a borrower is cancelled while it pings                 *)
(*   cancel_collect a startup is cancelled again at its second gather      *)
(*   cancel_drain   a task is cancelled while it has several left to close *)
(*   stale_use      somebody still acts on a connection it returned        *)
(*   revive         a borrower whose connection a shutdown closed runs a   *)
(*                  query on it: force_connect opens the socket again      *)
AllFaults ==
  {"cancel_ping", "cancel_collect", "cancel_drain", "stale_use", "revive"}

\* Pool.__init__ raises ValueError outside these ranges.
ASSUME SizeAssumption ==
  /\ MaxSize \in Nat \ {0}
  /\ MinSize \in 0..MaxSize

ASSUME PopulationAssumption ==
  /\ IsFiniteSet(Conns)
  /\ IsFiniteSet(Tasks)
  /\ PingOnCheckout \in BOOLEAN
  /\ Faults \subseteq AllFaults
  /\ MaxGeneration \in Nat
  /\ MaxStartups \in Nat

VARIABLES
  pc,         \* where each task is suspended
  mine,       \* the connections held by a task's local variables
  ticket,     \* candidate_generation / reservation of each task
  queue,      \* waiters of self._sem, oldest first
  acquired,   \* self._acquired_connections
  free,       \* self._free_connections
  idleSince,  \* keys of self._idle_since
  pending,    \* self._pending_connections
  generation, \* self._generation
  opened,     \* self._opened
  closed,     \* self._closed
  starting,   \* self._startup_event is not None
  state,      \* what connected / is_query_executing say of a connection
  startups    \* bound only: startups that reserved slots so far

locals == <<pc, mine, ticket, queue>>
shared == <<acquired, free, idleSince, pending, generation, opened, closed,
            starting>>
vars == <<pc, mine, ticket, queue, acquired, free, idleSince, pending,
          generation, opened, closed, starting, state, startups>>

-----------------------------------------------------------------------------
(* Places *)

Discarding == {"skipping", "refusing", "retiring", "unwinding", "draining"}
Borrowing  == {"ready", "waiting", "creating", "pinging", "using",
               "skipping", "refusing", "retiring"}
Founding   == {"starting", "aborting", "collecting"}
Places     == {"idle", "queued", "joining", "joined"}
                \cup Borrowing \cup Founding \cup Discarding

\* connecting: connect() in progress; open: connected and not executing;
\* busy: connected with a query executing; down: not connected.
ConnStates == {"connecting", "open", "busy", "down"}

\* Tasks inside `async with self._sem`.
Inside == {t \in Tasks : pc[t] \in Borrowing}

\* Objects that nothing refers to and whose socket is closed: their identity
\* stands for the next Connection(...) call.
Referenced == acquired \cup Range(free) \cup UNION {mine[t] : t \in Tasks}
Fresh == {c \in Conns \ Referenced : state[c] = "down"}

-----------------------------------------------------------------------------
(* Helpers *)

\* Leaving `async with self._sem`: the permit goes to the oldest waiter.
Handover(p) == IF queue = <<>> THEN p ELSE [p EXCEPT ![Head(queue)] = "ready"]
NextQueue   == IF queue = <<>> THEN queue ELSE Tail(queue)

\* The event is replaced and never set.
NotifiedNobody(p) == p

\* _notify_state_changed: every task at wait_event.wait() becomes runnable.
Notified(p) == [t \in Tasks |-> IF p[t] = "waiting" THEN "ready" ELSE p[t]]

\* startup_event.set()
StartupSet(p) == [t \in Tasks |-> IF p[t] = "joining" THEN "joined" ELSE p[t]]

\* The whole batch is appended as one element.
PushedAsOne(q, cs) == Append(q, cs)

\* deque(maxlen=maxsize).append, once per connection: a full deque drops its
\* oldest entries.
Pushed(q, cs) ==
  LET all == q \o cs
  IN  IF Len(all) <= MaxSize THEN all
      ELSE SubSeq(all, Len(all) - MaxSize + 1, Len(all))

\* Creations in flight are not counted.
RoomWithoutPending(n) == Cardinality(acquired) + Len(free) + n <= MaxSize

\* _reserve_connection_slots: is there room for n more connections?
Room(n) == Cardinality(acquired) + Len(free) + pending + n <= MaxSize

\* A shutdown that forgets the generation is only noticed while it lasts.
CurrentUnlessClosed(t) == ~closed

\* Nothing is re-validated after the network call.
CurrentUnchecked(t) == t \in Tasks

\* What was reserved or taken before the network call is still the pool's.
Current(t) == ticket[t] = generation /\ ~closed

Go(t, place, conns) ==
  /\ pc' = [pc EXCEPT ![t] = place]
  /\ mine' = [mine EXCEPT ![t] = conns]

\* A borrower leaves connection(), by return or by exception.
Leave(t) ==
  /\ pc' = Handover([pc EXCEPT ![t] = "idle"])
  /\ mine' = [mine EXCEPT ![t] = {}]
  /\ queue' = NextQueue

\* The reservation of a borrower ends (_finish_connection_reservation(1)).
LeaveNotifying(t) ==
  /\ pc' = Notified(Handover([pc EXCEPT ![t] = "idle"]))
  /\ mine' = [mine EXCEPT ![t] = {}]
  /\ queue' = NextQueue

-----------------------------------------------------------------------------
Init ==
  /\ pc = [t \in Tasks |-> "idle"]
  /\ mine = [t \in Tasks |-> {}]
  /\ ticket = [t \in Tasks |-> 0]
  /\ queue = <<>>
  /\ acquired = {}
  /\ free = <<>>
  /\ idleSince = {}
  /\ pending = 0
  /\ generation = 0
  /\ opened = FALSE
  /\ closed = FALSE
  /\ starting = FALSE
  /\ state = [c \in Conns |-> "down"]
  /\ startups = 0

-----------------------------------------------------------------------------
(* Borrowing: connection() and _acquire_connection() *)

\* The semaphore is locked: the borrower queues.
Queue(t) ==
  /\ pc[t] = "idle"
  /\ queue # <<>> \/ Cardinality(Inside) >= MaxSize
  /\ pc' = [pc EXCEPT ![t] = "queued"]
  /\ queue' = Append(queue, t)
  /\ UNCHANGED <<mine, ticket, shared, state, startups>>

\* The acquire loop runs without suspending from a free permit, or after a
\* wake-up.
Enters(t) ==
  \/ pc[t] = "ready"
  \/ pc[t] = "idle" /\ queue = <<>> /\ Cardinality(Inside) < MaxSize

\* The head of the deque is read and left there.
PopFreePeeks == UNCHANGED <<free, idleSince>>

\* The connection's idle time outlives its stay in the deque.
PopFreeKeepsTime ==
  /\ free' = Tail(free)
  /\ idleSince' = idleSince

PopFree ==
  /\ free' = Tail(free)
  /\ idleSince' = idleSince \ {Head(free)}

\* The connection is handed out without a look at its flags.
TakeFreeUnchecked(t) ==
  /\ Enters(t)
  /\ free # <<>>
  /\ PopFree
  /\ acquired' = acquired \cup {Head(free)}
  /\ Go(t, "using", {Head(free)})
  /\ UNCHANGED <<ticket, queue, pending, generation, opened, closed, starting,
                 state, startups>>

\* _take_free_connection, and the connection is used as it is.
TakeFree(t) ==
  /\ Enters(t)
  /\ free # <<>>
  /\ state[Head(free)] = "open"
  /\ PopFree
  /\ acquired' = acquired \cup {Head(free)}
  /\ Go(t, "using", {Head(free)})
  /\ UNCHANGED <<ticket, queue, pending, generation, opened, closed, starting,
                 state, startups>>

\* _take_free_connection, and its idle age asks for a ping.
TakeForPing(t) ==
  /\ PingOnCheckout
  /\ Enters(t)
  /\ free # <<>>
  /\ state[Head(free)] = "open"
  /\ PopFree
  /\ acquired' = acquired \cup {Head(free)}
  /\ Go(t, "pinging", {Head(free)})
  /\ ticket' = [ticket EXCEPT ![t] = generation]
  /\ UNCHANGED <<queue, pending, generation, opened, closed, starting, state,
                 startups>>

\* _take_free_connection, but it is not connected or executes a query:
\* _discard_acquired_connection takes it out again and closes it.
SkipFree(t) ==
  /\ Enters(t)
  /\ free # <<>>
  /\ state[Head(free)] # "open"
  /\ PopFree
  /\ Go(t, "skipping", {Head(free)})
  /\ UNCHANGED <<ticket, queue, acquired, pending, generation, opened, closed,
                 starting, state, startups>>

\* No idle connection: reserve a slot and create one outside the lock.
Reserve(t) ==
  /\ Enters(t)
  /\ free = <<>>
  /\ ~closed
  /\ Room(1)
  /\ pending' = pending + 1
  /\ \E c \in Fresh :
       /\ Go(t, "creating", {c})
       /\ state' = [state EXCEPT ![c] = "connecting"]
  /\ ticket' = [ticket EXCEPT ![t] = generation]
  /\ UNCHANGED <<queue, acquired, free, idleSince, generation, opened, closed,
                 starting, startups>>

\* No idle connection and no room: wait for the current state_changed event.
Wait(t) ==
  /\ Enters(t)
  /\ free = <<>>
  /\ ~closed
  /\ ~Room(1)
  /\ Go(t, "waiting", {})
  /\ UNCHANGED <<ticket, queue, shared, state, startups>>

\* No idle connection in a closed pool: AsynchPoolError.
Refuse(t) ==
  /\ Enters(t)
  /\ free = <<>>
  /\ closed
  /\ Leave(t)
  /\ UNCHANGED <<ticket, shared, state, startups>>

\* connect() succeeded: the reservation ends, and the connection is leased
\* unless a shutdown happened meanwhile.
Created(t) ==
  /\ pc[t] = "creating"
  /\ pending' = pending - 1
  /\ state' = [c \in Conns |-> IF c \in mine[t] THEN "open" ELSE state[c]]
  /\ IF Current(t)
       THEN /\ acquired' = acquired \cup mine[t]
            /\ pc' = Notified([pc EXCEPT ![t] = "using"])
       ELSE /\ acquired' = acquired
            /\ pc' = Notified([pc EXCEPT ![t] = "refusing"])
  /\ UNCHANGED <<mine, ticket, queue, free, idleSince, generation, opened,
                 closed, starting, startups>>

\* The error path does not give the slot back.
CreateFailedKeepsSlot(t) ==
  /\ pc[t] = "creating"
  /\ state' = [c \in Conns |-> IF c \in mine[t] THEN "down" ELSE state[c]]
  /\ LeaveNotifying(t)
  /\ UNCHANGED <<ticket, acquired, free, idleSince, pending, generation, opened,
                 closed, starting, startups>>

\* connect() failed or was cancelled: _new_connection closed what there was,
\* the reservation ends and the error leaves connection().
CreateFailed(t) ==
  /\ pc[t] = "creating"
  /\ pending' = pending - 1
  /\ state' = [c \in Conns |-> IF c \in mine[t] THEN "down" ELSE state[c]]
  /\ LeaveNotifying(t)
  /\ UNCHANGED <<ticket, acquired, free, idleSince, generation, opened, closed,
                 starting, startups>>

\* The checkout ping was answered.
PingAnswered(t) ==
  /\ pc[t] = "pinging"
  /\ IF Current(t) /\ mine[t] \subseteq acquired
       THEN pc' = [pc EXCEPT ![t] = "using"]
       ELSE pc' = [pc EXCEPT ![t] = "refusing"]
  /\ UNCHANGED <<mine, ticket, queue, shared, state, startups>>

\* The connection is closed but stays registered as borrowed.
PingFailedStaysAcquired(t) ==
  /\ pc[t] = "pinging"
  /\ pc' = [pc EXCEPT ![t] = "skipping"]
  /\ UNCHANGED <<mine, ticket, queue, shared, state, startups>>

\* The checkout ping failed: discard the connection and look for another.
PingFailed(t) ==
  /\ pc[t] = "pinging"
  /\ acquired' = acquired \ mine[t]
  /\ pc' = [pc EXCEPT ![t] = "skipping"]
  /\ UNCHANGED <<mine, ticket, queue, free, idleSince, pending, generation,
                 opened, closed, starting, state, startups>>

\* CancelledError is not an Exception: nothing handles it around conn.ping(),
\* and the connection stays in _acquired_connections.
PingCancelled(t) ==
  /\ "cancel_ping" \in Faults
  /\ pc[t] = "pinging"
  /\ Leave(t)
  /\ UNCHANGED <<ticket, shared, state, startups>>

\* A borrower cancelled in the semaphore queue.
QueueCancelled(t) ==
  /\ pc[t] = "queued"
  /\ pc' = [pc EXCEPT ![t] = "idle"]
  /\ \E i \in DOMAIN queue :
       /\ queue[i] = t
       /\ queue' = SubSeq(queue, 1, i - 1) \o SubSeq(queue, i + 1, Len(queue))
  /\ UNCHANGED <<mine, ticket, shared, state, startups>>

\* A borrower cancelled while it waits for capacity or is about to run.
WaitCancelled(t) ==
  /\ pc[t] \in {"waiting", "ready"}
  /\ Leave(t)
  /\ UNCHANGED <<ticket, shared, state, startups>>

-----------------------------------------------------------------------------
(* Using and returning a connection *)

\* The borrower runs queries, loses the connection, or reconnects it.
Use(t) ==
  /\ pc[t] = "using"
  /\ \E c \in mine[t], s \in {"open", "busy", "down"} :
       /\ s # state[c]
       /\ state[c] # "down" \/ c \in acquired \/ "revive" \in Faults
       /\ state' = [state EXCEPT ![c] = s]
  /\ UNCHANGED <<locals, shared, startups>>

\* The connection goes back to the deque and stays registered as borrowed.
ReleaseFreeStaysAcquired(t) ==
  /\ pc[t] = "using"
  /\ mine[t] \subseteq acquired
  /\ \A c \in mine[t] : state[c] = "open"
  /\ \E c \in mine[t] : free' = Pushed(free, <<c>>)
  /\ idleSince' = idleSince \cup mine[t]
  /\ Leave(t)
  /\ UNCHANGED <<ticket, acquired, pending, generation, opened, closed,
                 starting, state, startups>>

\* _release_connection of a connection that is still the pool's and usable.
ReleaseFree(t) ==
  /\ pc[t] = "using"
  /\ mine[t] \subseteq acquired
  /\ \A c \in mine[t] : state[c] = "open"
  /\ acquired' = acquired \ mine[t]
  /\ \E c \in mine[t] : free' = Pushed(free, <<c>>)
  /\ idleSince' = idleSince \cup mine[t]
  /\ Leave(t)
  /\ UNCHANGED <<ticket, pending, generation, opened, closed, starting, state,
                 startups>>

\* _release_connection of an unusable connection: it is closed.
ReleaseBroken(t) ==
  /\ pc[t] = "using"
  /\ mine[t] \subseteq acquired
  /\ \E c \in mine[t] : state[c] # "open"
  /\ acquired' = acquired \ mine[t]
  /\ pc' = [pc EXCEPT ![t] = "retiring"]
  /\ UNCHANGED <<mine, ticket, queue, free, idleSince, pending, generation,
                 opened, closed, starting, state, startups>>

\* _release_connection after a shutdown: the AsynchPoolError is only logged.
ReleaseForeign(t) ==
  /\ pc[t] = "using"
  /\ ~(mine[t] \subseteq acquired)
  /\ Leave(t)
  /\ UNCHANGED <<ticket, shared, state, startups>>

\* Somebody keeps using a connection it gave back.
StaleUse ==
  /\ "stale_use" \in Faults
  /\ \E c \in Range(free), s \in {"busy", "down"} :
       /\ state[c] = "open"
       /\ state' = [state EXCEPT ![c] = s]
  /\ UNCHANGED <<locals, shared, startups>>

-----------------------------------------------------------------------------
(* startup() *)

\* Another startup is creating connections: wait for its event.
StartupJoin(t) ==
  /\ pc[t] = "idle"
  /\ ~opened
  /\ starting
  /\ closed' = FALSE
  /\ pc' = [pc EXCEPT ![t] = "joining"]
  /\ UNCHANGED <<mine, ticket, queue, acquired, free, idleSince, pending,
                 generation, opened, starting, state, startups>>

\* Reserve minsize slots and start one creating task per slot.
StartupBegin(t) ==
  /\ startups < MaxStartups
  /\ pc[t] = "idle"
  /\ ~opened
  /\ ~starting
  /\ MinSize > 0
  /\ Room(MinSize)
  /\ closed' = FALSE
  /\ starting' = TRUE
  /\ pending' = pending + MinSize
  /\ \E batch \in SUBSET Fresh :
       /\ Cardinality(batch) = MinSize
       /\ Go(t, "starting", batch)
       /\ state' = [c \in Conns |-> IF c \in batch THEN "connecting"
                                                   ELSE state[c]]
  /\ ticket' = [ticket EXCEPT ![t] = generation]
  /\ startups' = startups + 1
  /\ UNCHANGED <<queue, acquired, free, idleSince, generation, opened>>

\* minsize = 0: there is nothing to create and the pool opens at once.
StartupEmpty(t) ==
  /\ pc[t] = "idle"
  /\ ~opened
  /\ ~starting
  /\ MinSize = 0
  /\ Room(MinSize)
  /\ closed' = FALSE
  /\ opened' = TRUE
  /\ UNCHANGED <<locals, acquired, free, idleSince, pending, generation,
                 starting, state, startups>>

\* Borrowers already hold too much: AsynchPoolError, but `closed` is reset.
StartupTooLarge(t) ==
  /\ pc[t] = "idle"
  /\ ~opened
  /\ ~starting
  /\ ~Room(MinSize)
  /\ closed' = FALSE
  /\ UNCHANGED <<locals, acquired, free, idleSince, pending, generation, opened,
                 starting, state, startups>>

\* One of the creating tasks ends.
ChildEnds(t) ==
  /\ pc[t] \in {"starting", "aborting"}
  /\ \E c \in mine[t], s \in {"open", "down"} :
       /\ state[c] = "connecting"
       /\ state' = [state EXCEPT ![c] = s]
  /\ UNCHANGED <<locals, shared, startups>>

Gathered(t) == \A c \in mine[t] : state[c] # "connecting"

\* Every result of gather counts as a connection, exceptions included.
SurvivorsWithErrors(t) == mine[t]

Survivors(t) == {c \in mine[t] : state[c] = "open"}

\* The event object is forgotten without being set.
StartupFailsUnset(t, p) ==
  /\ pc' = [p EXCEPT ![t] = "idle"]
  /\ starting' = FALSE

\* The event is set and the attribute keeps it.
StartupFailsKeepsEvent(t, p) ==
  /\ pc' = StartupSet([p EXCEPT ![t] = "idle"])
  /\ starting' = starting

\* startup() ends with an exception: the event is set for those who joined.
StartupFails(t, p) ==
  /\ pc' = StartupSet([p EXCEPT ![t] = "idle"])
  /\ starting' = FALSE

\* All tasks succeeded and no shutdown happened: the pool opens.
StartupKeep(t) ==
  /\ pc[t] = "starting"
  /\ Gathered(t)
  /\ Current(t)
  /\ Survivors(t) = mine[t]
  /\ pending' = pending - MinSize
  /\ \E order \in [1..MinSize -> mine[t]] :
       /\ IsInjective(order)
       /\ free' = Pushed(free, order)
  /\ idleSince' = idleSince \cup mine[t]
  /\ opened' = TRUE
  /\ starting' = FALSE
  /\ pc' = StartupSet(Notified([pc EXCEPT ![t] = "idle"]))
  /\ mine' = [mine EXCEPT ![t] = {}]
  /\ UNCHANGED <<ticket, queue, acquired, generation, closed, state, startups>>

\* Those waiting for capacity are not told that the slots are free again.
GiveUpStartupSilently(t) ==
  /\ pending' = pending - MinSize
  /\ IF Survivors(t) = {}
       THEN /\ StartupFails(t, pc)
            /\ mine' = [mine EXCEPT ![t] = {}]
       ELSE /\ pc' = [pc EXCEPT ![t] = "unwinding"]
            /\ mine' = [mine EXCEPT ![t] = Survivors(t)]
            /\ starting' = starting
  /\ UNCHANGED <<ticket, queue, acquired, free, idleSince, generation, opened,
                 closed, state, startups>>

\* The surviving connections are left open.
GiveUpStartupUnclosed(t) ==
  /\ pending' = pending - MinSize
  /\ StartupFails(t, Notified(pc))
  /\ mine' = [mine EXCEPT ![t] = {}]
  /\ UNCHANGED <<ticket, queue, acquired, free, idleSince, generation, opened,
                 closed, state, startups>>

\* The reservation ends and the surviving connections are closed, one after
\* the other, before the exception leaves startup().
GiveUpStartup(t) ==
  /\ pending' = pending - MinSize
  /\ IF Survivors(t) = {}
       THEN /\ StartupFails(t, Notified(pc))
            /\ mine' = [mine EXCEPT ![t] = {}]
       ELSE /\ pc' = Notified([pc EXCEPT ![t] = "unwinding"])
            /\ mine' = [mine EXCEPT ![t] = Survivors(t)]
            /\ starting' = starting
  /\ UNCHANGED <<ticket, queue, acquired, free, idleSince, generation, opened,
                 closed, state, startups>>

\* A task failed, or a shutdown overtook the startup.
StartupDrop(t) ==
  /\ pc[t] = "starting"
  /\ Gathered(t)
  /\ ~Current(t) \/ Survivors(t) # mine[t]
  /\ GiveUpStartup(t)

\* startup() is cancelled at gather(), which cancels its tasks.
StartupCancelled(t) ==
  /\ pc[t] = "starting"
  /\ pc' = [pc EXCEPT ![t] = "aborting"]
  /\ UNCHANGED <<mine, ticket, queue, shared, state, startups>>

\* The cancelled gather() returns; the results are gathered once more.
StartupAborted(t) ==
  /\ pc[t] = "aborting"
  /\ Gathered(t)
  /\ pc' = [pc EXCEPT ![t] = "collecting"]
  /\ UNCHANGED <<mine, ticket, queue, shared, state, startups>>

StartupCollected(t) ==
  /\ pc[t] = "collecting"
  /\ GiveUpStartup(t)

\* A second cancellation at the second gather() skips the end of the
\* reservation and the closing of the connections.
CollectCancelled(t) ==
  /\ "cancel_collect" \in Faults
  /\ pc[t] = "collecting"
  /\ StartupFails(t, pc)
  /\ mine' = [mine EXCEPT ![t] = {}]
  /\ UNCHANGED <<ticket, queue, acquired, free, idleSince, pending, generation,
                 opened, closed, state, startups>>

\* A joined startup returns, or raises when the pool did not open.
JoinEnds(t) ==
  /\ pc[t] = "joined"
  /\ pc' = [pc EXCEPT ![t] = "idle"]
  /\ UNCHANGED <<mine, ticket, queue, shared, state, startups>>

\* A joined startup is cancelled while it waits.
JoinCancelled(t) ==
  /\ pc[t] \in {"joining", "joined"}
  /\ pc' = [pc EXCEPT ![t] = "idle"]
  /\ UNCHANGED <<mine, ticket, queue, shared, state, startups>>

-----------------------------------------------------------------------------
(* shutdown() and closing *)

\* Detach everything under the lock, then close it outside.
Shutdown(t) ==
  /\ generation < MaxGeneration
  /\ pc[t] = "idle"
  /\ LET detached == acquired \cup Range(free)
     IN  /\ mine' = [mine EXCEPT ![t] = detached]
         /\ pc' = Notified([pc EXCEPT ![t] = IF detached = {} THEN "idle"
                                                         ELSE "draining"])
  /\ acquired' = {}
  /\ free' = <<>>
  /\ idleSince' = {}
  /\ generation' = generation + 1
  /\ opened' = FALSE
  /\ closed' = TRUE
  /\ UNCHANGED <<ticket, queue, pending, starting, state, startups>>

\* An exception leaves the pool call that task t is in while it closes
\* connections.
Raises(t) ==
  \/ /\ pc[t] \in {"skipping", "refusing", "retiring"}
     /\ Leave(t)
     /\ starting' = starting
  \/ /\ pc[t] = "unwinding"
     /\ StartupFails(t, pc)
     /\ mine' = [mine EXCEPT ![t] = {}]
     /\ queue' = queue
  \/ /\ pc[t] = "draining"
     /\ Go(t, "idle", {})
     /\ UNCHANGED <<queue, starting>>

\* conn.close() ends, whether or not it raised, and others are left to close.
Discard(t) ==
  /\ pc[t] \in Discarding
  /\ Cardinality(mine[t]) > 1
  /\ \E c \in mine[t] :
       /\ state' = [state EXCEPT ![c] = "down"]
       /\ mine' = [mine EXCEPT ![t] = @ \ {c}]
  /\ UNCHANGED <<pc, ticket, queue, shared, startups>>

\* The last close ends: a skipping borrower goes on looking, the others leave.
DiscardLast(t) ==
  /\ pc[t] \in Discarding
  /\ Cardinality(mine[t]) = 1
  /\ state' = [c \in Conns |-> IF c \in mine[t] THEN "down" ELSE state[c]]
  /\ \/ /\ pc[t] = "skipping"
        /\ Go(t, "ready", {})
        /\ UNCHANGED <<queue, starting>>
     \/ /\ pc[t] # "skipping"
        /\ Raises(t)
  /\ UNCHANGED <<ticket, acquired, free, idleSince, pending, generation, opened,
                 closed, startups>>

\* Cancelled inside conn.close(): that connection is down all the same, the
\* remaining ones are not closed.
DiscardCancelled(t) ==
  /\ pc[t] \in Discarding
  /\ Cardinality(mine[t]) = 1 \/ "cancel_drain" \in Faults
  /\ \E c \in mine[t] : state' = [state EXCEPT ![c] = "down"]
  /\ Raises(t)
  /\ UNCHANGED <<ticket, acquired, free, idleSince, pending, generation, opened,
                 closed, startups>>

-----------------------------------------------------------------------------
Acquire(t) ==
  \/ TakeFree(t) \/ TakeForPing(t) \/ SkipFree(t)
  \/ Reserve(t) \/ Wait(t) \/ Refuse(t)

Checkout(t) ==
  \/ Created(t) \/ CreateFailed(t)
  \/ PingAnswered(t) \/ PingFailed(t)

Release(t) == ReleaseFree(t) \/ ReleaseBroken(t) \/ ReleaseForeign(t)

Startup(t) ==
  \/ StartupJoin(t) \/ StartupBegin(t) \/ StartupEmpty(t) \/ StartupTooLarge(t)

StartupProceeds(t) ==
  \/ ChildEnds(t) \/ StartupKeep(t) \/ StartupDrop(t)
  \/ StartupAborted(t) \/ StartupCollected(t) \/ JoinEnds(t)

Cancel(t) ==
  \/ PingCancelled(t) \/ QueueCancelled(t) \/ WaitCancelled(t)
  \/ StartupCancelled(t) \/ CollectCancelled(t) \/ JoinCancelled(t)
  \/ DiscardCancelled(t)

Next ==
  \/ \E t \in Tasks :
       \/ Queue(t) \/ Acquire(t) \/ Checkout(t)
       \/ Use(t) \/ Release(t)
       \/ Startup(t) \/ StartupProceeds(t)
       \/ Shutdown(t) \/ Discard(t) \/ DiscardLast(t)
       \/ Cancel(t)
  \/ StaleUse

Spec == Init /\ [][Next]_vars

\* The event loop runs every runnable task; connect_timeout and
\* sync_request_timeout end every connect and ping; close() returns; and a
\* borrower leaves its `async with` block.  Nothing obliges a task to borrow,
\* start, shut down or be cancelled.
Fairness ==
  \A t \in Tasks :
    /\ WF_vars(pc[t] = "ready" /\ Acquire(t))
    /\ WF_vars(Checkout(t))
    /\ WF_vars(Release(t))
    /\ WF_vars(StartupProceeds(t))
    /\ WF_vars(Discard(t) \/ DiscardLast(t))

FairSpec == Spec /\ Fairness

-----------------------------------------------------------------------------
(* Properties *)

TypeOK ==
  /\ pc \in [Tasks -> Places]
  /\ mine \in [Tasks -> SUBSET Conns]
  /\ ticket \in [Tasks -> Nat]
  /\ queue \in Seq(Tasks)
  /\ acquired \in SUBSET Conns
  /\ free \in Seq(Conns)
  /\ idleSince \in SUBSET Conns
  /\ pending \in Int
  /\ generation \in Nat
  /\ opened \in BOOLEAN
  /\ closed \in BOOLEAN
  /\ starting \in BOOLEAN
  /\ state \in [Conns -> ConnStates]
  /\ startups \in Nat

\* The pool never owns or prepares more than maxsize connections, whatever
\* borrowers, startups, shutdowns and cancellations interleave with the
\* unlocked network calls (_reserve_connection_slots).
CapacityBound == Cardinality(acquired) + Len(free) + pending <= MaxSize

\* connection() lends "an exclusive connection": no other borrower has it, the
\* pool does not offer it, and only a shutdown may be closing it.
LeasesExclusive ==
  \A t, u \in Tasks :
    /\ pc[t] \in {"using", "pinging"}
    /\ t # u
    /\ mine[t] \cap mine[u] # {}
    => pc[u] = "draining"

\* An idle connection is in the deque once and is nobody's: no task uses,
\* creates or closes it.
FreeIsUnshared ==
  /\ IsInjective(free)
  /\ Range(free) \cap acquired = {}
  /\ \A t \in Tasks : mine[t] \cap Range(free) = {}

\* acquired_connections counts connections "borrowed from the pool": each one
\* has a task that will return or discard it.
AcquiredHasBorrower ==
  \A c \in acquired :
    \E t \in Tasks : pc[t] \in {"using", "pinging"} /\ c \in mine[t]

\* _pending_connections is exactly the number of slots of the creations in
\* flight: none is lost or given back twice on any error path.
Creators == {t \in Tasks : pc[t] = "creating"}
Founders == {t \in Tasks : pc[t] \in Founding}
Slots    == Cardinality(Creators) + MinSize * Cardinality(Founders)

PendingExact == pending = Slots

\* A connection that is not down is idle in the pool or held by a task that
\* will return or close it: nothing leaks when a shutdown overtakes a
\* creation, a ping or a startup.
NothingLeaks ==
  \A c \in Conns :
    state[c] # "down" =>
      c \in Range(free) \/ \E t \in Tasks : c \in mine[t]

\* A borrower waits for capacity only while a creation is in flight, whose end
\* will wake it: releases do not notify, so otherwise it would sleep forever.
WaitersAreWoken == (\E t \in Tasks : pc[t] = "waiting") => pending > 0

\* The status property never meets its "unknown state", and a closed pool has
\* let go of everything.
ClosedIsEmpty ==
  closed => ~opened /\ acquired = {} /\ free = <<>>

\* _idle_since has a time for exactly the idle connections, so its pop never
\* raises KeyError.
IdleTimesMatch == idleSince = Range(free)

\* startup() has one initiator while its event exists, so those who joined it
\* are waiting for somebody.
OneStarter ==
  /\ starting <=> \E t \in Tasks : pc[t] \in Founding \cup {"unwinding"}
  /\ \A t, u \in Tasks :
       /\ pc[t] \in Founding \cup {"unwinding"}
       /\ pc[u] \in Founding \cup {"unwinding"}
       => t = u
  /\ (\E t \in Tasks : pc[t] = "joining") => starting

\* startup() "fills the pool to minsize before marking it open", and what it
\* fills it with is connected.
OpensFilled ==
  [][~opened /\ opened' =>
       /\ Cardinality(acquired') + Len(free') >= MinSize
       /\ \A c \in Range(free') \ Range(free) : state'[c] = "open"]_vars

\* A connection is handed to a borrower connected, without a running query,
\* and registered as acquired.
LeasedIsUsable ==
  [][\A t \in Tasks :
       pc[t] # "using" /\ pc'[t] = "using" =>
         \A c \in mine'[t] : state'[c] = "open" /\ c \in acquired']_vars

\* Every borrower gets a connection or an error: neither the semaphore queue
\* nor the wait for capacity behind a startup strands it.
BorrowersServed ==
  \A t \in Tasks :
    pc[t] \in {"queued", "ready", "waiting"} ~> pc[t] \in {"using", "idle"}

\* Every startup() and shutdown() call ends, also one that joined a startup
\* which then failed, was cancelled or was overtaken by a shutdown.
LifecycleCallsEnd ==
  \A t \in Tasks :
    pc[t] \in Founding \cup {"joining", "unwinding", "draining"}
      ~> pc[t] = "idle"

-----------------------------------------------------------------------------
(* The inductive invariant behind the safety properties (see PoolProofs). *)

\* A borrower at work has exactly one connection in its locals.
HoldsOne ==
  \A t \in Tasks :
    pc[t] \in {"creating", "pinging", "using"} => \E c \in Conns : mine[t] = {c}

\* What is acquired is in the locals of checked-out borrowers only.
AcquiredHeld ==
  \A t \in Tasks :
    pc[t] \notin {"pinging", "using"} => mine[t] \cap acquired = {}

\* Two tasks hold the same connection only if a shutdown detached it from its
\* borrower: one of them drains, the other had it checked out.
Overtaken == {"pinging", "using", "skipping", "refusing"}

HeldApart ==
  \A t, u \in Tasks :
    t # u /\ mine[t] \cap mine[u] # {} =>
      \/ pc[t] = "draining" /\ pc[u] \in Overtaken
      \/ pc[u] = "draining" /\ pc[t] \in Overtaken

\* The semaphore queue holds queued tasks, each once.
QueuedOnce ==
  /\ IsInjective(queue)
  /\ \A i \in DOMAIN queue : pc[queue[i]] = "queued"

\* A pinged connection that the pool still counts as acquired was taken in the
\* current generation.
PingTickets ==
  \A t \in Tasks :
    pc[t] = "pinging" /\ mine[t] \cap acquired # {} => ticket[t] = generation

Ownership == HoldsOne /\ AcquiredHeld /\ HeldApart /\ FreeIsUnshared

IInv ==
  /\ TypeOK
  /\ QueuedOnce
  /\ ClosedIsEmpty
  /\ PingTickets
  /\ Ownership
  /\ CapacityBound

-----------------------------------------------------------------------------
(* The invariants behind the accounts of the pool and its refinement of the  *)
(* lease service (see PoolAccounts).                                         *)

\* asyncio.Semaphore(maxsize): at most maxsize borrowers are inside.
SemaphoreBound == Cardinality(Inside) <= MaxSize

\* Every creation in flight has its slots, even if a cancelled startup leaves
\* some behind.
PendingCovers == pending >= Slots

\* A startup holds the minsize connections it creates; it collects them when
\* none of its tasks runs any more.
FoundersHold ==
  \A t \in Tasks :
    pc[t] \in Founding =>
      /\ Cardinality(mine[t]) = MinSize
      /\ \A c \in mine[t] : state[c] \in {"connecting", "open", "down"}
      /\ pc[t] = "collecting" => Gathered(t)

\* A connection is checked out for a ping open and stays so while the pool
\* counts it as borrowed.
PingedIsOpen ==
  \A t \in Tasks :
    pc[t] = "pinging" => \A c \in mine[t] \cap acquired : state[c] = "open"

\* Outside its network calls and its `async with` body a task has no
\* connection in its locals.
Resters == {"idle", "queued", "ready", "waiting", "joining", "joined"}

RestersHoldNothing == \A t \in Tasks : pc[t] \in Resters => mine[t] = {}

\* A shutdown that took a connection from its borrower closes it.
RevokedIsDrained ==
  \A t \in Tasks :
    pc[t] = "using" =>
      \A c \in mine[t] \ acquired :
        state[c] # "down" =>
          \E u \in Tasks : pc[u] = "draining" /\ c \in mine[u]

\* What was reserved or taken for a ping carries a generation that was current
\* once; a closed pool has moved past it, and what a ping still has a right to
\* is registered as borrowed.
TicketsValid ==
  \A t \in Tasks :
    pc[t] \in {"creating", "pinging"} =>
      /\ ticket[t] <= generation
      /\ closed => ticket[t] # generation
      /\ pc[t] = "pinging" /\ ticket[t] = generation => mine[t] \subseteq acquired
=============================================================================
