------------------------------- MODULE Session -------------------------------
(***************************************************************************)
(* asynch/proto/connection.py, asynch/proto/context.py and the calls that  *)
(* asynch/connection.py adds: one native-protocol connection, used by      *)
(* several asyncio tasks.                                                  *)
(*                                                                         *)
(* As in Pool, one action is what a task does between two awaits that      *)
(* suspend, and pc[t] names the await it is at:                            *)
(*                                                                         *)
(*   idle       in no call                                                 *)
(*   locking    queued for the lock of force_connect                       *)
(*   granted    woken by the lock, about to run the body of force_connect  *)
(*   dialing    at open_connection()                                       *)
(*   greeting   at receive_hello()                                         *)
(*   probing    at the ping of force_connect                               *)
(*   reopening  at writer.close() inside force_connect, then dials         *)
(*   closing    at writer.close(), then leaves the call                    *)
(*   pinging    at the PONG of Connection.ping()                           *)
(*   reading    at the next packet of a result                             *)
(*   yielding   at sleep(0) after a data block                             *)
(*   sampling   at the sample block of an INSERT                           *)
(*   draining   at the end of stream of an INSERT                          *)
(*                                                                         *)
(* The server and the network are the environment.  Requests and packets   *)
(* are whole; PROGRESS, PROFILE_INFO, LOG and the other packets that only  *)
(* fill in statistics are left out.  Writes do not suspend (the transport  *)
(* buffer stays below its high-water mark).  There is one host, and        *)
(* disable_reconnect is False.                                             *)
(***************************************************************************)
EXTENDS Integers, Sequences, FiniteSets

CONSTANTS
  Tasks,      \* the asyncio tasks that share the connection
  NoTask,     \* the holder of a free lock
  Calls,      \* which calls the tasks make
  Faults,     \* which awkward events happen
  MaxSockets, \* bound: TCP connections opened
  MaxQueries, \* bound: queries sent
  MaxUnread   \* bound: unread messages when a ping or a data block is added

(*   execute   an ordinary query, read to its end                          *)
(*   iterate   execute_iter, whose result is fetched block by block        *)
(*   insert    an INSERT with data                                         *)
(*   ping      Connection.ping()                                           *)
(*   close     Connection.close()                                          *)
(*   connect   Connection.connect()                                        *)
(* A fetch from a streamed result is possible whenever a task holds one.   *)
AllCalls == {"execute", "iterate", "insert", "ping", "close", "connect"}
Queries  == {"execute", "iterate", "insert"}

(*   cancel         a query is cancelled at any await but the lock's       *)
(*   cancel_waiter  a query is cancelled while it waits for the lock       *)
(*   cancel_ping    Connection.ping() is cancelled                         *)
(*   cancel_connect Connection.connect() is cancelled                      *)
(*   timeout        the server is slow                                     *)
(*   ping_timeout   the same of Connection.ping()                          *)
AllFaults == {"cancel", "cancel_waiter", "cancel_ping", "cancel_connect",
              "timeout", "ping_timeout"}

ASSUME SessionAssumption ==
  /\ NoTask \notin Tasks
  /\ Calls \subseteq AllCalls
  /\ Faults \subseteq AllFaults
  /\ MaxSockets \in Nat
  /\ MaxQueries \in Nat
  /\ MaxUnread \in Nat

VARIABLES
  socket,     \* which socket self.reader and self.writer use; 0: not connected
  executing,  \* self.is_query_executing
  holder,     \* the task inside `async with self._lock`
  waiters,    \* tasks queued for it, oldest first
  pc,         \* where each task is suspended
  call,       \* the call a task is in or made last
  on,         \* the socket a suspended reader waits on
  query,      \* the query whose result a task reads or read last
  stream,     \* the query of the IterQueryResult a task holds, 0 for none
  blocks,     \* the queries whose packets went into that result
  link,       \* what became of each socket: none, up, lost or shut
  sent,       \* requests the server has not read
  serving,    \* the request the server works on
  wire,       \* packets the client has not read
  queries     \* how many queries were started

client == <<socket, executing>>
lock   == <<holder, waiters>>
tasks  == <<pc, call, on, query, stream, blocks>>
server == <<sent, serving, wire>>
vars   == <<socket, executing, holder, waiters, pc, call, on, query, stream,
            blocks, link, sent, serving, wire, queries>>

Sockets == 1..MaxSockets
Kinds   == {"hello", "pong", "data", "end", "exception"}
Packets == [kind : Kinds, of : 0..MaxQueries]
Requests == [kind : {"none", "hello", "ping", "query", "insert", "rows"},
             of : 0..MaxQueries]

Waits  == {"greeting", "probing", "pinging", "reading", "sampling", "draining"}
Places == {"idle", "locking", "granted", "dialing", "reopening", "closing",
           "yielding"} \cup Waits

Message(k, q) == [kind |-> k, of |-> q]
Nothing == Message("none", 0)

-----------------------------------------------------------------------------
Init ==
  /\ socket = 0 /\ executing = FALSE
  /\ holder = NoTask /\ waiters = <<>>
  /\ pc = [t \in Tasks |-> "idle"]
  /\ call = [t \in Tasks |-> "execute"]
  /\ on = [t \in Tasks |-> 0]
  /\ query = [t \in Tasks |-> 0]
  /\ stream = [t \in Tasks |-> 0]
  /\ blocks = [t \in Tasks |-> {}]
  /\ link = [s \in Sockets |-> "none"]
  /\ sent = [s \in Sockets |-> <<>>]
  /\ serving = [s \in Sockets |-> Nothing]
  /\ wire = [s \in Sockets |-> <<>>]
  /\ queries = 0

-----------------------------------------------------------------------------
(* Helpers *)

\* self.connected: set and cleared together with self.reader and self.writer.
Connected == socket # 0

\* Another task is suspended in a read of the same StreamReader.
Contended(s, t) == \E u \in Tasks \ {t} : pc[u] \in Waits /\ on[u] = s

\* Writing to a socket that this side is closing raises ConnectionResetError.
Writable == Connected /\ link[socket] # "shut"

Unsendable == ~(Connected /\ link[socket] = "up")

\* The peer or this side ended the socket; what arrived before stays readable.
Broken(s) == link[s] # "up"

\* The next packet for a reader.
Got(t, kinds) == wire[on[t]] # <<>> /\ Head(wire[on[t]]).kind \in kinds
Origin(t) == Head(wire[on[t]]).of
Take(t) == wire' = [wire EXCEPT ![on[t]] = Tail(@)]

\* The end of the stream.  Packets that were still on their way are lost.
TakeEof(t) == Broken(on[t]) /\ wire' = [wire EXCEPT ![on[t]] = <<>>]

\* Bytes for a peer that is gone vanish.
Sending(s, m) == IF Broken(s) THEN sent ELSE [sent EXCEPT ![s] = Append(@, m)]

\* The next waiter is not woken.
SettleForgetsWaiters(t, place) ==
  /\ pc' = [pc EXCEPT ![t] = place]
  /\ holder' = IF holder = t THEN NoTask ELSE holder
  /\ UNCHANGED waiters

\* The lock is not released.
SettleKeepsLock(t, place) ==
  /\ pc' = [pc EXCEPT ![t] = place]
  /\ UNCHANGED lock

\* `async with self._lock` ends if t is inside it, and t goes on at place.
Settle(t, place) ==
  IF holder = t /\ waiters # <<>>
    THEN /\ pc' = [pc EXCEPT ![t] = place, ![Head(waiters)] = "granted"]
         /\ holder' = Head(waiters)
         /\ waiters' = Tail(waiters)
    ELSE /\ pc' = [pc EXCEPT ![t] = place]
         /\ holder' = IF holder = t THEN NoTask ELSE holder
         /\ UNCHANGED waiters

\* writer.close(): the socket is closed now, the state reset after the await.
Shut ==
  /\ link' = [link EXCEPT ![socket] = "shut"]
  /\ sent' = [sent EXCEPT ![socket] = <<>>]
  /\ serving' = [serving EXCEPT ![socket] = Nothing]

Leave(t) == Settle(t, "idle") /\ UNCHANGED <<link, sent, serving>>

\* Nobody disconnects after an exception.
AbortStaysOpen(t) == Leave(t)

\* An exception leaves the lock and reaches a handler that disconnects
\* (ExecuteContext or packet_generator) whatever socket is current by then.
Abort(t) ==
  IF Connected THEN Settle(t, "closing") /\ Shut ELSE Leave(t)

\* Connection.connect() has no such handler.
Fail(t) == IF call[t] = "connect" THEN Leave(t) ELSE Abort(t)

\* A timeout does not disconnect.
CloseFirstStaysOpen(t) == Leave(t)

\* disconnect() inside the lock, then the exception leaves.
CloseFirst(t) ==
  IF Connected
    THEN pc' = [pc EXCEPT ![t] = "closing"] /\ Shut /\ UNCHANGED lock
    ELSE Leave(t)

\* connect() opens a socket without closing the old one.
RedialOverOpen(t) ==
  /\ holder' = t
  /\ waiters' = waiters
  /\ pc' = [pc EXCEPT ![t] = "dialing"]
  /\ UNCHANGED <<link, sent, serving>>

\* A failed ping makes force_connect call connect(), which disconnects first.
Redial(t) ==
  /\ holder' = t
  /\ waiters' = waiters
  /\ IF Connected
       THEN pc' = [pc EXCEPT ![t] = "reopening"] /\ Shut
       ELSE /\ pc' = [pc EXCEPT ![t] = "dialing"]
            /\ UNCHANGED <<link, sent, serving>>

\* reset_state() leaves is_query_executing alone.
ResetKeepsFlag == socket' = 0 /\ UNCHANGED executing

\* reset_state()
Reset == socket' = 0 /\ executing' = FALSE

\* A generator goes on after an exception.
ExhaustedNever(t) == UNCHANGED stream

\* A generator that raised or ended yields nothing more.
Exhausted(t) == stream' = IF call[t] = "fetch" THEN [stream EXCEPT ![t] = 0]
                                              ELSE stream

-----------------------------------------------------------------------------
(* force_connect *)

NewQuery(t, c) ==
  /\ queries < MaxQueries
  /\ queries' = queries + 1
  /\ call' = [call EXCEPT ![t] = c]
  /\ query' = [query EXCEPT ![t] = queries + 1]
  /\ blocks' = [blocks EXCEPT ![t] = {}]

\* The lock is taken: the call queues.
QueueForLock(t) ==
  /\ pc[t] = "idle"
  /\ holder # NoTask
  /\ \E c \in Calls \cap Queries : NewQuery(t, c)
  /\ pc' = [pc EXCEPT ![t] = "locking"]
  /\ waiters' = Append(waiters, t)
  /\ UNCHANGED <<client, holder, on, stream, link, server>>

\* t runs the body of force_connect, in a call that begins or after a wake-up.
Enters(t) ==
  \/ /\ pc[t] = "granted"
     /\ UNCHANGED <<call, query, blocks, queries>>
  \/ /\ pc[t] = "idle"
     /\ holder = NoTask
     /\ \E c \in Calls \cap Queries : NewQuery(t, c)

\* ExecuteContext disconnects after PartiallyConsumedQueryError too.
RejectDisconnects(t) ==
  /\ executing
  /\ Enters(t)
  /\ Abort(t)
  /\ UNCHANGED <<client, on, stream, wire>>

\* PartiallyConsumedQueryError, the one error that does not disconnect.
Reject(t) ==
  /\ executing
  /\ Enters(t)
  /\ Leave(t)
  /\ UNCHANGED <<client, on, stream, wire>>

Dial(t) ==
  /\ ~executing
  /\ ~Connected
  /\ Enters(t)
  /\ Redial(t)
  /\ UNCHANGED <<client, on, stream, wire>>

\* ping() writes PING and waits.
Probe(t) ==
  /\ ~executing
  /\ Writable
  /\ ~Contended(socket, t)
  /\ Enters(t)
  /\ pc' = [pc EXCEPT ![t] = "probing"]
  /\ holder' = t
  /\ on' = [on EXCEPT ![t] = socket]
  /\ sent' = Sending(socket, Message("ping", 0))
  /\ UNCHANGED <<client, waiters, stream, link, serving, wire>>

\* ping() finds EOF or cannot write: reconnect.
ProbeBroken(t) ==
  /\ ~executing
  /\ Connected
  /\ Broken(socket)
  /\ Enters(t)
  /\ Redial(t)
  /\ UNCHANGED <<client, on, stream, wire>>

\* ping() reads while another task does: the StreamReader raises RuntimeError,
\* and ExecuteContext disconnects.
ProbeContended(t) ==
  /\ ~executing
  /\ Connected
  /\ Contended(socket, t)
  /\ Enters(t)
  /\ Abort(t)
  /\ UNCHANGED <<client, on, stream, wire>>

\* is_query_executing is not set.
ProceedUnflagged(t) ==
  /\ UNCHANGED executing
  /\ \/ /\ Writable
        /\ call[t] = "iterate" \/ ~Contended(socket, t)
        /\ Settle(t, CASE call[t] = "execute" -> "reading"
                       [] call[t] = "insert"  -> "sampling"
                       [] call[t] = "iterate" -> "idle")
        /\ on' = [on EXCEPT ![t] = socket]
        /\ sent' = Sending(socket,
             Message(IF call[t] = "insert" THEN "insert" ELSE "query", query[t]))
        /\ stream' = IF call[t] = "iterate" THEN [stream EXCEPT ![t] = query[t]]
                                            ELSE stream
        /\ UNCHANGED <<link, serving>>
     \/ /\ Unsendable \/ (call[t] # "iterate" /\ Contended(socket, t))
        /\ Abort(t)
        /\ UNCHANGED <<on, stream>>

\* force_connect succeeded: is_query_executing is set, and the query is sent by
\* whatever writer is current.
Proceed(t) ==
  /\ executing' = TRUE
  /\ \/ /\ Writable
        /\ call[t] = "iterate" \/ ~Contended(socket, t)
        /\ Settle(t, CASE call[t] = "execute" -> "reading"
                       [] call[t] = "insert"  -> "sampling"
                       [] call[t] = "iterate" -> "idle")
        /\ on' = [on EXCEPT ![t] = socket]
        /\ sent' = Sending(socket,
             Message(IF call[t] = "insert" THEN "insert" ELSE "query", query[t]))
        /\ stream' = IF call[t] = "iterate" THEN [stream EXCEPT ![t] = query[t]]
                                            ELSE stream
        /\ UNCHANGED <<link, serving>>
     \/ /\ Unsendable \/ (call[t] # "iterate" /\ Contended(socket, t))
        /\ Abort(t)
        /\ UNCHANGED <<on, stream>>

ProbeAnswered(t) ==
  /\ pc[t] = "probing"
  /\ Got(t, {"pong"})
  /\ Take(t)
  /\ Proceed(t)
  /\ UNCHANGED <<socket, call, query, blocks, queries>>

\* Another packet than PONG, or OperationalError at the end of the stream: no
\* handler in ping() catches these.
ProbeFails(t) ==
  /\ pc[t] = "probing"
  /\ \/ Got(t, Kinds \ {"pong"}) /\ Take(t)
     \/ TakeEof(t)
  /\ Abort(t)
  /\ UNCHANGED <<client, call, on, query, stream, blocks, queries>>

\* ConnectionError or a timeout, which ping() turns into False.
ProbeLost(t) ==
  /\ pc[t] = "probing"
  /\ Broken(on[t]) \/ "timeout" \in Faults
  /\ Redial(t)
  /\ UNCHANGED <<client, call, on, query, stream, blocks, wire, queries>>

-----------------------------------------------------------------------------
(* connect(): reached from force_connect with the lock, and from            *)
(* Connection.connect() without it.                                        *)

\* Everyone who waits for the end of an earlier socket is woken by it in a few
\* turns of the event loop, a dial takes more.
Quiet(t) ==
  \A u \in Tasks \ {t} :
    /\ pc[u] \notin {"closing", "reopening", "yielding"}
    /\ pc[u] \in Waits => link[on[u]] # "shut"

Dialed(t) ==
  /\ pc[t] = "dialing"
  /\ Quiet(t)
  /\ \E s \in Sockets :
       /\ link[s] = "none"
       /\ \A r \in Sockets : link[r] = "none" => s <= r
       /\ link' = [link EXCEPT ![s] = "up"]
       /\ socket' = s
       /\ on' = [on EXCEPT ![t] = s]
       /\ sent' = [sent EXCEPT ![s] = <<Message("hello", 0)>>]
  /\ pc' = [pc EXCEPT ![t] = "greeting"]
  /\ UNCHANGED <<executing, lock, call, query, stream, blocks, serving, wire,
                 queries>>

\* Refused, unreachable or slower than connect_timeout.
DialFails(t) ==
  /\ pc[t] = "dialing"
  /\ CloseFirst(t)
  /\ UNCHANGED <<client, call, on, query, stream, blocks, wire, queries>>

Greeted(t) ==
  /\ pc[t] = "greeting"
  /\ Got(t, {"hello"})
  /\ socket = on[t]
  /\ Take(t)
  /\ IF call[t] = "connect"
       THEN Leave(t) /\ UNCHANGED <<executing, on, stream>>
       ELSE Proceed(t)
  /\ UNCHANGED <<socket, call, query, blocks, queries>>

\* The server's exception, OperationalError at the end of the stream, or an
\* AttributeError because the connection was closed in the middle.
GreetFails(t) ==
  /\ pc[t] = "greeting"
  /\ \/ Got(t, {"exception"}) /\ Take(t)
     \/ Got(t, {"hello"}) /\ socket # on[t] /\ Take(t)
     \/ TakeEof(t)
  /\ Fail(t)
  /\ UNCHANGED <<client, call, on, query, stream, blocks, queries>>

\* ConnectionError or connect_timeout.
GreetLost(t) ==
  /\ pc[t] = "greeting"
  /\ Broken(on[t]) \/ "timeout" \in Faults
  /\ CloseFirst(t)
  /\ UNCHANGED <<client, call, on, query, stream, blocks, wire, queries>>

\* The writer.close() of connect() is over: the host is tried.
Reopened(t) ==
  /\ pc[t] = "reopening"
  /\ Reset
  /\ pc' = [pc EXCEPT ![t] = "dialing"]
  /\ UNCHANGED <<lock, call, on, query, stream, blocks, link, server, queries>>

\* Any other disconnect() is over: the call ends.
Closed(t) ==
  /\ pc[t] = "closing"
  /\ Reset
  /\ Leave(t)
  /\ UNCHANGED <<call, on, query, stream, blocks, wire, queries>>

-----------------------------------------------------------------------------
(* Reading a result: execute() to its end, or one block of a stream *)

\* The next read uses whatever reader is current.
ReadOn(t) ==
  /\ socket # 0
  /\ ~Contended(socket, t)
  /\ pc' = [pc EXCEPT ![t] = "reading"]
  /\ on' = [on EXCEPT ![t] = socket]
  /\ UNCHANGED <<lock, stream, link, sent, serving>>

\* No reader (AttributeError), or a second one (RuntimeError).
CannotRead(t) ==
  /\ socket = 0 \/ Contended(socket, t)
  /\ Abort(t)
  /\ Exhausted(t)
  /\ UNCHANGED on

Fetch(t) ==
  /\ pc[t] = "idle"
  /\ stream[t] # 0
  /\ call' = [call EXCEPT ![t] = "fetch"]
  /\ query' = [query EXCEPT ![t] = stream[t]]
  /\ blocks' = [blocks EXCEPT ![t] = {}]
  /\ \/ ReadOn(t)
     \/ /\ socket = 0 \/ Contended(socket, t)
        /\ Abort(t)
        /\ stream' = [stream EXCEPT ![t] = 0]
        /\ UNCHANGED on
  /\ UNCHANGED <<client, wire, queries>>

\* The block enters the result of t.
Received(t) == blocks' = [blocks EXCEPT ![t] = @ \cup {Origin(t)}]

ReadData(t) ==
  /\ pc[t] = "reading"
  /\ Got(t, {"data"})
  /\ Received(t)
  /\ Take(t)
  /\ pc' = [pc EXCEPT ![t] = "yielding"]
  /\ UNCHANGED <<client, lock, call, on, query, stream, link, sent, serving,
                 queries>>

\* After sleep(0): a streamed block is handed over, execute() reads on.
Resume(t) ==
  /\ pc[t] = "yielding"
  /\ IF call[t] = "fetch"
       THEN Leave(t) /\ UNCHANGED <<on, stream>>
       ELSE ReadOn(t) \/ CannotRead(t)
  /\ UNCHANGED <<client, call, query, blocks, wire, queries>>

\* END_OF_STREAM: the flag falls and what the current reader has buffered goes.
EndOfStream(t) ==
  /\ executing' = FALSE
  /\ LET left == [wire EXCEPT ![on[t]] = Tail(@)]
     IN  IF socket = 0
           THEN wire' = left
           ELSE \E k \in 0..Len(left[socket]) :
                  wire' = [left EXCEPT ![socket] = SubSeq(@, k + 1, Len(@))]

ReadEnd(t) ==
  /\ pc[t] = "reading"
  /\ Got(t, {"end"})
  /\ Received(t)
  /\ EndOfStream(t)
  /\ Leave(t)
  /\ Exhausted(t)
  /\ UNCHANGED <<socket, call, on, query, queries>>

\* The server's exception, a packet out of place, the end of the stream, or
\* send_receive_timeout.
ReadFails(t) ==
  /\ pc[t] = "reading"
  /\ \/ Got(t, {"exception", "pong", "hello"}) /\ Take(t)
     \/ TakeEof(t)
     \/ "timeout" \in Faults /\ UNCHANGED wire
  /\ Abort(t)
  /\ Exhausted(t)
  /\ UNCHANGED <<client, call, on, query, blocks, queries>>

-----------------------------------------------------------------------------
(* INSERT with data *)

\* The sample block came: the rows go out on the current writer, then the end
\* is awaited.
Sampled(t) ==
  /\ pc[t] = "sampling"
  /\ Got(t, {"data"})
  /\ Received(t)
  /\ Take(t)
  /\ \/ /\ Writable
        /\ ~Contended(socket, t)
        /\ pc' = [pc EXCEPT ![t] = "draining"]
        /\ on' = [on EXCEPT ![t] = socket]
        /\ sent' = Sending(socket, Message("rows", query[t]))
        /\ UNCHANGED <<lock, link, serving>>
     \/ /\ Unsendable \/ Contended(socket, t)
        /\ Abort(t)
        /\ UNCHANGED on
  /\ UNCHANGED <<client, call, query, stream, queries>>

SampleFails(t) ==
  /\ pc[t] = "sampling"
  /\ \/ Got(t, {"end"}) /\ EndOfStream(t)
     \/ Got(t, {"exception", "pong", "hello"}) /\ Take(t) /\ UNCHANGED executing
     \/ TakeEof(t) /\ UNCHANGED executing
     \/ "timeout" \in Faults /\ UNCHANGED <<executing, wire>>
  /\ Abort(t)
  /\ UNCHANGED <<socket, call, on, query, stream, blocks, queries>>

Drained(t) ==
  /\ pc[t] = "draining"
  /\ Got(t, {"end"})
  /\ Received(t)
  /\ EndOfStream(t)
  /\ Leave(t)
  /\ UNCHANGED <<socket, call, on, query, stream, queries>>

DrainFails(t) ==
  /\ pc[t] = "draining"
  /\ \/ Got(t, {"data", "exception", "pong", "hello"}) /\ Take(t)
     \/ TakeEof(t)
     \/ "timeout" \in Faults /\ UNCHANGED wire
  /\ Abort(t)
  /\ UNCHANGED <<client, call, on, query, stream, blocks, queries>>

-----------------------------------------------------------------------------
(* The calls of asynch/connection.py that take no lock *)

\* StreamReader.at_eof(): the end was seen and nothing is left to read.
AtEof == link[socket] = "shut" \/ (link[socket] = "lost" /\ wire[socket] = <<>>)

\* Connection.ping().  While another task is suspended in a read, PING is written
\* before the StreamReader raises RuntimeError, and nobody waits for its PONG.
Ping(t) ==
  /\ "ping" \in Calls
  /\ pc[t] = "idle"
  /\ ~executing
  /\ socket # 0
  /\ call' = [call EXCEPT ![t] = "ping"]
  /\ \/ /\ Writable
        /\ ~Contended(socket, t)
        /\ Len(sent[socket]) + Len(wire[socket]) < MaxUnread
        /\ pc' = [pc EXCEPT ![t] = "pinging"]
        /\ on' = [on EXCEPT ![t] = socket]
        /\ sent' = Sending(socket, Message("ping", 0))
        /\ UNCHANGED <<lock, link, serving, wire>>
     \/ /\ Writable
        /\ Contended(socket, t)
        /\ Len(sent[socket]) + Len(wire[socket]) < MaxUnread
        /\ sent' = Sending(socket, Message("ping", 0))
        /\ UNCHANGED <<lock, pc, on, link, serving, wire>>
     \/ /\ AtEof
        /\ wire' = [wire EXCEPT ![socket] = <<>>]
        /\ CloseFirst(t)
        /\ UNCHANGED on
  /\ UNCHANGED <<client, query, stream, blocks, queries>>

PingAnswered(t) ==
  /\ pc[t] = "pinging"
  /\ Got(t, {"pong"})
  /\ Take(t)
  /\ Leave(t)
  /\ UNCHANGED <<client, call, on, query, stream, blocks, queries>>

\* Another packet, or the end of the stream: the call raises and leaves the
\* connection as it is.
PingFails(t) ==
  /\ pc[t] = "pinging"
  /\ \/ Got(t, Kinds \ {"pong"}) /\ Take(t)
     \/ TakeEof(t)
  /\ Leave(t)
  /\ UNCHANGED <<client, call, on, query, stream, blocks, queries>>

PingTimeout(t) ==
  /\ pc[t] = "pinging"
  /\ "ping_timeout" \in Faults
  /\ CloseFirst(t)
  /\ UNCHANGED <<client, call, on, query, stream, blocks, wire, queries>>

PingCancelled(t) ==
  /\ pc[t] = "pinging"
  /\ "cancel_ping" \in Faults
  /\ Leave(t)
  /\ UNCHANGED <<client, call, on, query, stream, blocks, wire, queries>>

Close(t) ==
  /\ "close" \in Calls
  /\ pc[t] = "idle"
  /\ Connected
  /\ call' = [call EXCEPT ![t] = "close"]
  /\ CloseFirst(t)
  /\ UNCHANGED <<client, on, query, stream, blocks, wire, queries>>

\* terminate() aborts the transport and does not wait.
Terminate(t) ==
  /\ "close" \in Calls
  /\ pc[t] = "idle"
  /\ Connected
  /\ Shut
  /\ Reset
  /\ UNCHANGED <<lock, tasks, wire, queries>>

\* Connection.connect(), which takes no lock.
Connect(t) ==
  /\ "connect" \in Calls
  /\ pc[t] = "idle"
  /\ ~Connected
  /\ call' = [call EXCEPT ![t] = "connect"]
  /\ pc' = [pc EXCEPT ![t] = "dialing"]
  /\ UNCHANGED <<client, lock, on, query, stream, blocks, link, server, queries>>

-----------------------------------------------------------------------------
(* Cancellation *)

CancelDial(t) ==
  /\ (IF call[t] = "connect" THEN "cancel_connect" ELSE "cancel") \in Faults
  /\ pc[t] \in {"dialing", "greeting", "probing"}
  /\ Fail(t)
  /\ UNCHANGED <<client, call, on, query, stream, blocks, wire, queries>>

CancelRead(t) ==
  /\ "cancel" \in Faults
  /\ pc[t] \in {"reading", "yielding", "sampling", "draining"}
  /\ Abort(t)
  /\ Exhausted(t)
  /\ UNCHANGED <<client, call, on, query, blocks, wire, queries>>

\* writer.close() is cut short, reset_state() still runs.
CancelClose(t) ==
  /\ "cancel" \in Faults
  /\ pc[t] \in {"closing", "reopening"}
  /\ Reset
  /\ Leave(t)
  /\ UNCHANGED <<call, on, query, stream, blocks, wire, queries>>

\* ExecuteContext disconnects although the connection is another task's.
CancelWaiter(t) ==
  /\ "cancel_waiter" \in Faults
  /\ \/ /\ pc[t] = "locking"
        /\ \E i \in DOMAIN waiters :
             /\ waiters[i] = t
             /\ waiters' = SubSeq(waiters, 1, i - 1)
                             \o SubSeq(waiters, i + 1, Len(waiters))
        /\ IF Connected
             THEN pc' = [pc EXCEPT ![t] = "closing"] /\ Shut
             ELSE /\ pc' = [pc EXCEPT ![t] = "idle"]
                  /\ UNCHANGED <<link, sent, serving>>
        /\ UNCHANGED holder
     \/ pc[t] = "granted" /\ Abort(t)
  /\ UNCHANGED <<client, call, on, query, stream, blocks, wire, queries>>

-----------------------------------------------------------------------------
(* The server and the network *)

client_side == <<client, lock, tasks, queries>>

Reply(s, k, q) == wire' = [wire EXCEPT ![s] = Append(@, Message(k, q))]

\* The server reads the next request.
ServerReads(s) ==
  /\ link[s] = "up"
  /\ serving[s].kind # "query"
  /\ sent[s] # <<>>
  /\ sent' = [sent EXCEPT ![s] = Tail(@)]
  /\ LET r == Head(sent[s])
     IN  \/ /\ serving[s] = Nothing
            /\ \/ /\ r.kind = "hello"
                  /\ Reply(s, "hello", 0)
                  /\ UNCHANGED serving
               \/ /\ r.kind = "ping"
                  /\ Reply(s, "pong", 0)
                  /\ UNCHANGED serving
               \/ /\ r.kind = "query"
                  /\ serving' = [serving EXCEPT ![s] = r]
                  /\ UNCHANGED wire
               \/ /\ r.kind = "insert"
                  /\ Reply(s, "data", r.of)
                  /\ serving' = [serving EXCEPT ![s] = r]
               \/ /\ r.kind = "insert"
                  /\ Reply(s, "exception", r.of)
                  /\ UNCHANGED serving
         \/ /\ serving[s].kind = "insert"
            /\ r.kind = "rows"
            /\ \E k \in {"end", "exception"} : Reply(s, k, r.of)
            /\ serving' = [serving EXCEPT ![s] = Nothing]
  /\ UNCHANGED <<client_side, link>>

\* An authentication failure, or a request out of place: the server says so
\* and hangs up.
ServerHangsUp(s) ==
  /\ link[s] = "up"
  /\ serving[s].kind # "query"
  /\ sent[s] # <<>>
  /\ \/ Head(sent[s]).kind = "hello"
     \/ Head(sent[s]).kind = "rows" /\ serving[s] = Nothing
     \/ Head(sent[s]).kind # "rows" /\ serving[s].kind = "insert"
  /\ Reply(s, "exception", Head(sent[s]).of)
  /\ link' = [link EXCEPT ![s] = "lost"]
  /\ sent' = [sent EXCEPT ![s] = <<>>]
  /\ serving' = [serving EXCEPT ![s] = Nothing]
  /\ UNCHANGED client_side

ServerSendsData(s) ==
  /\ link[s] = "up"
  /\ serving[s].kind = "query"
  /\ Len(wire[s]) < MaxUnread
  /\ Reply(s, "data", serving[s].of)
  /\ UNCHANGED <<client_side, link, sent, serving>>

ServerEnds(s) ==
  /\ link[s] = "up"
  /\ serving[s].kind = "query"
  /\ \E k \in {"end", "exception"} : Reply(s, k, serving[s].of)
  /\ serving' = [serving EXCEPT ![s] = Nothing]
  /\ UNCHANGED <<client_side, link, sent>>

\* The peer goes away; nothing it has not sent yet will come.
LinkLost(s) ==
  /\ link[s] = "up"
  /\ link' = [link EXCEPT ![s] = "lost"]
  /\ sent' = [sent EXCEPT ![s] = <<>>]
  /\ serving' = [serving EXCEPT ![s] = Nothing]
  /\ UNCHANGED <<client_side, wire>>

-----------------------------------------------------------------------------
(* Steps a suspended task takes sooner or later. *)
Advance(t) ==
  \/ Reject(t) \/ Dial(t) \/ Probe(t) \/ ProbeBroken(t) \/ ProbeContended(t)
  \/ ProbeAnswered(t) \/ ProbeFails(t) \/ ProbeLost(t)
  \/ Dialed(t) \/ DialFails(t) \/ Greeted(t) \/ GreetFails(t) \/ GreetLost(t)
  \/ Reopened(t) \/ Closed(t)
  \/ ReadData(t) \/ Resume(t) \/ ReadEnd(t) \/ ReadFails(t)
  \/ Sampled(t) \/ SampleFails(t) \/ Drained(t) \/ DrainFails(t)
  \/ PingAnswered(t) \/ PingFails(t) \/ PingTimeout(t)

\* Calls that begin, and what interferes with them.
Interfere(t) ==
  \/ QueueForLock(t) \/ Fetch(t)
  \/ Ping(t) \/ PingCancelled(t) \/ Close(t) \/ Terminate(t)
  \/ CancelDial(t) \/ CancelRead(t) \/ CancelClose(t) \/ CancelWaiter(t)

Disturb(t) == Interfere(t) \/ Connect(t)

Serve(s) == ServerReads(s) \/ ServerHangsUp(s) \/ ServerEnds(s)

\* The tasks have made their calls.
Rest == (\A t \in Tasks : pc[t] = "idle") /\ UNCHANGED vars

Surroundings ==
  \/ \E s \in Sockets : Serve(s) \/ ServerSendsData(s) \/ LinkLost(s)
  \/ Rest

Next == (\E t \in Tasks : Advance(t) \/ Disturb(t)) \/ Surroundings

Spec == Init /\ [][Next]_vars

\* Two tasks in open_connection() at a time: the later socket replaces the reader
\* under the greeting of the earlier one, and nobody closes the earlier one.  What
\* such a greeting reads is not modelled, so the behaviours with connect() that
\* the module stands for are those of SerialSpec, which has no such step.  Without
\* connect() the lock of force_connect sees to it, and SerialSpec is Spec.
OneDials ==
  \A t, u \in Tasks : pc[t] = "dialing" /\ pc[u] = "dialing" => t = u

SerialNext == Next /\ OneDials'

SerialSpec == Init /\ [][SerialNext]_vars

\* Nobody calls Connection.connect(): a connection is opened by the first query, under
\* the lock.  Spec, where "connect" is not one of the Calls.
LockedNext == (\E t \in Tasks : Advance(t) \/ Interfere(t)) \/ Surroundings

LockedSpec == Init /\ [][LockedNext]_vars

\* The tasks are resumed when what they wait for is there, and the server works
\* its requests off. Nothing is assumed of the calls tasks make, of failures,
\* or of how much data a result has.
FairSpec ==
  /\ LockedSpec
  /\ \A t \in Tasks : WF_vars(pc[t] # "idle" /\ Advance(t))
  /\ \A s \in Sockets : WF_vars(ServerReads(s) \/ ServerHangsUp(s))
  /\ \A s \in Sockets : WF_vars(ServerEnds(s))

-----------------------------------------------------------------------------
(* Properties *)

TypeOK ==
  /\ socket \in 0..MaxSockets
  /\ executing \in BOOLEAN
  /\ holder \in Tasks \cup {NoTask}
  /\ waiters \in Seq(Tasks)
  /\ pc \in [Tasks -> Places]
  /\ call \in [Tasks -> AllCalls \cup {"fetch"}]
  /\ on \in [Tasks -> 0..MaxSockets]
  /\ query \in [Tasks -> 0..MaxQueries]
  /\ stream \in [Tasks -> 0..MaxQueries]
  /\ blocks \in [Tasks -> SUBSET (0..MaxQueries)]
  /\ link \in [Sockets -> {"none", "up", "lost", "shut"}]
  /\ sent \in [Sockets -> Seq(Requests)]
  /\ serving \in [Sockets -> Requests]
  /\ wire \in [Sockets -> Seq(Packets)]
  /\ queries \in 0..MaxQueries

\* No packet of one query becomes part of another query's result: the stream of
\* packets never gets out of step with the calls that read it
\* (_receive_packet_impl, the buffer reset at END_OF_STREAM).
ResultsAreOwn == \A t \in Tasks : blocks[t] \subseteq {query[t]}

\* The server never holds two unfinished statements of one connection: that is
\* what is_query_executing and the lock of force_connect are for.
Statements(s) ==
  {i \in DOMAIN sent[s] : sent[s][i].kind \in {"query", "insert"}}

SingleInFlight ==
  \A s \in Sockets :
    Cardinality(Statements(s)) + (IF serving[s] = Nothing THEN 0 ELSE 1) <= 1

\* A connection that accepts the next query has nothing left over from the
\* last one, neither a request the server may still answer nor an answer.
Touching(t, s) ==
  \/ pc[t] \in {"closing", "reopening"}
  \/ pc[t] \in Waits /\ on[t] = s

InSync ==
  \A s \in Sockets :
    socket = s /\ link[s] = "up" /\ ~executing /\ (\A t \in Tasks : ~Touching(t, s))
      => sent[s] = <<>> /\ wire[s] = <<>> /\ serving[s] = Nothing

\* is_query_executing is never left behind: while it is set, some task is on
\* its way to END_OF_STREAM or to a disconnect, or holds the result that is.
Finishing == {"reading", "yielding", "sampling", "draining", "closing"}

FlagHasOwner ==
  executing => socket # 0 /\ \E t \in Tasks : pc[t] \in Finishing \/ stream[t] # 0

\* While is_query_executing is set there is a socket, so that close() can clear
\* it: disconnect() does nothing on a connection that is not connected.
FlagCanBeCleared == executing => Connected

\* A TCP connection that was opened and not closed is the current one:
\* reconnecting never forgets a socket.
NoSocketLeak == \A s \in Sockets : link[s] \in {"up", "lost"} => socket = s

\* At most one query is between the check of is_query_executing and the moment
\* it sets the flag, and the lock is held exactly then.
Connecting(t) ==
  /\ call[t] \in Queries
  /\ pc[t] \in {"granted", "dialing", "greeting", "probing", "reopening"}

OneConnects ==
  /\ \A t \in Tasks :
       Connecting(t) => holder = t /\ (executing => pc[t] = "granted")
  /\ (holder # NoTask => Connecting(holder) \/ pc[holder] = "closing")

\* Nobody closes a socket under another task that uses it for a query.
InUse == {"greeting", "probing", "reading", "sampling", "draining"}

Undisturbed ==
  [][\A s \in Sockets : link[s] # "shut" /\ link'[s] = "shut" =>
       \A t \in Tasks : pc[t] \in InUse /\ on[t] = s => pc'[t] # pc[t]]_vars

\* Every call ends, in a result or in an exception, and the lock reaches
\* everyone who waits for it.  A call may find nothing to read any more when a
\* result that outlived its connection reads from the new one: the flag has fallen,
\* and only send_receive_timeout ends it.
CallsEnd ==
  \A t \in Tasks :
    pc[t] # "idle" ~> pc[t] = "idle" \/ (pc[t] = "reading" /\ ~executing)

-----------------------------------------------------------------------------
(* The inductive invariants behind the safety properties (see SessionProofs). *)

Establishing == {"granted", "dialing", "greeting", "probing", "reopening"}

\* In the body of force_connect.
Inside(t) == pc[t] \in Establishing /\ call[t] # "connect"

\* The queue of the lock is exactly the tasks that wait for it, each once, and
\* only while somebody holds it.  Its holder is inside force_connect, where the
\* executing flag is down from the check on.  Only a connect() establishes a
\* connection beside it.
LockKept ==
  /\ \A i, j \in DOMAIN waiters : waiters[i] = waiters[j] => i = j
  /\ \A i \in DOMAIN waiters : pc[waiters[i]] = "locking"
  /\ \A t \in Tasks : pc[t] = "locking" => \E i \in DOMAIN waiters : waiters[i] = t
  /\ holder = NoTask => waiters = <<>>
  /\ holder # NoTask => pc[holder] \in Establishing \cup {"closing"}
  /\ \A t \in Tasks :
       /\ holder = t => call[t] # "connect"
       /\ pc[t] \in Establishing /\ call[t] = "connect" =>
            pc[t] \in {"dialing", "greeting"}
       /\ Inside(t) => holder = t /\ (executing => pc[t] = "granted")
       /\ Inside(t) \/ pc[t] = "locking" => call[t] \in Queries /\ query[t] # 0
       /\ call[t] = "connect" => "connect" \in Calls

\* A suspended reader waits on a socket that was opened.
ReadersHaveSockets == \A t \in Tasks : pc[t] \in Waits => on[t] \in Sockets

\* Whoever is about to reset the state has closed the current socket, and a dial
\* begins with none.
ClosersHaveShut ==
  \A t \in Tasks :
    /\ pc[t] \in {"closing", "reopening"} => socket = 0 \/ link[socket] = "shut"
    /\ pc[t] = "dialing" => socket = 0

\* The task whose statement is in progress: it reads the answer, or holds the
\* streamed result that will.
Owns(t) ==
  pc[t] \in {"reading", "yielding", "sampling", "draining"} \/ stream[t] # 0

Statement(t) == IF stream[t] # 0 THEN stream[t] ELSE query[t]

\* One task at a time has to do with the socket: the owner of the statement in
\* progress, or the holder of the lock while it sets up the next one.  Nobody
\* closes the socket under it, and the flag is up exactly for the owner and for
\* its disconnect.
OneUser ==
  /\ \A t \in Tasks :
       /\ Owns(t) => executing
       /\ Owns(t) \/ pc[t] \in {"greeting", "probing"} =>
            /\ socket # 0 /\ link[socket] # "shut"
            /\ pc[t] \in Waits => on[t] = socket
       /\ pc[t] # "pinging"
  /\ \A t, u \in Tasks : Owns(t) /\ Owns(u) => t = u
  /\ executing => socket # 0 /\ \E t \in Tasks : Owns(t) \/ pc[t] = "closing"

\* A fetch is of the task's own stream, and nothing else is read meanwhile.
FetchesMatch ==
  \A t \in Tasks :
    /\ pc[t] \in {"reading", "yielding"} =>
         /\ call[t] = "fetch" <=> stream[t] # 0
         /\ stream[t] # 0 => query[t] = stream[t]
    /\ pc[t] \in {"sampling", "draining"} => stream[t] = 0

\* One connection as it stands between the two sides.
Talk(s) == [link |-> link[s], sent |-> sent[s], serving |-> serving[s],
          wire |-> wire[s]]

\* Nothing is under way.
Clean(c) == c.sent = <<>> /\ c.serving = Nothing /\ c.wire = <<>>

\* A request that waits to be read, has its answer, or was lost.
Exchange(c, request, answers) ==
  /\ c.serving = Nothing
  /\ \/ c.link = "up" /\ c.sent = <<request>> /\ c.wire = <<>>
     \/ c.sent = <<>> /\ \E m \in answers : c.wire = <<m>>
     \/ c.link # "up" /\ c.sent = <<>> /\ c.wire = <<>>

\* An INSERT: the request, the sample block, the rows, the end.
Sampling(c, q) ==
  \/ Exchange(c, Message("insert", q),
              {Message("data", q), Message("exception", q)})
       /\ (c.wire = <<Message("data", q)>> => c.link # "up")
  \/ /\ c.link = "up" /\ c.sent = <<>>
     /\ c.serving = Message("insert", q)
     /\ c.wire = <<Message("data", q)>>

Draining(c, q) ==
  \/ /\ c.link = "up" /\ c.sent = <<Message("rows", q)>>
     /\ c.serving = Message("insert", q) /\ c.wire = <<>>
  \/ /\ c.sent = <<>> /\ c.serving = Nothing
     /\ \/ c.wire \in {<<Message("end", q)>>, <<Message("exception", q)>>}
        \/ c.wire = <<>> /\ c.link # "up"

\* A query: the request, blocks while the server works on it, and one last
\* packet, unless the link is lost before.
Answering(c, q) ==
  \/ /\ c.link = "up" /\ c.sent = <<Message("query", q)>>
     /\ c.serving = Nothing /\ c.wire = <<>>
  \/ /\ c.link = "up" /\ c.sent = <<>> /\ c.serving = Message("query", q)
     /\ \A i \in DOMAIN c.wire : c.wire[i] = Message("data", q)
  \/ /\ c.sent = <<>> /\ c.serving = Nothing
     /\ \A i \in DOMAIN c.wire :
          \/ c.wire[i] = Message("data", q)
          \/ /\ i = Len(c.wire)
             /\ c.wire[i] \in {Message("end", q), Message("exception", q)}
     /\ c.link = "up" =>
          c.wire # <<>> /\ c.wire[Len(c.wire)] # Message("data", q)

\* What is under way on the current socket is what its user is waiting for, and
\* nothing is when it has none.
Conversation ==
  socket # 0 /\ link[socket] # "shut" =>
    /\ \/ Clean(Talk(socket))
       \/ \E t \in Tasks : Owns(t) \/ pc[t] \in {"greeting", "probing"}
    /\ \A t \in Tasks :
         /\ pc[t] = "greeting" =>
              Exchange(Talk(socket), Message("hello", 0),
                       {Message("hello", 0), Message("exception", 0)})
         /\ pc[t] = "probing" =>
              Exchange(Talk(socket), Message("ping", 0), {Message("pong", 0)})
         /\ pc[t] = "sampling" => Sampling(Talk(socket), query[t])
         /\ pc[t] = "draining" => Draining(Talk(socket), query[t])
         /\ Owns(t) /\ pc[t] \notin {"sampling", "draining"} =>
              Answering(Talk(socket), Statement(t))

\* A socket that is not up has no server behind it, and one that was not opened
\* yet has delivered nothing.
DeadIsSilent ==
  \A s \in Sockets :
    /\ link[s] # "up" => sent[s] = <<>> /\ serving[s] = Nothing
    /\ link[s] = "none" => wire[s] = <<>>
=============================================================================
