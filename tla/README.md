# A TLA+ model of asynch

`asynch` is an asyncio client for ClickHouse's native TCP protocol. This directory
holds TLA+ modules for the parts of it that keep state across an `await`, modules for the
way values become bytes and values again, the TLC configurations that check them on small
instances, and TLAPS proofs of what the connection pool and the protocol session guarantee for
any number of tasks and connections.

Paths below are relative to `src/`.

## 1. The system

| Component | State it keeps | Operations | Talks to |
|---|---|---|---|
| **Pool** `asynch/pool.py` | `_free_connections` (a deque with `maxlen`), `_acquired_connections`, `_idle_since`, `_pending_connections`, `_generation`, `_opened`, `_closed`, `_startup_event`, a semaphore, a state-changed event | `connection()`, `startup()`, `shutdown()` | creates, pings and closes wrappers |
| **Connection wrapper** `asynch/connection.py` | `_opened`, `_closed`, one protocol connection | `connect`, `ping`, `close`, `terminate`, `cursor` | delegates to the protocol session |
| **Protocol session** `asynch/proto/connection.py`, `proto/context.py` | `connected`, `reader`, `writer`, `is_query_executing`, `_lock`, server info, block streams | `force_connect`, `connect`, `ping`, `execute`, `execute_iter`, INSERT with data, `disconnect` | byte streams, server |
| **Results** `asynch/proto/result.py` | rows collected so far, the packet generator, `EOF` | `get_result`, `next`, `get_columns_with_types` | pulls packets from the session |
| **Cursor** `asynch/cursors.py` | `_state` (ready, running, finished, closed), `_rows`, `_has_result_set`, streaming options | `execute`, `executemany`, `fetch*`, `close` | session, results |
| **Byte streams** `asynch/proto/streams/buffered.py` | read buffer and position; write buffer and position | `read_varint`, `read_bytes`, `read_str`, `flush`, `write_*` | asyncio streams, decompressors |
| **Block streams, blocks** `proto/streams/block.py`, `compressed.py`, `proto/block.py` | none between calls | read and write one block | byte streams, columns |
| **Compression** `proto/compression/` | none between calls | frame, checksum, codec | byte streams |
| **Columns** `proto/columns/` | none between calls, except the state prefix of LowCardinality, Variant, Dynamic, JSON and Object columns | read and write one column of one block | byte streams |
| **Settings, protocol, messages** `proto/settings/`, `proto/protocol.py`, `proto/cs.py`, `proto/progress.py`, ... | tables and records | encode and decode | byte streams |
| **Query text, DSN** `proto/utils/` | none | substitute parameters, parse URLs, chunk rows | - |
| **Errors, DB API** `errors.py`, `dbapi.py`, `__init__.py` | none | - | - |

How they interact. A task borrows a wrapper with `async with pool.connection()`. Its
cursor calls `execute` or `execute_iter` of the protocol session. Each of those enters
`force_connect` under the session's lock: it refuses if a query is executing, dials if
there is no socket, pings if there is one and reconnects if the ping fails; then it sets
`is_query_executing` and leaves the lock. The query is sent; packets come back and are
read by `packet_generator`, which belongs to the call or, for `execute_iter`, to the
result the caller keeps. `END_OF_STREAM` clears `is_query_executing`; an exception
disconnects, which clears it too.

What is hard here.

- Everything runs on one event loop, so tasks interleave only where an `await` suspends,
  but nearly every decision is taken before such an await and used after it: the pool
  reserves, then connects; pings, then hands out; detaches, then closes. The session
  checks the flag, pings, and then sets the flag.
- Cancellation can arrive at every suspending await. `CancelledError` is no `Exception`,
  so it passes by many of the handlers.
- The stream of packets has no request ids. If one answer is left unread, every later
  answer is attributed to the wrong request.
- A socket can be closed by the peer, by the task that uses it, or by another task.
- Whoever waits (for the semaphore, for capacity, for a startup, for the lock) must be
  woken on every path, including those that end in an exception or a cancellation.

What makes each component correct.

- Pool: never more than `maxsize` connections; a lent connection is exclusive, connected
  and idle; a closed pool owns nothing and grants nothing that was begun before it was
  closed; every wait ends; nothing is opened and forgotten.
- Session: one statement in flight; a result consists of its own packets; a connection
  that accepts a query has nothing left over from the last one; the executing flag is
  never stuck; reconnecting forgets no socket; a task never closes a socket under another
  one; every call ends.
- Results and cursor: rows come in order, once, and an error is not an end of data.
- Byte streams: what is read is what was sent, wherever the network cuts it.
- Blocks and columns: reading inverts writing.

## 2. Modules

| Module | What it is |
|---|---|
| `Pool` | the pool, one action per step between two suspending awaits |
| `LeaseService` | what a pool promises: ask, be granted or denied, return; a shutdown revokes and dooms |
| `PoolService` | the refinement mapping from `Pool` to `LeaseService` |
| `PoolProofs` | TLAPS proofs about `Pool`: its invariant, and who owns what |
| `PoolAccounts` | TLAPS proofs about its accounts (slots, idle times, startups, borrowers, waiters, leaks), and that `Pool` implements `LeaseService` |
| `MCPool` | instances of `Pool` for TLC |
| `Session` | one protocol connection shared by several tasks, with its server and network |
| `SessionProofs` | TLAPS proofs about `Session`: types, the lock, the sockets, who uses the connection |
| `ConversationProofs` | TLAPS proofs about `Session`: what is under way between client and server |
| `SequenceLemmas` | lemmas on sequences that these proofs share |
| `MCSession` | instances of `Session` for TLC |
| `Cursor` | a cursor, its results and the connection wrapper, composed with `Session` |
| `SoloProofs` | TLAPS lemmas about `Session` with one task that makes every call: where it is, what is on the wire |
| `CursorProofs` | TLAPS proofs about `Cursor`: its results, and the connection under it |
| `MCCursor` | an instance of `Cursor` for TLC |
| `Scalars` | the columns without inner columns: conversion, checks, write, read |
| `Columns` | the columns with inner columns, state prefixes, sparse serialization, the column factory |
| `Blocks` | a call with data: chunks, blocks, external tables, a peer that reads them, a second attempt |
| `Buffers` | the buffered and the compressing streams, and a network that cuts and changes |
| `BuffersProofs` | TLAPS proofs about `Buffers`: its encodings and frames, and that what is read is what was sent |
| `MCWire` | instances of `Blocks` and `Buffers` for TLC |

`Pool` models the wrapper by what it reads of it, and stands alone. `Cursor` extends
`Session`: its steps are made of Session's. `Blocks` extends `Columns` extends `Scalars`;
`Buffers` carries the numbers and strings whose order `Blocks` decides. `Session` sends
requests whole, `Blocks` and `Buffers` say what is in them.

### Pool

One action is what a task does between two awaits that suspend, and `pc[t]` names the
await. No body of `async with self._lock` in `pool.py` suspends, so the lock is never
contended and does not appear. `mine[t]` are the connections in a task's local variables,
`ticket[t]` its `candidate_generation` or the generation of its reservation.

| Actions | Code |
|---|---|
| `Queue`, `Handover` | `connection()` at the semaphore; the permit goes to the oldest waiter |
| `TakeFree`, `TakeForPing`, `SkipFree`, `Reserve`, `Wait`, `Refuse` | one turn of the loop of `_acquire_connection` |
| `Created`, `CreateFailed`, `PingAnswered`, `PingFailed`, `PingCancelled` | what follows its network calls |
| `Use`, `ReleaseFree`, `ReleaseBroken`, `ReleaseForeign` | the body of `async with`, `_release_connection` |
| `StartupBegin`, `StartupEmpty`, `StartupTooLarge`, `StartupJoin`, `JoinEnds` | `startup()` |
| `ChildEnds`, `StartupKeep`, `StartupDrop` | `_init_connections` and its `gather` |
| `StartupCancelled`, `StartupAborted`, `StartupCollected`, `CollectCancelled` | its handler of `CancelledError` |
| `Shutdown`, `Discard`, `DiscardLast`, `DiscardCancelled` | `shutdown()`, `_discard_connection(s)` |
| `StaleUse` | the environment: a connection changes outside the pool (below) |

Abstractions.

- `pool_recycle` is reduced to `PingOnCheckout`: an idle connection may or may not be old
  enough to be pinged. The metrics, logging and `__repr__` are left out.
- A connection is one of `connecting`, `open`, `busy`, `down`: what the pool reads of it
  (`connected`, `is_query_executing`). An object nobody refers to, with its socket closed,
  is indistinguishable from a new one, so its identity is used again (`Fresh`).
- Closing a connection that is already down does not suspend in the code; here it is a
  step of its own, which only adds interleavings.
- The generation check after a ping is kept in both forms the code has, although with the
  first the second cannot fail.
- `Faults` names the awkward events one by one, so that a run can say which of them a
  property survives. `stale_use`: a borrower goes on using a connection it has returned;
  it is limited to connections in the free deque. `revive`: a borrower whose connection a
  shutdown closed runs a query, and `force_connect` opens the socket again.

### Session

The same grain. `socket` is the socket that `self.reader` and `self.writer` use, 0 when
`connected` is false; `holder` and `waiters` are the lock of `force_connect`; `on[t]` is
the socket a suspended reader waits on, which may no longer be the current one; `query[t]`
is the query whose result it reads; `stream[t]` the `execute_iter` result it still has.
`link`, `sent`, `serving` and `wire` are the environment: each socket, the requests not
yet read, the statement the server works on, the packets not yet read.

| Actions | Code |
|---|---|
| `QueueForLock`, `Reject`, `Dial`, `Probe`, `ProbeBroken`, `ProbeContended` | `ExecuteContext.__aenter__`, `force_connect` up to its first suspending await |
| `Dialed`, `DialFails`, `Greeted`, `GreetFails`, `GreetLost`, `Reopened` | `connect`, `_init_connection`, `receive_hello`, with their handlers |
| `ProbeAnswered`, `ProbeFails`, `ProbeLost` | the rest of `force_connect`, then sending the query |
| `Fetch`, `ReadData`, `Resume`, `ReadEnd`, `ReadFails` | `packet_generator` and `_receive_packet_impl`, driven by a call or by a kept result |
| `Sampled`, `SampleFails`, `Drained`, `DrainFails` | `process_insert_query` |
| `Ping...`, `Close`, `Terminate`, `Connect`, `Closed` | the wrapper's calls, which take no lock; `Connect` is in `Spec`, not in `LockedSpec` |
| `Cancel...` | cancellation at each of these awaits |

Abstractions.

- Requests and packets are whole; `PROGRESS`, `PROFILE_INFO`, `LOG` and other packets that
  only fill in statistics are left out. Writes do not suspend (the transport's buffer stays
  below its high-water mark), so `drain()` does not switch tasks.
- One event loop, one host, `disable_reconnect` False. Settings, parameters and
  `execute_with_progress` are left out; external tables and the blocks of an INSERT are in
  `Blocks`.
- `Faults` names the cancellations and timeouts a run allows, as in `Pool`.
- Packets still on their way when a socket ends are lost (`TakeEof`); a write to a socket
  that this side is closing raises; a write to one the peer has closed vanishes.
- Two readers of one `StreamReader` raise `RuntimeError` (`Contended`). A second reader that
  takes bytes in the few event-loop turns between their arrival and the wake-up of the first
  reader is not modelled.
- `Dialed` requires that everyone who reads or closes the previous socket has been resumed
  (`Quiet`): they were made runnable together, before the dial began, and a dial takes
  longer than the event-loop turns they need.
- Calls that change nothing (a ping while a query executes or without a socket) are left out.
  A `Connection.ping()` while another task reads the stream is there: it writes PING, raises
  `RuntimeError` and leaves a PONG to come.
- Dropping a result needs no step: `GeneratorExit` reaches no handler, so a dropped result is
  one that is never read again, and the flag stays set until somebody closes the connection.
  A task keeps one result of `execute_iter`; an older one that it still has is not read.

### Cursor

One task uses the connection (`threadsafety = 1`) and makes the calls of a cursor and of the
wrapper; another task may close the cursor at any time, which changes only its state.
`doing` is the call the task is in, and each of its steps is a step of `Session` with what
the cursor does around it. A row is `<<query, place>>`, so that a row of another query, a
row twice and a row missing are all seen.

| Actions | Code |
|---|---|
| `Execute`, `Executed`, `Inserted`, `Streamed` | `execute`, `executemany`: `_prepare`, the call, `_process_response` |
| `NextBlock`, `Headed`, `ExecuteRaises`, `Restore` | `get_columns_with_types()` of a streamed result, which reads up to the first block |
| `CallerReads`, `CallerRead` | the caller iterates over an `IterQueryResult` it was given: `executemany()` without data returns the result object as rowcount, and `fetchall()` after `set_stream_results()` returns it as rows |
| `FetchBuffered`, `FetchStreamed`, `FetchMismatched`, `Collect`, `BlockFetched`, `StreamOver`, `FetchRaises` | `fetchone`, `fetchmany`, `fetchall` over a list or over `IterQueryResult` |
| `SetStreamResults`, `CloseCursor` | the calls of the same names |
| `OpenConnection`, `Opened`, `CloseConnection`, `ConnectionClosed`, `TerminateConnection`, `PingConnection`, `RefreshUnpinged`, `PingFalse`, `Reconnected`, `Redials`, `WrapperEnds` | `Connection.connect`, `close`, `terminate`, `ping`, `_refresh` |
| `Continue` | the steps of `Session` in between, among them how blocks reach a buffered result (`Stored`) |

`history` (how many rows were read, handed out, what the caller was told, which streams it
was given) is there for the properties; only `given` is also a guard, of what the caller reads
itself, and the rows of such a stream are not kept. DictCursor, the settings and the external tables of a cursor do not change
its states and are left out. `ProgressQueryResult` is not modelled.

### Scalars, Columns

Pure operators, one per column operation. The wire is a sequence of tokens, each with its
format (`str`, `varint`, a struct format and width); reading a token of another kind than was
written is an error that `InStep` sees. A value is a record with one field that says what
Python type it has (`[text |-> ...]`, `[naive |-> ...]`); a type is a tree, its name, inner
types and parameters.

| Operators | Code |
|---|---|
| `Scalars` | the integer, float, bool, date, time, decimal, enum, UUID, IP, string, fixed string, interval, QBit, aggregate state columns: `prepare_items`, checks, `write_items`, `read_items`, the null value |
| `ColumnBySpec`, `TypeAliases` | `get_column_by_spec` and the `create_*` factories, with the options dict that columns of a type share |
| `Prepare`, `WritePrefix`, `ReadPrefix` | `prepare_state_prefix`, `write_state_prefix`, `read_state_prefix` |
| `WriteData`, `ReadData`, `WriteInner`, `ReadInner` | `write_data`, `read_data` of Nullable, Array, Tuple, Nested, Map, LowCardinality, Variant, Dynamic, JSON |
| `WriteColumn`, `ReadColumn` | `write_column`, `read_column`, custom serialization flags, sparse columns |

Abstractions. Integers overflow where their type is 8 or 16 bits wide; wider ones have the
same code with another width. A moment is a number of time units, a time zone an offset. Characters are
numbers, and only parsers whose result depends on them are there: the split of
`Map(K, V)`, which refuses some types. These two modules use recursive operators over types.

### Blocks

One call with data and, when `job.retried`, the same call made again after it failed. A
job is the structure, the rows or columns, the options, what the protocol revision allows,
and what the peer must read.

| Actions | Code |
|---|---|
| `SendTable`, `EndTables` | `send_external_tables` |
| `NextChunk`, `EndData` | `send_data`: `chunks`, `column_chunks`, the two kinds of block, `normalize` with what it changes in the caller's lists, row by row, until it fails |
| `WriteNext`, `EndBlock` | `BlockWriter.write`: a column, then the end of the block, `flush` |
| `Receive` | `BlockReader.read` in the peer; a block becomes visible when it was flushed |
| `ConnectionLost`, `CallAgain` | the environment |

`WriteColumn_` and `ReadColumn_` are constants, so that the blocks do not depend on how a
column is written; the configuration gives them `WriteColumn` and `ReadColumn`. The half a
block that stays in the buffer when a value cannot be written is kept in `buffer`, as in the
code, and dropped with the connection.

### Buffers

| Actions | Code |
|---|---|
| `WriteRaw`, `WriteBody`, `Finalize` | `BufferedWriter.write_bytes`, `CompressedBufferedWriter`, `flush`, `write_into_stream` and the frame of `finalize` |
| `Refill`, `ReadRaw`, `ReadUnpacked`, `ReadFrame`, `ReadAtEnd` | `_refill_buffer`, `read_varint`, `read_bytes`, `read_str`, `_read_compressed_data`, and each of them at the end of the stream |
| `ConnectionCut`, `Alter` | the environment: the connection ends anywhere; one symbol of a frame changes |

Bytes are real bytes, and what is read of an item is decoded as the code does. `Refill`
takes any number of bytes up to the reader's buffer. The codec is the identity on compressed bytes, and
CityHash is a checksum that differs when the data do: both are external.

## 3. Runs

Every bound is a constant of the cfg. `MaxGeneration`, `MaxStartups`, `MaxSockets` and
`MaxQueries` bound how often the counters grow; `MaxUnread` bounds the unread packets of a
socket when one more is offered.

| Run | Instance | Shows |
|---|---|---|
| `faults` | 3 tasks, 5 connections, minsize 1, maxsize 2, all faults | capacity, exclusive leases, a free connection is nobody's, a closed pool is empty, `_idle_since` follows the deque, one initiator of a startup, a startup opens a filled pool, what is lent is usable |
| `accounting` | 3 tasks, 5 connections, minsize = maxsize = 2, two startups and a shutdown, stale users | the bookkeeping is exact: every acquired connection has a borrower, pending equals creations in flight, nothing is open outside the pool, no waiter is forgotten; and the pool implements `LeaseService` |
| `restarts` | 3 tasks, 4 connections, minsize 0, maxsize 1, up to three shutdowns, all faults | the pool still implements `LeaseService` when creations and pings are older than several restarts |
| `live` | 3 tasks, maxsize 1, two startups | borrowers are served, lifecycle calls end |
| `ping_cancel` | 2 tasks, maxsize 1 | *violation*: a borrower cancelled at the checkout ping leaves the connection acquired |
| `shared` | 3 tasks; execute, iterate, insert; cancellation, timeouts | results are never mixed, the stream stays in step, the flag has an owner, no socket is forgotten, nobody is disturbed |
| `session_live` | 2 tasks that also ping and close; cancellation, also in the lock's queue and in a ping, pings that time out, lost links | one task at a time in `force_connect`; each of these calls ends |
| `wedged` | 2 tasks; execute, close | *violation*: a close that overtakes the PONG leaves the flag set without a socket |
| `waiter` | 2 tasks; cancelled in the lock's queue | *violation*: the query that runs loses its socket |
| `stale_stream` | 2 tasks; iterate, execute, close | *violation*: a kept result reads the next query's packets |
| `cursor` | 1 task with every call, 1 that closes the cursor; cancellation, also of `connect()`, timeouts, results handed to the caller | rows come in order, once and all; an end is an end; rowcount is that of the result; what is unfetched can be fetched, or read from the result the caller was given; `_refresh()` gives a connection; one statement in flight; the flag can be cleared; no socket forgotten |
| `wire` | some 4000 jobs over every type; two scripts of packets, with and without compression | the peer reads what was written and stays in step; a call fails for its data only; a retry sends the same; the streams deliver what was sent, wherever they are cut, and hold nothing back |

Why these bounds. In the pool three tasks give one that borrows, one that starts and one
that shuts down, all in the middle of their calls, or two borrowers and a lifecycle call.
With one shutdown five connections are never exhausted: two the pool holds, and one for each
task that is creating, draining or still using a detached one.
A startup, a shutdown and a second startup are enough to make a reservation stale in an open pool; `minsize` 1 of `maxsize` 2 leaves room for a
borrower beside a startup, and `minsize = maxsize = 2` makes a startup that fails halfway
close a connection. In the session two sockets are a connection and its reconnection, three
queries are one that runs, one that waits and one that follows; two unread packets are a data
block and an end. The cursor's two queries are the one whose rows it has and
the one that replaces it or fails; a result of two rows arrives in up to two blocks, so
`fetchmany` stops inside, at and behind a block. `MCCursor`'s `VIEW` leaves out what the last
call left in Session's variables and nobody reads before it is overwritten.

A behaviour of `wire` is one of `Blocks` or one of `Buffers`. Its jobs are: up to two values
of every plain and parametric type, with and without `types_check`, among them the
boundaries of the type and values of a wrong one; the same inside composites, and composites
inside composites; the options that change what a value becomes; rows as lists, dicts and columns, of
uneven lengths, in chunks of two; external tables, with and without rows; the five
revisions at which a block gains a field; 255 and 256 dictionary entries, on both sides
of the one-byte key; calls made again from every point of the first attempt,
also one that failed when half of its dicts were lists; and blocks as only
a server sends them (sparse columns, the serializations of JSON, Dynamic and Object). Every
column of a job is followed by the end of the block or by another column, so one that ends
in the wrong place is noticed. What each value must come back as is written out in `MCWire`
and not computed by the modules under test. The writer's buffer has 4 bytes and the
reader's 3, both smaller than most items, so items straddle them in every way.

Where the cfg turns off deadlock checking, the system really stops: the call of `wire`
has ended, and all queries of a bounded session were made. `session_live`: below.

Fairness. The event loop runs every runnable task: weak fairness on what a suspended task
does next. In the pool every connect and ping ends because of its timeout, and a borrower
leaves its block; in the session the server reads requests and ends a query it works on. Nothing obliges a
task to make a call, the network to fail, or a query to have little data. `live` has
`PingOnCheckout` FALSE: a borrower whose idle connections all fail their ping goes on to the
next one, which the weak fairness of the loop permits for as long as others return connections. `session_live` does
without deadlock checking because a task that can never go on is what `CallsEnd` itself
reports.

Each property was also checked against a changed model in which it must fail: these changed
operators stand next to the original (`PopFreeKeepsTime`, `AbortStaysOpen`, ...) and
`PROJECT.json` lists which property each of them breaks. `CallsEnd` has one exception: a task
that reads a streamed result whose connection was replaced meanwhile (run `stale_stream`) may
find nothing to read, and only `send_receive_timeout` ends that.

## 4. Proofs

The theorems hold for every set of tasks and connections, for every value of the bounds and
sizes, and for the choices of `Calls` and `Faults` that the third column names ("any" when
there is no restriction). "Run" says which run checks the same property on an instance.

| Theorem | States | Assumes | Run |
|---|---|---|---|
| **`PoolProofs`** | | | |
| `TypeCorrect`, `InvariantCorrect` | `TypeOK`, `IInv` | any | `faults` |
| `CapacityCorrect` | never more than `maxsize` connections | any | `faults` |
| `LeasesExclusiveCorrect`, `FreeUnsharedCorrect` | a lent connection is exclusive, a free one nobody's | any | `faults` |
| `ClosedEmptyCorrect` | a closed pool owns nothing | any | `faults` |
| **`PoolAccounts`** | | | |
| `PendingCoversCorrect` | every creation in flight has its slots | any | |
| `PendingExactCorrect` | and there are no other slots | no `cancel_collect` | `accounting` |
| `AccountsCorrect` | the invariant below | any | |
| `IdleTimesCorrect` | `_idle_since` follows the deque | any | `faults` |
| `OneStarterCorrect` | a startup event has one initiator | any | `faults` |
| `OpensFilledCorrect` | `[][...]`: a startup opens a filled pool | any | `faults` |
| `PingedIsOpenCorrect`, `LeasedIsUsableCorrect` | what is handed out is open and registered | any | `faults` |
| `SemaphoreCorrect` | at most `maxsize` borrowers inside | any | |
| `BorrowersCorrect` | an acquired connection has a borrower | no `cancel_ping` | `accounting` |
| `WaitersAreWokenCorrect` | nobody waits without a creation in flight | no `cancel_ping` | `accounting` |
| `RevokedCorrect` | a shutdown closes what it took from a borrower | no `revive`, `cancel_drain` | |
| `NothingLeaksCorrect` | what is open is in the pool or in a task's hands | `stale_use` at most | `accounting` |
| `TicketsCorrect` | a closed pool has no valid reservation | any | |
| `ImplementsServiceCorrect` | `Pool` implements `LeaseService` | any | `accounting`, `restarts` |
| **`SessionProofs`** | | | |
| `SessionTypeCorrect` | `TypeOK` | any | |
| `OneConnectsCorrect` | one task at a time in `force_connect`, with the lock | any, `connect()` too | `session_live` |
| `LockSerialisesDials` | every behaviour is one of `SerialSpec`: no two tasks dial at once | no `connect()` | |
| `NoSocketLeakCorrect` | no socket is forgotten | `SerialSpec`, any calls and faults | `shared`, `cursor` |
| `FlagHasOwnerCorrect` | a set flag has an owner | `Serialised` | `shared` |
| `FlagCanBeClearedCorrect` | a set flag has a socket | `Serialised` | `cursor`: one task, every call |
| `UndisturbedCorrect` | `[][...]`: nobody closes a socket under its user | `Serialised` | `shared` |
| **`ConversationProofs`** | | | |
| `InSyncCorrect` | nothing is left over from the last query | `Serialised` | `shared` |
| `SingleInFlightCorrect` | one statement in flight | `Serialised` | `cursor`: one task, every call |
| `ResultsAreOwnCorrect` | a result has its own packets only | `Serialised` | `shared` |
| **`CursorProofs`** | | *one task* | |
| `CursorInvariant`, `CursorTypeCorrect` | the invariant below, the types in it | any | |
| `NoRowIsLostCorrect` | the rows of a result are all somewhere, once and in order | any | `cursor` |
| `EndIsTheEndCorrect` | who was told of an end has all rows, and the server ended it | any | `cursor` |
| `RowcountCorrect` | rowcount is that of the buffered result | any | `cursor` |
| `UnfetchedIsReachableCorrect` | what blocks the connection can be fetched, or read from the result the caller was given | any | `cursor` |
| `CursorLeaksNoSocket`, `CursorFlagCanBeCleared`, `CursorSingleInFlight` | the same as above, without `Serialised` | any | `cursor` |
| `RefreshGivesAConnectionCorrect` | `[][...]`: a `_refresh()` that returns gives a usable connection | any | `cursor` |
| **`BuffersProofs`** | | | |
| `ItemCodes` | an item ends where the reader thinks, means what was sent, cut short means less | any item that can be sent | |
| `FrameChecked` | a changed frame is found out, an unchanged one accepted | any block | |
| `BufInvariant` | the invariant below | any | |
| `BufReadsWhatWasSent` | what is read is what was sent, or less of it where the connection broke | any | `wire` |
| `BufFailsForTheNetwork` | the reader fails only for what the network did | any | `wire` |
| `BufNothingIsStuck` | no byte stays behind in a buffer | any | `wire` |

The assumptions on constants are `SizeAssumption` (the ranges the constructor of the pool
enforces), `PopulationAssumption` (finitely many tasks and connections),
`SessionAssumption`, `CursorAssumption` (a cursor's connection has one task: `threadsafety`
is 1) and `BuffersAssumption` (buffers have room for something, and a script is a sequence of
packets whose items fit their types: an int its width, a fixed string its length; a block has
at least one byte, since it starts with its counts). Nothing bounds the number of packets,
items or bytes, or the size of a number or a string. The assumptions on faults are not conveniences: each excluded fault
breaks the property, in a run of this project (`ping_cancel`) or as listed under the hazards.
`Serialised` is `Calls \subseteq Queries /\ "cancel_waiter" \notin Faults`: every call goes
through `force_connect`, and no task is cancelled while it waits for the lock. The runs
`wedged`, `stale_stream` and `waiter` show what `close()` and that cancellation do to the
same properties. Every other cancellation, timeout and loss of a link is allowed.

**Pool.** The argument is one inductive invariant, `IInv`:

- `TypeOK` and `QueuedOnce` make waking a task well defined: a handed-over permit goes to
  a task that is queued, so it overwrites no other `pc`.
- `ClosedIsEmpty` and `PingTickets` relate a generation to what is owned: a connection under ping
  that the pool still counts was taken in this generation, so a task that passes the
  generation check after the ping owns what it hands out.
- `Ownership` says who holds what: borrowers hold one connection, only checked-out
  borrowers hold an acquired one, two tasks hold the same one only when one of them is a
  shutdown that detached it from the other, and a free connection is held by no task.
  Without it returning a connection could put it into the deque twice.
- `CapacityBound` needs all of them: taking a connection out of one collection and putting it into
  another keeps the sum only if it was in exactly one.

One lemma per part shows that every action preserves it; `FreshIsUnshared`, `GetsUnshared`,
`GivesBack`, `KeepsOrDrops` say how actions may change `mine` and are shared between them.

`PoolAccounts` adds to it: `PendingCovers` (slots are counted as a cardinality;
`SlotsChange` says how it moves when one task changes its place, so each action only has to
say where its task goes); `FoundersHold` (a startup holds `minsize` connections, which is
what makes the pool it opens filled); `RestersHoldNothing`; `SemaphoreBound`, whose step is
that a permit passes to the head of the queue or to nobody. `WaitersAreWoken` is the sum of
these: if all of `maxsize` were borrowed, `maxsize` borrowers besides the waiter would be
past the semaphore, so something is pending.

It also shows, action by action, that each step of `Pool` is a step of
`LeaseService` on the mapped variables or leaves them alone. What it needs beyond `IInv` is
`TicketsValid`: that a task whose ticket is current may be granted, also across a shutdown
and a new startup. `LeaseService` states no liveness, and none is proved.

**Session.** Three invariants, each inductive on top of the ones before:

- `Kept`: types; `LockKept` (the queue is exactly the tasks that wait, each once; the holder
  is inside `force_connect`, where the flag is down from the check on, also with a `connect()` beside it); `ReadersHaveSockets`.
  It holds for all calls and faults. `TaskStep` gives for each action how it moves the lock
  (`LockMove`), from which `OthersWait` follows: a step of one task changes the place of no
  other but the one it hands the lock to.
- `Users`: `ClosersHaveShut` and `NoSocketLeak`, for all calls and faults as long as no two tasks
  dial at once (`SerialSpec`; `connect()` takes no lock, and two dials at once do forget a
  socket; without `connect()` the lock keeps dials apart, `LockSerialisesDials`): the current socket is shut while
  somebody closes it and there is none while somebody dials, so a dial never replaces an
  open one. `OneUser` and `FetchesMatch`, when `Serialised`: the flag is up exactly for one task,
  the owner of the statement, or for its disconnect; owner and lock holder exclude each
  other. The six kinds of `UserMove` say what one step may do to that.
- `Conversation` with `DeadIsSilent`: what is under way on the current socket is what its
  user waits for, packet by packet: `Exchange` (a ping, a hello), `Sampling` and `Draining` (an
  INSERT), `Answering` (a query: any number of blocks, then one last packet, unless the link
  is lost); and nothing is under way when there is no user. The server's steps preserve each of
  them (`...Served`), a reader takes its own packet from each (`...Taken`), and at
  `END_OF_STREAM` nothing is left, so the buffer that the code drops there is empty.

`InSync` is `Conversation` without a user, `SingleInFlight` counts its requests,
`ResultsAreOwn` reads off whose packet comes next.

**Cursor.** One task, but every call: `connect()`, `close()`, `ping()` and `_refresh()` take no
lock, and a cancelled ping or connect leaves its answer on the way. So neither `Serialised` nor
`Users` and `Conversation` hold, and the invariant is a new one, in two layers that `Cursor`
defines after its properties:

- `SoloKept`, about the session. `Posture` says where the task can be: nobody else has the
  lock, it waits only on the current socket, the socket is shut exactly while it closes, and a stream it
  keeps is of the query that executes. `Line` says what may be on the wire: strays (what cancelled pings and connects asked
  and got, and errors) in any number, and besides them at most the statement in progress,
  its request or its packets, the last of which is its end; strays only, while the flag is down.
  This is weaker than being in step, and it is what the code needs: the next
  `force_connect` meets the strays in its own ping. `SoloTurn` is everything the task can do; its
  lemmas (`...Turn`) reduce each step to taking packets (`LinesShrink`), adding a request
  (`LinesAsk`) or giving up the socket (`SoloEnds`), and `...Served` are the server's steps.
- `CursorKept`, about results. `CallsHavePlaces` and `StatementsOwned` tie the cursor's call to
  the place in the session and to whose statement executes. `StreamKept`: a streamed result is
  read from its own stream, or from none once it ended; while `get_columns_with_types()`
  reads the header of a new query, the old stream is put aside (`behind`). `ResultKept`: an
  execution builds a new result, whole, and touches nothing of the cursor's. `EndKept`: a
  result without a stream was ended. `NoRowIsLost`, `EndIsTheEnd` and `RowcountIsOfTheResult`
  are themselves parts of the induction: that a fetch hands out `First` and keeps `After` preserves the
  rows only if the cursor had all of them before.

One lemma per action shows that `CursorKept` is preserved. `FirstAndAfter` and the lemmas beside it are what
slicing a list of rows gives; `BlockRead` is what one packet adds to a result.
`RefreshGivesAConnection` adds `MarksKept`: only `connect()` and `close()` set `opened` and
`closed`, and a refresh is suspended between the two.

**Buffers.** The theorems hold for every list of packets, every size of the buffers and every
way the network cuts the stream or changes frames. Two layers of facts about data come first:

- The encodings. `Leb128`, `LittleEndian`, `FromDigits` and `Capacity` are recursive functions.
  That they are what their equations say needs an induction: `Recursion`, and the lemmas named after it, take it from
  the well-foundedness of the naturals, with the induction's predicate as a set, since no
  prover here takes a predicate as a parameter. From them follow `ItemCodes` and,
  with the symbols of a frame, `FrameChecked`.
- The wire. `WireOf(s)` is all that a script sends. `Spot(s, i, q, o, b)` is where item `i` is on
  it: at `q`, or `o` bytes into the block `b` whose frame is at `q`. `SpotMoves` says that
  behind an item comes the next: in the same packet, in the same block, behind the frame, or in
  another packet. `Emission(s)` is what the calls of the writer come to; `EmitAll` says that
  all calls together come to `WireOf(s)`, and `EmitPrefix` that some come to its beginning.

The invariant `IInv` then relates the actors:

- `WriterInv`: `compressor` and `body` together are what the calls made so far have
  collected for the next frame, wherever the buffer was flushed in between.
- `Reads`: there is a `y`, the wire as the network leaves it (each symbol as sent or, if
  a symbol was altered, as `Changed`), and a place `n` on it, such that `inbox`, `network` and
  `raw` follow each other on `y` from `n` on (`Carries`), and the reader has read exactly up to `n`
  (`Reader`): of an item or a frame its first symbols, or a whole frame, of whose block
  `unpacked` is left. It is what makes `got` right: the next item is read from where it was written.
- `Right`: all values are as sent; or, once the socket has ended, `Broken`: all before the value the stream broke
  off in, that one is less, and those behind it are empty fixed strings, as `Drained` leaves
  nothing to read.

One lemma per action shows that `IInv` is preserved. `CarriesWrite`, `CarriesCut`, `CarriesMoves` and `CarriesAlter` are the
steps of the symbols on their way; `RawReads`, `BlockReads` and `FrameReads` what a read does
to the place of the reader. `NothingIsStuck` follows since a reader who waits for
an item or a frame that is on the wire has a place before its end.

TLC checked the invariants of the pool, the session and the cursor on the instances of `faults`,
`accounting`, `shared` and `cursor` before their proofs; that of `Buffers` quantifies over all
sequences of symbols, and TLC checks the properties that follow from it. `SequenceLemmas` has what the proofs need of `Tail` and of removing one
element of a sequence.

Only model-checked: liveness and `[]<>`-properties (`BorrowersServed`, `LifecycleCallsEnd`,
`CallsEnd`; fairness and ENABLED are out of the prover's reach), and `Blocks`: it and the
columns below it follow types, which are nested to any depth, by recursive operators, and the
prover has no theorem about those. For them `wire` is exhaustive over the values listed.

## 5. Where the code and its words disagree

1. `ping_cancel`: `asynch/pool.py:253`. A borrower cancelled at the checkout ping never returns the
   connection. `acquired_connections` counts it for ever and, with `maxsize` 1, the next
   borrower waits for ever.
2. `wedged`: `asynch/proto/connection.py:1316`. `is_query_executing` is set after the PONG without
   looking whether another task closed the connection meanwhile; sending then fails, the
   clean-up finds no connection to close, and the flag stays. Every later query is rejected.
3. `waiter`: `asynch/proto/context.py:59`. A query cancelled while queued for the lock disconnects
   the connection, under the query that holds it.
4. `stale_stream`: `asynch/proto/connection.py:858`. A result of `execute_iter` reads whatever
   stream the connection has at the moment.

Smaller differences have no run of their own.

The docstring of `Connection.ping()` (`asynch/connection.py:209`) promises `NetworkError`, but
the end of the stream while the PONG is awaited surfaces as `OperationalError` (`PingFails`).

What `Cursor` records as the code does it, and its properties excuse by name:

- After a failed `execute` the cursor is finished and still has the rows, the columns and
  the rowcount of its previous query (`ExecuteRaises`).
- `fetchone()` of a stream turns every error into `None` (`FetchRaises`); `fetchmany()` and
  `fetchall()` that fail in the middle lose the rows they had.
- A streamed statement without a result set lets `StopAsyncIteration` escape from
  `execute()`; `executemany()` without data stores the result as rowcount.
- `set_stream_results()` between execute and fetch makes fetch read a list as a stream
  (`FetchMismatched`).
- `Connection.connect()` returns early when the protocol is connected already and leaves
  `opened` as it was (`Opened`, `OpenConnection`).

What `MCWire` expects because the code does it, under `Shortcomings` and beside the values:

- With `types_check` unsigned integers that are too large wrap, a Decimal's minus sign
  counts as a digit, an Enum refuses its own names, and a `String` refuses bytes.
- Dates outside the range are written as 1970-01-01.
- The scale of a DateTime64 leaks, through the shared options, into a Time64 or Decimal
  built after it.
- `LowCardinality(Nullable(...))` inside a composite that is empty puts the reader out of
  step; of wide integers it raises TypeError. An external table without rows whose column
  has a state prefix puts the peer out of step.
- A `None` of a `Nullable(Tuple)` is sent as the default, one of a `Nullable(Array)` cannot
  be sent. A `Map` with a comma inside its key or value type cannot be built. The default
  of a sparse IPv6 or Enum cannot be made.
- JSON in its oldest mode loses `None` and empty objects and splits dotted keys; the null
  map of a `Nullable(JSON)` is written and not read.
- Rows given as dicts for a Nested column are changed in place, and a retry with them
  raises TypeError. A table or block whose normalisation failed half-way has lists for its first
  dicts: made again, a call with dicts fails otherwise, one with dicts and lists succeeds.
- At the end of the stream strings and varints may come back short instead of raising.

## 6. What is not modelled

- Statistics packets (PROGRESS, PROFILE_INFO, LOG, PROFILE_EVENTS), metrics, logging,
  `ProgressQueryResult` and `execute_with_progress`: they change no state a property is about.
- Several hosts and `disable_reconnect`.
- Moving a connection to another event loop, which replaces its lock.
- Two dials at once, of which one is a `Connection.connect()`, which takes no lock: they forget
  a socket. `Spec` has the step `Connect`, and `SerialSpec` excludes the overlap only. Also without
  overlap, the `force_connect` of another task meets the greeting of a `connect()` and disconnects
  it (`Undisturbed`), and a cancelled `connect()` leaves its greeting to the next task (`InSync`). So
  the runs of `Session` are of `LockedSpec`, which is `Spec` without `connect()`; beside other tasks
  it is in the theorems `OneConnectsCorrect` and `NoSocketLeakCorrect` only, with one task also
  in `cursor` (`PROJECT.json`, hazards).
- The codecs (LZ4, ZSTD) and CityHash, which are libraries; floating point beyond whole
  numbers.
- Character-level parsing of queries, type names and DSNs; settings and the tables of
  errors and protocol constants, which are data. The `ENUM` alias of a type.

## 7. Plan

1. Pool with its service, proofs: done.
2. Session: done for one host and one event loop.
3. Cursor over Session: done.
4. Blocks, columns, buffers: done.
5. Proofs about Pool, with its refinement of `LeaseService`, about Session, Cursor and Buffers: done.
6. Next: an abstract query service (one statement in flight, answers in order) that `Session`
   implements for tasks that do not close each other's connection.
7. `Blocks` with the types as recursive functions over a set of types of bounded depth, so
   that `ReadsWhatWasWritten` can be proved type by type, as `ItemCodes` is.
8. Settings and the session timezone; two event loops.
