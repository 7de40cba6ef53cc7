-------------------------------- MODULE Cursor --------------------------------
(***************************************************************************)
(* asynch/cursors.py, asynch/proto/result.py and asynch/connection.py: a   *)
(* cursor and its results over the session of module Session, whose steps  *)
(* these calls are made of, and the open and closed marks of Connection.   *)
(*                                                                         *)
(* One task uses the connection (threadsafety = 1); closing the cursor is  *)
(* the one call that another task makes, at any time.  doing is the call   *)
(* the task is in:                                                         *)
(*   execute    executemany     before the result is there                 *)
(*   header                     at get_columns_with_types() of a stream    *)
(*   restore                    it has failed there, and the cursor still  *)
(*                              has a stream that was cut off before       *)
(*   fetchone   fetchmany       and fetchall, of a streamed result         *)
(*   given                      not a call of the cursor: the caller reads *)
(*                              a stream whose IterQueryResult it was      *)
(*                              given                                      *)
(*   ping       refresh         Connection.ping() and _refresh(), which is *)
(*   reconnect  redial          at disconnect(), then at connect()         *)
(*   connect    close                                                      *)
(*                                                                         *)
(* A row is <<query, place>>.  DictCursor makes a dict of each row, the    *)
(* settings and tables of a cursor are parts of the query it sends.        *)
(***************************************************************************)
EXTENDS Session

CONSTANTS
  Me,         \* the task
  MaxRows     \* bound: the rows of one result

ASSUME CursorAssumption == Tasks = {Me} /\ MaxRows \in Nat

VARIABLES
  cursor,     \* state; streaming: _stream_results; columns: the query they are of,
              \* 0 without a result set; count: _rowcount and the query it is of;
              \* iter: _rows is an IterQueryResult; rows: what is left in _rows
  doing,      \* the call
  behind,     \* the stream the cursor has, while the one of a new query has no header
  cancelled,  \* a fetchone() is about to end in a CancelledError
  result,     \* what an execute has read, what a block has brought to a fetch
  fetched,    \* the rows that the current fetch has
  wanted,     \* how many more it wants
  opened, closed,  \* of Connection
  read,       \* how many rows were read of each query
  ended,      \* the queries whose END_OF_STREAM was read
  handed,     \* the rows of the current result that the caller has
  told,       \* the caller was told that there are no more
  lossy,      \* a fetch of the current result has failed
  given       \* the streams whose IterQueryResult the caller was given: the value of
              \* executemany() (and rowcount), or of fetchall()

calls_   == <<cursor, doing, behind, cancelled, result, fetched, wanted>>
wrapper  == <<opened, closed>>
history  == <<read, ended, handed, told, lossy, given>>
all_vars == <<vars, calls_, wrapper, history>>

NoCount     == [of |-> 0, n |-> -1]
NotANumber  == -2       \* executemany() without data: rowcount is the result
NoRows      == [columns |-> 0, rows |-> <<>>]
All         == MaxRows + 1
FetchCalls  == {"fetchone", "fetchmany", "fetchall"}
Executions  == {"execute", "executemany", "header"}
WrapperCalls == {"ping", "refresh", "reconnect", "connect", "redial", "close"}

At   == pc[Me]
Free == At = "idle" /\ doing = "none"

CursorInit ==
  /\ Init
  /\ cursor = [state |-> "ready", streaming |-> FALSE, columns |-> 0, count |-> NoCount,
               iter |-> FALSE, rows |-> <<>>]
  /\ doing = "none" /\ behind = 0 /\ cancelled = FALSE /\ result = NoRows
  /\ fetched = <<>> /\ wanted = 0
  /\ opened = FALSE /\ closed = FALSE
  /\ read = [q \in 1..MaxQueries |-> 0] /\ ended = {}
  /\ handed = <<>> /\ told = FALSE /\ lossy = FALSE /\ given = {}

-----------------------------------------------------------------------------
(* Steps of Session that a call of the cursor or the connection takes *)

Begins  == Dial(Me) \/ Probe(Me) \/ ProbeBroken(Me)
Cancels == CancelDial(Me) \/ CancelRead(Me) \/ CancelClose(Me) \/ PingCancelled(Me)
Fails   == ProbeFails(Me) \/ DialFails(Me) \/ GreetFails(Me) \/ GreetLost(Me)
           \/ Closed(Me) \/ ReadFails(Me) \/ SampleFails(Me) \/ DrainFails(Me)
Raises  == Fails \/ Cancels

\* QueryResult.store, and a block for IterQueryResult.data; the first block of a
\* result has its columns and no rows.
Stored ==
  LET q == Origin(Me)
      header == result.columns = 0
  IN  \E n \in 0..(IF header THEN 0 ELSE MaxRows - read[q]) :
        /\ result' = [columns |-> IF header THEN q ELSE result.columns,
                      rows |-> result.rows \o [i \in 1..n |-> <<q, read[q] + i>>]]
        /\ read' = [read EXCEPT ![q] = @ + n]

\* The call goes on.
Continue ==
  /\ At # "idle" /\ doing # "none"
  /\ \/ Advance(Me) /\ UNCHANGED cancelled
     \/ Cancels /\ cancelled' = (doing = "fetchone")
  /\ pc'[Me] # "idle"
  /\ IF At = "reading" /\ pc'[Me] = "yielding" /\ doing # "given" THEN Stored
     ELSE UNCHANGED <<result, read>>
  /\ UNCHANGED <<cursor, doing, behind, fetched, wanted, wrapper, ended, handed, told, lossy,
                 given>>

-----------------------------------------------------------------------------
(* execute and executemany *)

\* Refused on a closed cursor, and while a result is not read to its end.
Execute ==
  /\ Free /\ cursor.state # "closed" /\ ~executing
  /\ Begins
  /\ \/ call'[Me] = "insert" /\ doing' = "execute"
     \/ /\ call'[Me] = IF cursor.streaming THEN "iterate" ELSE "execute"
        /\ doing' \in {"execute", "executemany"}
  /\ cursor' = [cursor EXCEPT !.state = "running"]
  /\ UNCHANGED <<behind, cancelled, result, fetched, wanted, wrapper, history>>

CallOver == result' = NoRows /\ cancelled' = FALSE /\ fetched' = <<>> /\ wanted' = 0
Finished(c) ==
  cursor' = [c EXCEPT !.state = "finished"] /\ doing' = "none" /\ CallOver
Replaced    == handed' = <<>> /\ told' = FALSE /\ lossy' = FALSE
NoResultSet(n) ==
  [cursor EXCEPT !.columns = 0, !.iter = FALSE, !.rows = <<>>,
                 !.count = [of |-> query[Me], n |-> n]]

\* A statement without columns leaves rowcount as it was.
Executed ==
  /\ doing \in {"execute", "executemany"} /\ call[Me] = "execute"
  /\ ReadEnd(Me)
  /\ Finished(IF doing = "executemany" THEN NoResultSet(NotANumber)
              ELSE [cursor EXCEPT !.columns = result.columns, !.iter = FALSE,
                      !.rows = result.rows,
                      !.count = IF result.columns = 0 THEN @
                                ELSE [of |-> query[Me], n |-> Len(result.rows)]])
  /\ Replaced
  /\ ended' = ended \cup {query[Me]}
  /\ UNCHANGED <<behind, wrapper, read, given>>

Inserted ==
  /\ Drained(Me)
  /\ \E n \in 0..1 : Finished(NoResultSet(n))
  /\ Replaced
  /\ ended' = ended \cup {query[Me]}
  /\ UNCHANGED <<behind, wrapper, read, given>>

\* execute_iter has returned: its first block is awaited, or the result itself is
\* what executemany() returns, and the rowcount.
Streamed ==
  /\ doing \in {"execute", "executemany"} /\ call[Me] = "iterate"
  /\ ProbeAnswered(Me) \/ Greeted(Me)
  /\ pc'[Me] = "idle" /\ stream'[Me] = query[Me]
  /\ IF doing = "execute"
     THEN /\ doing' = "header" /\ behind' = IF cursor.iter THEN stream[Me] ELSE 0
          /\ UNCHANGED <<cursor, handed, told, lossy, given>>
     ELSE /\ doing' = "none" /\ UNCHANGED behind /\ Replaced
          /\ cursor' = [NoResultSet(NotANumber) EXCEPT !.state = "finished"]
          /\ given' = given \cup {query[Me]}
  /\ UNCHANGED <<cancelled, result, fetched, wanted, wrapper, read, ended>>

\* The next packet of the stream, for execute() or for a fetch.
AsksForMore == doing = "header" \/ (doing \in FetchCalls /\ cursor.rows = <<>>)

NextBlock ==
  /\ AsksForMore
  /\ Fetch(Me) /\ pc'[Me] = "reading"
  /\ UNCHANGED <<calls_, wrapper, history>>

Headed ==
  /\ doing = "header"
  /\ Resume(Me) /\ pc'[Me] = "idle"
  /\ Finished([cursor EXCEPT !.columns = result.columns, !.iter = TRUE, !.rows = result.rows])
  /\ behind' = 0
  /\ Replaced
  /\ UNCHANGED <<wrapper, read, ended, given>>

Failed(c) ==
  /\ cursor' = [c EXCEPT !.state = "finished"]
  /\ doing' = IF doing = "header" /\ behind # 0 THEN "restore" ELSE "none"
  /\ CallOver

\* A failed execute forgets what it has read of the result before.
ExecuteRaisesClears ==
  /\ doing \in Executions
  /\ \/ Raises /\ UNCHANGED ended
     \/ doing = "header" /\ ReadEnd(Me) /\ ended' = ended \cup {query[Me]}
  /\ pc'[Me] = "idle"
  /\ Failed([cursor EXCEPT !.rows = <<>>])
  /\ UNCHANGED <<behind, wrapper, read, handed, told, lossy, given>>

\* The cursor is finished, and keeps the result it had.  A streamed statement that
\* has no columns raises StopAsyncIteration.
ExecuteRaises ==
  /\ doing \in Executions
  /\ \/ Raises /\ UNCHANGED ended
     \/ doing = "header" /\ ReadEnd(Me) /\ ended' = ended \cup {query[Me]}
  /\ pc'[Me] = "idle"
  /\ Failed(cursor)
  /\ UNCHANGED <<behind, wrapper, read, handed, told, lossy, given>>

Restore ==
  /\ doing = "restore" /\ doing' = "none"
  /\ stream' = [stream EXCEPT ![Me] = behind]
  /\ behind' = 0
  /\ UNCHANGED <<client, lock, pc, call, on, query, blocks, link, server, queries>>
  /\ UNCHANGED <<cursor, cancelled, result, fetched, wanted, wrapper, history>>

-----------------------------------------------------------------------------
(* Fetching *)

Fetchable == Free /\ cursor.state # "ready" /\ cursor.columns # 0
First(s, n) == SubSeq(s, 1, IF n < Len(s) THEN n ELSE Len(s))
After(s, n) == SubSeq(s, n + 1, Len(s))
Untouched == UNCHANGED <<vars, wrapper, read, ended, given>>

\* fetchone, fetchmany, fetchall of rows that are all there.
FetchBuffered ==
  /\ Fetchable /\ ~cursor.streaming /\ ~cursor.iter
  /\ \E n \in {1, 2, All} :
       /\ handed' = handed \o First(cursor.rows, n)
       /\ cursor' = [cursor EXCEPT !.rows = After(@, n)]
       /\ told' = (told \/ Len(cursor.rows) < n)
  /\ Untouched /\ UNCHANGED <<doing, behind, cancelled, result, fetched, wanted, lossy>>

\* set_stream_results() between execute and fetch: fetchone() takes the
\* AttributeError of a list for the end; fetchall() hands out the stream itself,
\* and the cursor has a list of no rows instead.
FetchMismatched ==
  /\ Fetchable /\ cursor.streaming # cursor.iter
  /\ told' = TRUE /\ lossy' = TRUE
  /\ IF cursor.streaming THEN UNCHANGED <<cursor, given>>
     ELSE /\ cursor' = [cursor EXCEPT !.iter = FALSE, !.rows = <<>>]
          /\ given' = given \cup ({stream[Me]} \ {0})
  /\ UNCHANGED <<vars, doing, behind, cancelled, result, fetched, wanted, wrapper, read, ended,
                 handed>>

FetchStreamed ==
  /\ Fetchable /\ cursor.streaming /\ cursor.iter
  /\ \/ doing' = "fetchone" /\ wanted' = 1
     \/ doing' = "fetchmany" /\ wanted' = 2
     \/ doing' = "fetchall" /\ wanted' = All
  /\ UNCHANGED <<fetched, cancelled>>
  /\ result' = [columns |-> cursor.columns, rows |-> <<>>]
  /\ Untouched /\ UNCHANGED <<cursor, behind, handed, told, lossy>>

Delivered(rows) == handed' = handed \o rows /\ doing' = "none" /\ CallOver

\* IterQueryResult.next as long as it has rows.
Collect ==
  /\ doing \in FetchCalls /\ At = "idle" /\ cursor.rows # <<>>
  /\ cursor' = [cursor EXCEPT !.rows = After(@, wanted)]
  /\ IF Len(cursor.rows) >= wanted
     THEN Delivered(fetched \o First(cursor.rows, wanted))
     ELSE /\ fetched' = fetched \o cursor.rows
          /\ wanted' = wanted - Len(cursor.rows)
          /\ UNCHANGED <<handed, doing, cancelled, result>>
  /\ Untouched /\ UNCHANGED <<behind, told, lossy>>

BlockFetched ==
  /\ doing \in FetchCalls
  /\ \/ Resume(Me) /\ UNCHANGED ended
     \/ ReadEnd(Me) /\ ended' = ended \cup {query[Me]}
  /\ pc'[Me] = "idle"
  /\ cursor' = [cursor EXCEPT !.rows = @ \o result.rows]
  /\ result' = [result EXCEPT !.rows = <<>>]
  /\ UNCHANGED <<doing, behind, cancelled, fetched, wanted, wrapper, read, handed, told, lossy,
                 given>>

\* What fetchmany() has at the end of the stream is not returned.
StreamOverForgets ==
  /\ doing \in FetchCalls /\ At = "idle" /\ cursor.rows = <<>> /\ stream[Me] = 0
  /\ Delivered(<<>>)
  /\ told' = TRUE
  /\ Untouched /\ UNCHANGED <<cursor, behind, lossy>>

\* The generator is exhausted: None, or the rows there are.
StreamOver ==
  /\ doing \in FetchCalls /\ At = "idle" /\ cursor.rows = <<>> /\ stream[Me] = 0
  /\ Delivered(fetched)
  /\ told' = TRUE
  /\ Untouched /\ UNCHANGED <<cursor, behind, lossy>>

\* An error is the end of the result for fetchmany() and fetchall() too.
FetchRaisesNever ==
  /\ doing \in FetchCalls
  /\ Raises \/ (AsksForMore /\ Fetch(Me))
  /\ pc'[Me] = "idle"
  /\ doing' = "none" /\ CallOver
  /\ told' = TRUE
  /\ UNCHANGED <<cursor, behind, wrapper, read, ended, handed, lossy, given>>

\* fetchone() returns None whatever has happened, unless it was cancelled; the
\* others raise, and the rows they had are lost.
FetchRaises ==
  /\ doing \in FetchCalls
  /\ \/ (Fails \/ (AsksForMore /\ Fetch(Me)))
        /\ told' = (told \/ (doing = "fetchone" /\ ~cancelled))
     \/ Cancels /\ UNCHANGED told
  /\ pc'[Me] = "idle"
  /\ doing' = "none" /\ CallOver
  /\ lossy' = TRUE
  /\ UNCHANGED <<cursor, behind, wrapper, read, ended, handed, given>>

\* The caller goes on with a result it was given: its next packet.
CallerReads ==
  /\ Free /\ stream[Me] \in given
  /\ Fetch(Me)
  /\ doing' = IF pc'[Me] = "idle" THEN "none" ELSE "given"
  /\ UNCHANGED <<cursor, behind, cancelled, result, fetched, wanted, wrapper, history>>

CallerRead ==
  /\ doing = "given" /\ doing' = "none"
  /\ \/ (Resume(Me) \/ Raises) /\ UNCHANGED ended
     \/ ReadEnd(Me) /\ ended' = ended \cup {query[Me]}
  /\ pc'[Me] = "idle"
  /\ UNCHANGED <<cursor, behind, cancelled, result, fetched, wanted, wrapper, read, handed, told,
                 lossy, given>>

SetStreamResults ==
  /\ Free
  /\ cursor' = [cursor EXCEPT !.streaming = ~@]
  /\ Untouched /\ UNCHANGED <<doing, behind, cancelled, result, fetched, wanted, handed, told, lossy>>

\* Close() lets go of the rows.
CloseCursorResets ==
  /\ cursor.state # "closed"
  /\ cursor' = [cursor EXCEPT !.state = "closed", !.iter = FALSE, !.rows = <<>>]
  /\ Untouched /\ UNCHANGED <<doing, behind, cancelled, result, fetched, wanted, handed, told, lossy>>

\* The stream is not read to its end, and a call that runs finishes the cursor.
CloseCursor ==
  /\ cursor.state # "closed"
  /\ cursor' = [cursor EXCEPT !.state = "closed"]
  /\ Untouched /\ UNCHANGED <<doing, behind, cancelled, result, fetched, wanted, handed, told, lossy>>

-----------------------------------------------------------------------------
(* Connection *)

Quietly == UNCHANGED <<cursor, behind, cancelled, result, fetched, wanted, history>>
Marks(o, c) == opened' = o /\ closed' = c

\* connect() of a connection that is connected leaves its marks as they are.
OpenConnection ==
  /\ Free /\ Connect(Me) /\ doing' = "connect"
  /\ Quietly /\ UNCHANGED wrapper

Opened ==
  /\ doing \in {"connect", "redial"} /\ Greeted(Me)
  /\ doing' = "none" /\ Marks(TRUE, FALSE)
  /\ Quietly

CloseConnection ==
  /\ Free
  /\ IF Connected THEN Close(Me) /\ doing' = "close" /\ UNCHANGED wrapper
     ELSE Marks(FALSE, TRUE) /\ UNCHANGED <<vars, doing>>
  /\ Quietly

ConnectionClosed ==
  /\ doing = "close" /\ (Closed(Me) \/ CancelClose(Me))
  /\ doing' = "none" /\ Marks(FALSE, TRUE)
  /\ Quietly

TerminateConnection ==
  /\ Free /\ Terminate(Me)
  /\ Marks(FALSE, TRUE)
  /\ Quietly /\ UNCHANGED doing

PingConnection ==
  /\ Free /\ Ping(Me)
  /\ doing' = "ping" \/ (doing' = "refresh" /\ opened /\ ~closed)
  /\ Quietly /\ UNCHANGED wrapper

\* _refresh() without a ping: a query is executing, or there is no socket.
RefreshUnpinged ==
  /\ Free /\ opened /\ ~closed
  /\ \/ executing /\ Close(Me) /\ doing' = "reconnect"
     \/ ~Connected /\ Connect(Me) /\ doing' = "redial"
  /\ Quietly /\ UNCHANGED wrapper

\* ping() has returned False: the socket is lost, was at its end, or too slow.
PingFalse ==
  /\ doing = "refresh" /\ doing' = "reconnect"
  /\ \/ At = "pinging" /\ Broken(on[Me]) /\ CloseFirst(Me)
        /\ UNCHANGED <<client, call, on, query, stream, blocks, wire, queries>>
     \/ Closed(Me)
  /\ Quietly /\ UNCHANGED wrapper

\* disconnect() has returned, too.
Reconnected ==
  /\ doing = "reconnect" /\ UNCHANGED doing
  /\ Closed(Me)
  /\ Quietly /\ UNCHANGED wrapper

Redials ==
  /\ doing = "reconnect" /\ At = "idle" /\ Connect(Me) /\ doing' = "redial"
  /\ Quietly /\ UNCHANGED wrapper

\* PONG; or an exception, which leaves the marks as they are.
WrapperEnds ==
  /\ doing \in WrapperCalls \ {"close"} /\ doing' = "none"
  /\ \/ PingAnswered(Me) \/ PingFails(Me) \/ Cancels \/ DialFails(Me)
     \/ GreetFails(Me) \/ GreetLost(Me)
     \/ doing \in {"ping", "connect", "redial"} /\ Closed(Me)
  /\ pc'[Me] = "idle"
  /\ Quietly /\ UNCHANGED wrapper

-----------------------------------------------------------------------------
Environment ==
  /\ \E s \in Sockets : Serve(s) \/ ServerSendsData(s) \/ LinkLost(s)
  /\ UNCHANGED <<calls_, wrapper, history>>

CursorNext ==
  \/ Continue
  \/ Execute \/ Executed \/ Inserted \/ Streamed \/ NextBlock \/ Headed \/ ExecuteRaises
  \/ Restore
  \/ FetchBuffered \/ FetchMismatched \/ FetchStreamed \/ Collect \/ BlockFetched \/ StreamOver
  \/ FetchRaises \/ CallerReads \/ CallerRead \/ SetStreamResults \/ CloseCursor
  \/ OpenConnection \/ Opened \/ CloseConnection \/ ConnectionClosed \/ TerminateConnection
  \/ PingConnection \/ RefreshUnpinged \/ PingFalse \/ Reconnected \/ Redials \/ WrapperEnds
  \/ Environment

CursorSpec == CursorInit /\ [][CursorNext]_all_vars

-----------------------------------------------------------------------------
(* Properties *)

RowsOf(q) == [i \in 1..read[q] |-> <<q, i>>]

\* Every row that was read of the cursor's result is with the caller, in the fetch
\* under way or in the cursor, once and in its place, also while another statement
\* runs and after it has failed; unless a fetch has raised and lost its rows.
NoRowIsLost ==
  cursor.columns # 0 /\ ~lossy =>
    handed \o fetched \o cursor.rows \o (IF doing \in FetchCalls THEN result.rows ELSE <<>>)
      = RowsOf(cursor.columns)

\* Who was told that a result is over has all of it, and the server has ended it;
\* unless fetchone() has made a None of an error.
EndIsTheEnd ==
  told /\ ~lossy => cursor.columns \in ended /\ handed = RowsOf(cursor.columns)

\* The rowcount of a buffered result is the number of its rows, however many of
\* them were fetched and whatever has failed since.
RowcountIsOfTheResult ==
  cursor.columns # 0 /\ ~cursor.iter /\ ~lossy =>
    cursor.count = [of |-> cursor.columns, n |-> Len(handed) + Len(cursor.rows)]

\* Whoever is told that records have not been fetched can read them: the stream that
\* keeps the connection busy is the one that the cursor fetches from, or was given to
\* the caller itself.
UnfetchedIsReachable ==
  executing /\ Free =>
    /\ stream[Me] = query[Me] /\ query[Me] # 0
    /\ \/ query[Me] \in given
       \/ cursor.iter /\ cursor.columns = query[Me] /\ cursor.state # "ready"

\* _refresh() that returns leaves a connection that is open, has a socket, and can
\* run a query.
Refreshed == doing \in {"refresh", "redial"} /\ (PingAnswered(Me) \/ Greeted(Me))

RefreshGivesAConnection ==
  [][Refreshed => opened' /\ ~closed' /\ ~executing' /\ Connected']_all_vars
-----------------------------------------------------------------------------
(* The inductive invariants behind these (see SoloProofs and CursorProofs).  *)
(* Session's own do not hold here: connect() takes no lock, and a ping that  *)
(* is cancelled leaves its answer on the wire.                               *)

\* One task: nobody waits for the lock.
Undivided == waiters = <<>> /\ At \notin {"locking", "granted"}

\* The call a place belongs to.
CallsMatch ==
  /\ At \in {"probing", "reopening"} => call[Me] \in Queries
  /\ At \in {"dialing", "greeting"} => call[Me] \in Queries \cup {"connect"}
  /\ At \in Establishing /\ call[Me] \in Queries => query[Me] # 0
  /\ At \in {"reading", "yielding"} => call[Me] \in {"execute", "fetch"}
  /\ query[Me] <= queries /\ stream[Me] <= queries

\* The socket is usable except while the task closes it, a reader waits on it, and
\* the flag is up only beside it and never while a call sets up the next query.
SocketKept ==
  /\ socket # 0 /\ At \notin {"closing", "reopening"} => link[socket] \in {"up", "lost"}
  /\ At \in {"closing", "reopening"} => socket = 0 \/ link[socket] = "shut"
  /\ At = "dialing" => socket = 0
  /\ At \in Waits \cup {"yielding"} => socket # 0
  /\ At \in Waits => on[Me] = socket
  /\ executing => socket # 0
  /\ At \in Establishing \cup {"pinging"} => ~executing
  /\ At \in {"sampling", "draining"} => executing
  /\ At \in {"reading", "yielding"} /\ call[Me] = "execute" => executing

\* A stream that the flag is up for, or that is read, is the task's query.
StreamsMatch ==
  /\ executing /\ At = "idle" => stream[Me] \in {0, query[Me]} /\ query[Me] # 0
  /\ At \in {"reading", "yielding"} /\ call[Me] = "fetch" =>
       stream[Me] = query[Me] /\ query[Me] # 0

\* What a cancelled ping() or connect() leaves behind, and what ends a statement
\* with an error: no result is made of it.
StrayRequest(m) == m.kind \in {"hello", "ping"}
Stray(m) == m.kind \in {"hello", "pong", "exception"}

Strays(c) ==
  /\ c.serving = Nothing
  /\ \A i \in DOMAIN c.sent : StrayRequest(c.sent[i])
  /\ \A i \in DOMAIN c.wire : Stray(c.wire[i])

\* m is the last request, and not read yet.
Asked(c, m) ==
  /\ c.serving = Nothing
  /\ c.sent # <<>> /\ c.sent[Len(c.sent)] = m
  /\ \A i \in DOMAIN c.sent : i # Len(c.sent) => StrayRequest(c.sent[i])
  /\ \A i \in DOMAIN c.wire : Stray(c.wire[i])

QueryLine(c, q) ==
  \/ Asked(c, Message("query", q))
  \/ /\ c.sent = <<>> /\ c.serving = Message("query", q)
     /\ \A i \in DOMAIN c.wire : Stray(c.wire[i]) \/ c.wire[i] = Message("data", q)
  \/ /\ c.sent = <<>> /\ c.serving = Nothing
     /\ \A i \in DOMAIN c.wire :
          \/ Stray(c.wire[i]) \/ c.wire[i] = Message("data", q)
          \/ i = Len(c.wire) /\ c.wire[i] = Message("end", q)

SampleLine(c, q) ==
  \/ Asked(c, Message("insert", q))
  \/ /\ c.sent = <<>> /\ c.serving \in {Nothing, Message("insert", q)}
     /\ \A i \in DOMAIN c.wire :
          Stray(c.wire[i]) \/ (i = Len(c.wire) /\ c.wire[i] = Message("data", q))

DrainLine(c, q) ==
  \/ /\ c.sent = <<Message("rows", q)>> /\ c.wire = <<>>
     /\ c.serving \in {Nothing, Message("insert", q)}
  \/ /\ c.sent = <<>> /\ c.serving = Nothing
     /\ \A i \in DOMAIN c.wire :
          Stray(c.wire[i]) \/ (i = Len(c.wire) /\ c.wire[i] = Message("end", q))

\* What is under way on the socket: besides strays, the task's query in progress,
\* and nothing of any query while the flag is down.
Line ==
  socket # 0 /\ link[socket] # "shut" =>
    /\ ~executing => Strays(Talk(socket))
    /\ executing /\ At \notin {"sampling", "draining"} => QueryLine(Talk(socket), query[Me])
    /\ At = "sampling" => SampleLine(Talk(socket), query[Me])
    /\ At = "draining" => DrainLine(Talk(socket), query[Me])

-----------------------------------------------------------------------------
(* The cursor's part *)

Rows == (0..MaxQueries) \X Nat

CursorTypeOK ==
  /\ cursor \in [state : {"ready", "running", "finished", "closed"}, streaming : BOOLEAN,
                 columns : 0..MaxQueries, count : [of : 0..MaxQueries, n : Int],
                 iter : BOOLEAN, rows : Seq(Rows)]
  /\ doing \in {"none", "restore", "given"} \cup Executions \cup FetchCalls \cup WrapperCalls
  /\ behind \in 0..MaxQueries /\ cancelled \in BOOLEAN
  /\ result \in [columns : 0..MaxQueries, rows : Seq(Rows)]
  /\ fetched \in Seq(Rows) /\ wanted \in Nat
  /\ opened \in BOOLEAN /\ closed \in BOOLEAN
  /\ read \in [1..MaxQueries -> Nat] /\ ended \subseteq 1..MaxQueries
  /\ handed \in Seq(Rows) /\ told \in BOOLEAN /\ lossy \in BOOLEAN

\* Where a call can be suspended, and in which call of the session.
CallsHavePlaces ==
  /\ doing \in {"none", "restore"} => At = "idle"
  /\ doing \in {"execute", "executemany"} =>
       At \notin {"idle", "locking", "granted", "pinging"} /\ call[Me] \in Queries
  /\ doing \in FetchCalls \cup {"header", "given"} =>
       /\ At \in {"idle", "reading", "yielding", "closing"}
       /\ At # "idle" => call[Me] = "fetch"
  /\ doing \in {"ping", "refresh"} => At \in {"pinging", "closing"}
  /\ doing \in {"connect", "redial"} =>
       At \in {"dialing", "greeting", "closing"} /\ call[Me] = "connect"
  /\ doing = "reconnect" => At \in {"idle", "closing"}
  /\ doing = "close" => At = "closing"
  /\ doing \in {"refresh", "reconnect", "redial"} => opened /\ ~closed

\* Whose the statement in progress is.
StatementsOwned ==
  /\ doing = "header" =>
       IF At = "closing" THEN stream[Me] = 0
       ELSE executing /\ stream[Me] = query[Me] /\ query[Me] # 0
  /\ doing = "restore" => ~executing
  /\ executing /\ At # "closing" /\ doing \in {"none", "given"} \cup FetchCalls =>
       /\ stream[Me] = query[Me] /\ query[Me] # 0
       /\ query[Me] \in given \/ (cursor.iter /\ cursor.columns = query[Me])

\* The stream of the cursor's result, while a new query has put its own in the place.
OwnStream == IF doing \in {"header", "restore"} THEN behind ELSE stream[Me]

\* A streamed result is read from its own stream, or from none once it has ended,
\* and by the cursor alone.
StreamKept ==
  /\ cursor.iter =>
       /\ cursor.columns # 0 /\ cursor.state # "ready"
       /\ OwnStream \in {0, cursor.columns}
       /\ cursor.columns \in ended => OwnStream = 0
       /\ cursor.columns \notin given /\ doing # "given"
  /\ behind # 0 => doing \in {"header", "restore"} /\ cursor.iter
  /\ doing \in FetchCalls => cursor.iter /\ result.columns = cursor.columns /\ wanted # 0

\* What an execute reads is a new result, whole; the cursor's is an older one.
ResultKept ==
  /\ doing \in Executions =>
       /\ cursor.columns < query[Me] /\ query[Me] = queries
       /\ query[Me] \notin ended \cup given
       /\ result.columns = 0 => read[query[Me]] = 0
       /\ result.columns # 0 \/ At = "yielding" => result.columns = query[Me]
       /\ result.rows = RowsOf(query[Me])
       /\ doing # "header" /\ call[Me] # "execute" => result = NoRows
  /\ doing \in FetchCalls /\ At \in {"idle", "reading"} => result.rows = <<>>
  /\ doing \notin FetchCalls => fetched = <<>>
  /\ doing \notin FetchCalls \cup Executions => result = NoRows
  /\ cursor.columns <= queries
  /\ \A q \in 1..MaxQueries : q > queries => read[q] = 0 /\ q \notin ended \cup given

\* More may come of a streamed result, or a fetch is about to fail.
MoreMayCome == OwnStream # 0 \/ (doing \in FetchCalls /\ At = "closing")

\* The result whose rows are all there, or whose stream is over, was ended.
EndKept ==
  cursor.columns # 0 /\ ~lossy => cursor.columns \in ended \/ (cursor.iter /\ MoreMayCome)
=============================================================================
