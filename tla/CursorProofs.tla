----------------------------- MODULE CursorProofs -----------------------------
(* Theorems about Cursor for every bound: no row of a result is lost, the end  *)
(* of a result is its end, a stream that keeps the connection busy can be      *)
(* fetched from, and _refresh() gives back a connection that works.            *)
EXTENDS SoloProofs

CursorKept ==
  /\ CursorTypeOK /\ CallsHavePlaces /\ StatementsOwned /\ StreamKept /\ ResultKept
  /\ EndKept /\ NoRowIsLost /\ EndIsTheEnd /\ RowcountIsOfTheResult

CursorInv == SoloKept /\ CursorKept

-----------------------------------------------------------------------------
(* Rows *)

LEMMA FirstAndAfter ==
  ASSUME NEW S, NEW s \in Seq(S), NEW n \in Nat
  PROVE  /\ First(s, n) \in Seq(S) /\ After(s, n) \in Seq(S)
         /\ First(s, n) \o After(s, n) = s
         /\ Len(First(s, n)) + Len(After(s, n)) = Len(s)
         /\ Len(s) <= n => First(s, n) = s /\ After(s, n) = <<>>
<1> DEFINE k == IF n < Len(s) THEN n ELSE Len(s)
           f == First(s, n)
           a == After(s, n)
<1>1. /\ Len(s) \in Nat /\ k \in Nat /\ k <= Len(s) /\ k <= n
      /\ \A i \in 1..Len(s) : s[i] \in S
      /\ n < Len(s) => k = n
      /\ Len(s) <= n => k = Len(s)
  BY LenProperties, ElementOfSeq
<1>2. f \in Seq(S) /\ Len(f) = k /\ \A i \in 1..k : f[i] = s[i]
  <2>1. f = SubSeq(s, 1, k)
    BY DEF First
  <2> HIDE DEF f, k
  <2>2. \A i \in 1..k : s[i] \in S
    BY <1>1
  <2> QED BY <1>1, <2>1, <2>2, SubSeqProperties
<1>3. /\ a \in Seq(S) /\ Len(a) = Len(s) - k /\ \A i \in 1..Len(a) : a[i] = s[k + i]
      /\ Len(s) <= n => a = <<>>
  <2>1. a = SubSeq(s, n + 1, Len(s))
    BY DEF After
  <2> HIDE DEF a, k
  <2>2. CASE n < Len(s)
    <3>1. \A i \in (n + 1)..Len(s) : s[i] \in S
      BY <1>1
    <3>2. /\ a \in Seq(S) /\ Len(a) = Len(s) - n
          /\ \A i \in 1..(Len(s) - (n + 1) + 1) : a[i] = s[(n + 1) + i - 1]
      BY <1>1, <2>1, <2>2, <3>1, SubSeqProperties
    <3>3. \A i \in 1..Len(a) : a[i] = s[n + i]
      <4> TAKE i \in 1..Len(a)
      <4>1. i \in 1..(Len(s) - (n + 1) + 1) /\ (n + 1) + i - 1 = n + i
        BY <1>1, <3>2
      <4> QED BY <3>2, <4>1
    <3> QED BY <1>1, <2>2, <3>2, <3>3
  <2>3. CASE ~(n < Len(s))
    <3>1. a = <<>>
      BY <1>1, <2>1, <2>3, SubSeqEmpty
    <3>2. Len(a) = 0 /\ a \in Seq(S)
      BY <3>1, EmptySeq
    <3> QED BY <1>1, <2>3, <3>1, <3>2
  <2> QED BY <2>2, <2>3
<1>4. f \o a = s
  <2> HIDE DEF f, a, k
  <2>1. /\ f \o a \in Seq(S) /\ Len(f \o a) = Len(s)
        /\ \A i \in 1..Len(s) : (f \o a)[i] = IF i <= k THEN f[i] ELSE a[i - k]
    <3>1. /\ f \o a \in Seq(S) /\ Len(f \o a) = Len(f) + Len(a)
          /\ \A i \in 1..(Len(f) + Len(a)) :
               (f \o a)[i] = IF i <= Len(f) THEN f[i] ELSE a[i - Len(f)]
      BY <1>2, <1>3, ConcatProperties
    <3>2. Len(f) = k /\ Len(f) + Len(a) = Len(s)
      BY <1>1, <1>2, <1>3
    <3> QED BY <3>1, <3>2
  <2>2. \A i \in 1..Len(s) : (f \o a)[i] = s[i]
    <3> TAKE i \in 1..Len(s)
    <3>1. CASE i <= k
      BY <1>1, <1>2, <2>1, <3>1
    <3>2. CASE ~(i <= k)
      <4>1. i - k \in 1..Len(a) /\ k + (i - k) = i
        BY <1>1, <1>3, <3>2
      <4> QED BY <1>3, <2>1, <3>2, <4>1
    <3> QED BY <3>1, <3>2
  <2>3. \A i \in 1..Len(f \o a) : (f \o a)[i] = s[i]
    BY <2>1, <2>2
  <2> DEFINE w == f \o a
  <2>4. w \in Seq(S) /\ Len(w) = Len(s) /\ \A i \in 1..Len(w) : w[i] = s[i]
    BY <2>1, <2>3
  <2> HIDE DEF w
  <2>5. w = s
    BY <2>4, SeqEqual
  <2> QED BY <2>5 DEF w
<1>5. Len(s) <= n => f = s
  BY <1>1, SubSeqFull DEF First
<1> HIDE DEF f, a, k
<1> QED BY <1>1, <1>2, <1>3, <1>4, <1>5 DEF f, a

\* n rows of q after the first m.
Run(q, m, n) == [i \in 1..n |-> <<q, m + i>>]

LEMMA RunTypes ==
  ASSUME NEW q \in 0..MaxQueries, NEW m \in Nat, NEW n \in Nat
  PROVE  Run(q, m, n) \in Seq(Rows) /\ Len(Run(q, m, n)) = n
<1>1. \A i \in 1..n : <<q, m + i>> \in Rows
  BY DEF Rows
<1>2. Run(q, m, n) \in [1..n -> Rows]
  BY <1>1 DEF Run
<1> QED BY <1>2

LEMMA RunGrows ==
  ASSUME NEW q \in 0..MaxQueries, NEW m \in Nat, NEW n \in Nat
  PROVE  Run(q, 0, m + n) = Run(q, 0, m) \o Run(q, m, n)
<1> DEFINE a == Run(q, 0, m)
           b == Run(q, m, n)
           c == Run(q, 0, m + n)
<1>1. /\ a \in Seq(Rows) /\ b \in Seq(Rows) /\ c \in Seq(Rows)
      /\ Len(a) = m /\ Len(b) = n /\ Len(c) = m + n
  BY RunTypes
<1>2. /\ \A i \in 1..m : a[i] = <<q, i>>
      /\ \A i \in 1..n : b[i] = <<q, m + i>>
      /\ \A i \in 1..(m + n) : c[i] = <<q, i>>
  BY DEF Run
<1> HIDE DEF a, b, c
<1>3. /\ a \o b \in Seq(Rows) /\ Len(a \o b) = m + n
      /\ \A i \in 1..(m + n) : (a \o b)[i] = IF i <= m THEN a[i] ELSE b[i - m]
  BY <1>1, ConcatProperties
<1>4. \A i \in 1..(m + n) : (a \o b)[i] = c[i]
  <2> TAKE i \in 1..(m + n)
  <2>1. CASE i <= m
    <3>1. i \in 1..m
      BY <2>1
    <3> QED BY <1>2, <1>3, <2>1, <3>1
  <2>2. CASE ~(i <= m)
    <3>1. i - m \in 1..n /\ m + (i - m) = i
      BY <2>2
    <3> QED BY <1>2, <1>3, <2>2, <3>1
  <2> QED BY <2>1, <2>2
<1>5. c = a \o b
  BY <1>1, <1>3, <1>4, SeqEqual
<1> QED BY <1>5 DEF a, b, c

LEMMA RowsOfRun ==
  ASSUME NEW q \in 1..MaxQueries, read[q] \in Nat
  PROVE  RowsOf(q) = Run(q, 0, read[q]) /\ RowsOf(q) \in Seq(Rows)
<1>1. RowsOf(q) = Run(q, 0, read[q])
  BY DEF RowsOf, Run
<1>2. q \in 0..MaxQueries
  BY SessionAssumption
<1> QED BY <1>1, <1>2, RunTypes

-----------------------------------------------------------------------------
(* Steps in which nothing of the result changes *)

LEMMA NoRowsTypes ==
  /\ <<>> \in Seq(Rows) /\ Len(<<>>) = 0
  /\ NoRows \in [columns : 0..MaxQueries, rows : Seq(Rows)]
<1>1. <<>> \in Seq(Rows)
  OBVIOUS
<1> QED BY <1>1, SessionAssumption DEF NoRows

\* What the cursor's invariant says of a result, and nothing else.
ResultParts == EndKept /\ NoRowIsLost /\ EndIsTheEnd /\ RowcountIsOfTheResult

\* Rows that a fetch has of the block it has just read.
InBlock == IF doing \in FetchCalls THEN result.rows ELSE <<>>

LEMMA SameResult ==
  ASSUME CursorKept,
         UNCHANGED <<cursor.columns, cursor.iter, cursor.rows, cursor.count,
                     handed, fetched, told, lossy, InBlock>>,
         cursor.columns # 0 => UNCHANGED read[cursor.columns],
         ended \subseteq ended',
         cursor.iter /\ MoreMayCome => MoreMayCome'
  PROVE  ResultParts'
<1>1. EndKept'
  BY DEF CursorKept, EndKept
<1>2. NoRowIsLost' /\ EndIsTheEnd'
  <2>1. cursor.columns # 0 => RowsOf(cursor.columns)' = RowsOf(cursor.columns)
    BY DEF RowsOf
  <2>2. told /\ ~lossy => cursor.columns # 0
    BY DEF CursorKept, EndIsTheEnd, CursorTypeOK
  <2> QED BY <2>1, <2>2 DEF CursorKept, NoRowIsLost, EndIsTheEnd, InBlock
<1>3. RowcountIsOfTheResult'
  BY DEF CursorKept, RowcountIsOfTheResult
<1> QED BY <1>1, <1>2, <1>3 DEF ResultParts

LEMMA Elsewhere ==
  ASSUME CursorInv, UNCHANGED <<calls_, wrapper, history>>,
         UNCHANGED <<executing, pc, call, query, stream, queries>>
  PROVE  CursorKept'
<1>1. CursorKept
  BY DEF CursorInv
<1>2. /\ UNCHANGED <<cursor, doing, behind, cancelled, result, fetched, wanted>>
      /\ UNCHANGED <<opened, closed, read, ended, handed, told, lossy, given>>
      /\ At' = At
  BY DEF calls_, wrapper, history, At
<1>3. CursorTypeOK' /\ CallsHavePlaces' /\ StatementsOwned' /\ StreamKept' /\ ResultKept'
  BY <1>1, <1>2
     DEF CursorKept, CursorTypeOK, CallsHavePlaces, StatementsOwned, StreamKept,
         ResultKept, OwnStream, RowsOf
<1>4. ResultParts'
  BY <1>1, <1>2, SameResult DEF MoreMayCome, OwnStream, InBlock
<1> QED BY <1>3, <1>4 DEF CursorKept, ResultParts

\* A call of the connection, which leaves the cursor alone.
LEMMA ConnectionCall ==
  ASSUME CursorInv, Quietly, opened' \in BOOLEAN, closed' \in BOOLEAN,
         doing \in {"none"} \cup WrapperCalls, doing' \in {"none"} \cup WrapperCalls,
         CallsHavePlaces', UNCHANGED <<query, stream, queries>>,
         doing' = "none" /\ executing' => doing = "none" /\ UNCHANGED executing
  PROVE  CursorKept'
<1>1. CursorKept
  BY DEF CursorInv
<1>2. /\ UNCHANGED <<cursor, behind, cancelled, result, fetched, wanted>>
      /\ UNCHANGED <<read, ended, handed, told, lossy, given>>
  BY DEF Quietly, history
<1>3. /\ doing \notin FetchCalls /\ doing \notin Executions
      /\ doing \notin {"header", "restore", "given"}
      /\ doing' \notin FetchCalls /\ doing' \notin Executions
      /\ doing' \notin {"header", "restore", "given"}
  BY DEF WrapperCalls, FetchCalls, Executions
<1>4. CursorTypeOK'
  BY <1>1, <1>2 DEF CursorKept, CursorTypeOK
<1>5. StatementsOwned'
  BY <1>1, <1>2, <1>3 DEF CursorKept, StatementsOwned, CallsHavePlaces
<1>6. StreamKept' /\ ResultKept'
  BY <1>1, <1>2, <1>3 DEF CursorKept, StreamKept, ResultKept, OwnStream, RowsOf
<1>7. ResultParts'
  BY <1>1, <1>2, <1>3, SameResult DEF MoreMayCome, OwnStream, InBlock
<1> QED BY <1>4, <1>5, <1>6, <1>7 DEF CursorKept, ResultParts

-----------------------------------------------------------------------------
(* Connection *)

\* What is known where a step begins.
LEMMA CursorFacts ==
  ASSUME CursorInv
  PROVE  /\ SoloKept /\ CursorKept /\ TypeOK /\ Posture /\ Undivided
         /\ opened \in BOOLEAN /\ closed \in BOOLEAN
         /\ At = "idle" <=> pc[Me] = "idle"
         /\ executing => Connected
         /\ query[Me] \in 0..MaxQueries /\ stream[Me] \in 0..MaxQueries
         /\ queries \in 0..MaxQueries
         /\ query[Me] <= queries /\ stream[Me] <= queries
<1>1. SoloKept /\ CursorKept /\ TypeOK /\ Posture /\ Undivided
  BY DEF CursorInv, SoloKept, Posture
<1>2. query[Me] \in 0..MaxQueries /\ stream[Me] \in 0..MaxQueries /\ queries \in 0..MaxQueries
  BY <1>1, OnlyMe DEF TypeOK
<1> QED BY <1>1, <1>2 DEF CursorKept, CursorTypeOK, At, Posture, SocketKept, CallsMatch,
                          Connected

LEMMA ConnectionBegins ==
  ASSUME CursorInv,
         OpenConnection \/ PingConnection \/ RefreshUnpinged \/ Redials
  PROVE  CursorInv'
<1>0. /\ SoloKept /\ CursorKept /\ opened \in BOOLEAN /\ closed \in BOOLEAN
  BY CursorFacts
<1>1. /\ Quietly /\ UNCHANGED <<opened, closed>>
      /\ doing \in {"none"} \cup WrapperCalls
      /\ \/ Connect(Me) /\ doing' \in {"connect", "redial"}
         \/ Ping(Me) /\ doing' \in {"ping", "refresh"}
         \/ Close(Me) /\ doing' = "reconnect"
      /\ doing' \in {"redial", "refresh", "reconnect"} =>
           (opened /\ ~closed) \/ doing = "reconnect"
  BY DEF OpenConnection, PingConnection, RefreshUnpinged, Redials, Free, wrapper,
         WrapperCalls
<1>2. SoloKept'
  BY <1>0, <1>1, SoloStep DEF SoloTurn
<1>3. /\ UNCHANGED <<query, stream, queries>>
      /\ \/ At' = "dialing" /\ call'[Me] = "connect" /\ doing' \in {"connect", "redial"}
         \/ At' \in {"pinging", "closing"} /\ doing' \in {"ping", "refresh"}
         \/ At' = "closing" /\ doing' = "reconnect"
  BY <1>0, <1>1, OpenTurn, PingTurn, CloseTurn
<1>4. CallsHavePlaces'
  <2>1. doing' \notin FetchCalls \cup {"header"} \cup {"execute", "executemany"}
    BY <1>3 DEF FetchCalls
  <2>2. doing = "reconnect" => opened /\ ~closed
    BY <1>0 DEF CursorKept, CallsHavePlaces
  <2> QED BY <1>1, <1>3, <2>1, <2>2 DEF CallsHavePlaces
<1>5. doing' \in {"none"} \cup WrapperCalls /\ doing' # "none"
  BY <1>3 DEF WrapperCalls
<1> QED BY <1>0, <1>1, <1>2, <1>3, <1>4, <1>5, ConnectionCall DEF CursorInv

LEMMA ConnectionGoesOn ==
  ASSUME CursorInv, PingFalse \/ Reconnected
  PROVE  CursorInv'
<1>0. /\ SoloKept /\ CursorKept /\ opened \in BOOLEAN /\ closed \in BOOLEAN
      /\ TypeOK /\ Undivided
  BY CursorFacts
<1>1. /\ Quietly /\ UNCHANGED <<opened, closed>>
      /\ doing \in {"refresh", "reconnect"} /\ doing' = "reconnect"
      /\ Closed(Me) \/ PingsInVain
  BY DEF PingFalse, Reconnected, wrapper, PingsInVain, client
<1>2. At # "idle"
  BY <1>1 DEF Closed, PingsInVain, At
<1>3. SoloKept'
  BY <1>0, <1>1, <1>2, SoloStep DEF SoloTurn, Advance
<1>4. /\ UNCHANGED <<query, stream, queries>>
      /\ At' \in {"idle", "closing"}
  BY <1>0, <1>1, SoloEnds DEF Closed, PingsInVain, Leaves, ShutsAt
<1>5. CallsHavePlaces'
  BY <1>0, <1>1, <1>4 DEF CursorKept, CallsHavePlaces, FetchCalls
<1>6. doing \in {"none"} \cup WrapperCalls /\ doing' \in {"none"} \cup WrapperCalls
      /\ doing' # "none"
  BY <1>1 DEF WrapperCalls
<1> QED BY <1>0, <1>1, <1>3, <1>4, <1>5, <1>6, ConnectionCall DEF CursorInv

\* The call is over, and with it whatever was executing.
LEMMA ConnectionOver ==
  ASSUME CursorInv, SoloKept', Quietly, opened' \in BOOLEAN, closed' \in BOOLEAN,
         doing \in {"none"} \cup WrapperCalls, doing' = "none", At' = "idle",
         UNCHANGED <<query, stream, queries>>,
         executing' => doing = "none" /\ UNCHANGED executing
  PROVE  CursorInv'
<1>1. CallsHavePlaces'
  BY DEF CallsHavePlaces, FetchCalls
<1>2. doing' \in {"none"} \cup WrapperCalls
  OBVIOUS
<1> QED BY <1>1, <1>2, ConnectionCall DEF CursorInv

LEMMA ConnectionEnds ==
  ASSUME CursorInv,
         Opened \/ CloseConnection \/ ConnectionClosed \/ TerminateConnection \/ WrapperEnds
  PROVE  CursorInv'
<1>0. /\ SoloKept /\ CursorKept /\ opened \in BOOLEAN /\ closed \in BOOLEAN
      /\ TypeOK /\ Undivided
  BY CursorFacts
<1>1. CASE Opened
  <2>1. /\ doing \in {"connect", "redial"} /\ Greeted(Me) /\ call[Me] = "connect"
        /\ doing' = "none" /\ opened' = TRUE /\ closed' = FALSE /\ Quietly
    BY <1>0, <1>1 DEF Opened, Marks, CursorKept, CallsHavePlaces
  <2>2. /\ UNCHANGED <<executing, query, stream, queries>> /\ ~executing
        /\ At = "greeting" /\ At' = "idle"
    <3>1. Settling /\ Leave(Me) /\ At = "greeting"
      BY <2>1 DEF Settling, Greeted, At
    <3> QED BY <1>0, <3>1, SettlingMoves, SoloEnds DEF Leaves
  <2>3. SoloKept'
    BY <1>0, <2>1, <2>2, SoloStep DEF SoloTurn, Advance
  <2>4. doing \in {"none"} \cup WrapperCalls
    BY <2>1 DEF WrapperCalls
  <2> QED BY <2>1, <2>2, <2>3, <2>4, ConnectionOver
<1>2. CASE CloseConnection /\ Connected
  <2>1. /\ Quietly /\ doing = "none" /\ Close(Me) /\ doing' = "close"
        /\ UNCHANGED <<opened, closed>>
    BY <1>2 DEF CloseConnection, Free, wrapper
  <2>2. /\ At' = "closing" /\ UNCHANGED <<query, stream, queries>> /\ SoloKept'
    BY <1>0, <2>1, CloseTurn, SoloStep DEF SoloTurn
  <2>3. CallsHavePlaces'
    BY <2>1, <2>2 DEF CallsHavePlaces, FetchCalls
  <2>4. doing \in {"none"} \cup WrapperCalls /\ doing' \in {"none"} \cup WrapperCalls
        /\ doing' # "none"
    BY <2>1 DEF WrapperCalls
  <2> QED BY <1>0, <2>1, <2>2, <2>3, <2>4, ConnectionCall DEF CursorInv
<1>3. CASE CloseConnection /\ ~Connected
  <2>1. /\ Quietly /\ doing = "none" /\ doing' = "none" /\ UNCHANGED vars
        /\ opened' = FALSE /\ closed' = TRUE
    BY <1>3 DEF CloseConnection, Free, Marks
  <2>2. /\ At' = "idle" /\ UNCHANGED <<executing, query, stream, queries>>
    BY <1>3, <2>1 DEF CloseConnection, Free, vars, At
  <2>3. SoloKept'
    BY <1>0, <2>1, SoloStep
  <2> QED BY <2>1, <2>2, <2>3, ConnectionOver
<1>4. CASE ConnectionClosed
  <2>1. /\ doing = "close" /\ doing' = "none" /\ opened' = FALSE /\ closed' = TRUE
        /\ Quietly
        /\ Closed(Me) \/ CancelClose(Me)
    BY <1>4 DEF ConnectionClosed, Marks
  <2>2. /\ At # "idle" /\ Leave(Me) /\ Reset /\ UNCHANGED <<query, stream, queries>>
    BY <2>1 DEF Closed, CancelClose, At
  <2>3. SoloKept'
    BY <1>0, <2>1, <2>2, SoloStep DEF SoloTurn, Advance, Cancels
  <2>4. At' = "idle" /\ executing' = FALSE
    BY <1>0, <2>2, SoloEnds DEF Leaves, Reset
  <2>5. doing \in {"none"} \cup WrapperCalls
    BY <2>1 DEF WrapperCalls
  <2> QED BY <2>1, <2>2, <2>3, <2>4, <2>5, ConnectionOver
<1>5. CASE TerminateConnection
  <2>1. /\ doing = "none" /\ doing' = "none" /\ opened' = FALSE /\ closed' = TRUE
        /\ Quietly /\ Terminate(Me)
    BY <1>5 DEF TerminateConnection, Marks, Free
  <2>2. /\ SoloKept' /\ At' = "idle" /\ ~executing' /\ UNCHANGED <<query, stream, queries>>
    BY <1>0, <2>1, TerminateTurn, SoloStep DEF SoloTurn
  <2> QED BY <2>1, <2>2, ConnectionOver
<1>6. CASE WrapperEnds
  <2>1. /\ doing \in WrapperCalls /\ doing' = "none" /\ UNCHANGED <<opened, closed>>
        /\ Quietly /\ At' = "idle"
        /\ PingAnswered(Me) \/ PingFails(Me) \/ Raises
    BY <1>6 DEF WrapperEnds, wrapper, Raises, Fails, At
  <2>2. At # "idle"
    BY <2>1 DEF PingAnswered, PingFails, Raises, Fails, Cancels, ProbeFails, DialFails,
                GreetFails, GreetLost, Closed, ReadFails, SampleFails, DrainFails,
                CancelDial, CancelRead, CancelClose, PingCancelled, At
  <2>3. SoloKept'
    BY <1>0, <2>1, <2>2, SoloStep DEF SoloTurn, Advance, Raises, Fails
  <2>4. ~executing' /\ UNCHANGED <<query, stream, queries>>
    <3>1. CASE Raises
      BY <1>0, <2>1, <3>1, RaisedMoves
    <3>2. CASE PingAnswered(Me) \/ PingFails(Me)
      BY <1>0, <3>2 DEF PingAnswered, PingFails, SoloKept, Posture, SocketKept, client, At
    <3> QED BY <2>1, <3>1, <3>2
  <2> QED BY <1>0, <2>1, <2>3, <2>4, ConnectionOver
<1> QED BY <1>1, <1>2, <1>3, <1>4, <1>5, <1>6

-----------------------------------------------------------------------------
(* Steps that leave the cursor's result alone *)

LEMMA CursorParts ==
  ASSUME CursorTypeOK', CallsHavePlaces', StatementsOwned', StreamKept', ResultKept',
         ResultParts'
  PROVE  CursorKept'
BY DEF CursorKept, ResultParts

LEMMA CursorEnvironment ==
  ASSUME CursorInv, Environment \/ UNCHANGED all_vars
  PROVE  CursorInv'
<1>1. /\ (\E s \in Sockets : ServerStep(s)) \/ UNCHANGED vars
      /\ UNCHANGED <<calls_, wrapper, history>>
      /\ UNCHANGED <<executing, pc, call, query, stream, queries>>
  BY DEF Environment, ServerStep, Serve, ServerReads, ServerHangsUp, ServerEnds,
         ServerSendsData, LinkLost, client_side, client, lock, tasks, all_vars, vars
<1>2. CursorKept'
  BY <1>1, Elsewhere
<1>3. SoloKept'
  BY <1>1, CursorFacts, SoloStep
<1> QED BY <1>2, <1>3 DEF CursorInv

\* set_stream_results(), and Cursor.close() at any time.
LEMMA CursorMarked ==
  ASSUME CursorInv, SetStreamResults \/ CloseCursor
  PROVE  CursorInv'
<1>0. CursorKept /\ SoloKept
  BY CursorFacts
<1>1. /\ UNCHANGED vars
      /\ UNCHANGED <<doing, behind, cancelled, result, fetched, wanted>>
      /\ UNCHANGED <<opened, closed, read, ended, handed, told, lossy, given>>
  BY DEF SetStreamResults, CloseCursor, Untouched, wrapper
<1>2. /\ UNCHANGED <<cursor.columns, cursor.iter, cursor.rows, cursor.count>>
      /\ cursor'.state \in {cursor.state, "closed"}
      /\ CursorTypeOK'
  BY <1>0, <1>1 DEF SetStreamResults, CloseCursor, CursorKept, CursorTypeOK
<1>3. UNCHANGED <<executing, pc, call, query, stream, queries, At>>
  BY <1>1 DEF vars, At
<1>4. CallsHavePlaces' /\ StatementsOwned' /\ StreamKept' /\ ResultKept'
  BY <1>0, <1>1, <1>2, <1>3
     DEF CursorKept, CallsHavePlaces, StatementsOwned, StreamKept, ResultKept, OwnStream,
         RowsOf
<1>5. ResultParts'
  BY <1>0, <1>1, <1>2, <1>3, SameResult DEF MoreMayCome, OwnStream, InBlock
<1>6. SoloKept'
  BY <1>0, <1>1, SoloStep
<1> QED BY <1>2, <1>4, <1>5, <1>6, CursorParts DEF CursorInv

LEMMA CursorExecutes ==
  ASSUME CursorInv, Execute
  PROVE  CursorInv'
<1>0. /\ CursorKept /\ SoloKept /\ queries \in 0..MaxQueries
      /\ doing = "none" /\ doing' \in {"execute", "executemany"} /\ Begins
  BY CursorFacts DEF Execute, Free
<1>1. /\ UNCHANGED <<behind, cancelled, result, fetched, wanted>>
      /\ UNCHANGED <<opened, closed, read, ended, handed, told, lossy, given>>
  BY DEF Execute, wrapper, history
<1>2. /\ UNCHANGED <<cursor.columns, cursor.iter, cursor.rows, cursor.count>>
      /\ cursor'.state = "running"
      /\ CursorTypeOK'
  BY <1>0, <1>1 DEF Execute, CursorKept, CursorTypeOK, Executions
<1>3. /\ At' \in {"dialing", "reopening", "probing"} /\ UNCHANGED stream
      /\ queries' = queries + 1 /\ query'[Me] = queries' /\ query'[Me] # 0
      /\ call'[Me] \in Queries
  BY <1>0, BeginsTurn
<1>4. SoloKept'
  BY <1>0, SoloStep DEF SoloTurn
<1>5. queries' \in 1..MaxQueries
  BY <1>0, <1>3, <1>4 DEF SoloKept, TypeOK
<1>6. /\ doing' \notin FetchCalls /\ doing' # "header"
      /\ doing' \notin WrapperCalls /\ doing \notin FetchCalls /\ doing \notin Executions
  BY <1>0 DEF FetchCalls, WrapperCalls, Executions
<1>7. CallsHavePlaces'
  BY <1>0, <1>3, <1>6 DEF CallsHavePlaces, WrapperCalls
<1>8. StatementsOwned'
  BY <1>0, <1>6 DEF StatementsOwned
<1>9. StreamKept'
  BY <1>0, <1>1, <1>2, <1>3, <1>6 DEF CursorKept, StreamKept, OwnStream
<1>10. ResultKept'
  <2>1. /\ read[queries'] = 0 /\ queries' \notin ended \cup given /\ cursor.columns < queries'
        /\ result = NoRows /\ fetched = <<>>
    BY <1>0, <1>3, <1>5, <1>6 DEF CursorKept, ResultKept, CursorTypeOK
  <2>2. RowsOf(query[Me])' = <<>>
    <3>1. RowsOf(query[Me])' = [i \in 1..0 |-> <<query'[Me], i>>]
      BY <1>1, <1>3, <2>1 DEF RowsOf
    <3> QED BY <3>1
  <2>3. \A q \in 1..MaxQueries : q > queries' => read'[q] = 0 /\ q \notin (ended \cup given)'
    BY <1>0, <1>1, <1>3 DEF CursorKept, ResultKept
  <2>4. doing' \in Executions /\ At' # "yielding" /\ cursor.columns <= queries'
    BY <1>0, <1>3, <1>5, <2>1 DEF Executions, CursorKept, CursorTypeOK
  <2> QED BY <1>1, <1>2, <1>3, <1>6, <2>1, <2>2, <2>3, <2>4 DEF ResultKept, NoRows
<1>11. ResultParts'
  BY <1>0, <1>1, <1>2, <1>3, <1>6, SameResult DEF MoreMayCome, OwnStream, InBlock
<1> QED BY <1>2, <1>4, <1>7, <1>8, <1>9, <1>10, <1>11, CursorParts DEF CursorInv

\* The stream of the result before is the cursor's again.
LEMMA CursorRestores ==
  ASSUME CursorInv, Restore
  PROVE  CursorInv'
<1>0. /\ CursorKept /\ SoloKept /\ At = "idle" /\ doing = "restore" /\ doing' = "none"
      /\ UNCHANGED <<cancelled, result, fetched, wanted>>
      /\ UNCHANGED <<cursor, opened, closed, read, ended, handed, told, lossy, given>>
      /\ stream' = [stream EXCEPT ![Me] = behind] /\ behind' = 0
      /\ UNCHANGED <<client, lock, pc, call, on, query, blocks, link, server, queries>>
  BY CursorFacts DEF Restore, wrapper, history, CursorKept, CallsHavePlaces
<1>1. stream'[Me] = behind /\ UNCHANGED <<executing, query, queries, At>>
  BY <1>0, OnlyMe DEF SoloKept, TypeOK, client, At
<1>2. ~executing /\ behind \in 0..MaxQueries /\ behind <= queries
  <2>1. ~executing /\ behind \in 0..MaxQueries /\ OwnStream = behind
    BY <1>0 DEF CursorKept, StatementsOwned, CursorTypeOK, OwnStream
  <2>2. behind \in {0, cursor.columns} /\ cursor.columns <= queries
    BY <1>0, <2>1 DEF CursorKept, StreamKept, ResultKept
  <2> QED BY <2>1, <2>2, CursorFacts
<1>3. SoloKept'
  <2>1. SwapsStream
    BY <1>0, <1>2 DEF SwapsStream
  <2> QED BY <1>0, <2>1, SoloStep DEF SoloTurn
<1>4. /\ doing \notin FetchCalls /\ doing \notin Executions
      /\ doing' \notin FetchCalls /\ doing' \notin Executions
  BY <1>0 DEF FetchCalls, Executions
<1>5. CursorTypeOK' /\ CallsHavePlaces'
  BY <1>0, <1>1, <1>2, <1>4, SessionAssumption DEF CursorKept, CursorTypeOK, CallsHavePlaces
<1>6. OwnStream = behind /\ OwnStream' = behind
  BY <1>0, <1>1 DEF OwnStream
<1>7. StatementsOwned' /\ StreamKept' /\ ResultKept'
  BY <1>0, <1>1, <1>2, <1>4, <1>6
     DEF CursorKept, StatementsOwned, StreamKept, ResultKept, RowsOf
<1>8. ResultParts'
  BY <1>0, <1>4, <1>6, SameResult DEF InBlock, MoreMayCome
<1> QED BY <1>3, <1>5, <1>7, <1>8, CursorParts DEF CursorInv

-----------------------------------------------------------------------------
(* Fetches: how they begin and fail *)

LEMMA CursorAsks ==
  ASSUME CursorInv, NextBlock
  PROVE  CursorInv'
<1>0. /\ CursorKept /\ SoloKept /\ Fetch(Me) /\ At' = "reading"
      /\ doing \in FetchCalls \cup {"header"}
      /\ UNCHANGED <<cursor, doing, behind, cancelled, result, fetched, wanted>>
      /\ UNCHANGED <<opened, closed, read, ended, handed, told, lossy, given>>
  BY CursorFacts DEF NextBlock, AsksForMore, calls_, wrapper, history, At
<1>1. /\ At = "idle" /\ stream[Me] # 0 /\ query'[Me] = stream[Me]
      /\ UNCHANGED <<executing, queries, stream>>
      /\ executing => stream[Me] = query[Me]
      /\ call'[Me] = "fetch"
  BY <1>0, FetchTurn
<1>2. SoloKept'
  BY <1>0, SoloStep DEF SoloTurn
<1>3. doing \in Executions => doing = "header" /\ query'[Me] = query[Me]
  BY <1>0, <1>1 DEF CursorKept, StatementsOwned, Executions, FetchCalls
<1>4. CursorTypeOK' /\ CallsHavePlaces'
  BY <1>0, <1>1, <1>3 DEF CursorKept, CursorTypeOK, CallsHavePlaces, FetchCalls, WrapperCalls
<1>5. StatementsOwned'
  BY <1>0, <1>1 DEF CursorKept, StatementsOwned, FetchCalls
<1>6. OwnStream' = OwnStream
  BY <1>0, <1>1 DEF OwnStream
<1>7. StreamKept'
  BY <1>0, <1>6 DEF CursorKept, StreamKept
<1>8. ResultKept'
  BY <1>0, <1>1, <1>3 DEF CursorKept, ResultKept, RowsOf
<1>9. ResultParts'
  BY <1>0, <1>1, <1>6, SameResult DEF MoreMayCome, InBlock
<1> QED BY <1>2, <1>4, <1>5, <1>7, <1>8, <1>9, CursorParts DEF CursorInv

LEMMA CursorFetches ==
  ASSUME CursorInv, FetchStreamed
  PROVE  CursorInv'
<1>0. /\ CursorKept /\ SoloKept /\ At = "idle" /\ doing = "none" /\ cursor.iter
      /\ doing' \in FetchCalls /\ wanted' \in Nat /\ wanted' # 0
      /\ UNCHANGED <<fetched, cancelled, cursor, behind, handed, told, lossy>>
      /\ UNCHANGED <<opened, closed, read, ended, given>> /\ UNCHANGED vars
      /\ result' = [columns |-> cursor.columns, rows |-> <<>>]
  BY CursorFacts, CursorAssumption
     DEF FetchStreamed, Fetchable, Free, Untouched, wrapper, FetchCalls, All
<1>1. UNCHANGED <<executing, pc, call, query, stream, queries, At>>
  BY <1>0 DEF vars, At
<1>2. SoloKept'
  BY <1>0, SoloStep
<1>3. /\ doing' \notin {"header", "restore", "given", "none"} \cup WrapperCalls
      /\ doing' \notin Executions /\ doing \notin FetchCalls /\ doing \notin Executions
  BY <1>0 DEF FetchCalls, Executions, WrapperCalls
<1>4. CursorTypeOK'
  BY <1>0, <1>1 DEF CursorKept, CursorTypeOK
<1>5. CallsHavePlaces'
  BY <1>0, <1>1, <1>3 DEF CallsHavePlaces, WrapperCalls, Executions
<1>6. StatementsOwned'
  BY <1>0, <1>1, <1>3 DEF CursorKept, StatementsOwned
<1>7. OwnStream' = OwnStream
  BY <1>0, <1>1, <1>3 DEF OwnStream
<1>8. StreamKept'
  BY <1>0, <1>3, <1>7 DEF CursorKept, StreamKept
<1>9. ResultKept'
  BY <1>0, <1>1, <1>3 DEF CursorKept, ResultKept
<1>10. ResultParts'
  <2>1. InBlock' = <<>> /\ InBlock = <<>>
    BY <1>0, <1>3 DEF InBlock
  <2> QED BY <1>0, <1>1, <1>3, <1>7, <2>1, SameResult DEF MoreMayCome
<1> QED BY <1>2, <1>4, <1>5, <1>6, <1>8, <1>9, <1>10, CursorParts DEF CursorInv

\* Nothing is promised of a result after a fetch of it has failed.
LEMMA LossyResult ==
  ASSUME lossy' = TRUE
  PROVE  ResultParts'
BY DEF ResultParts, EndKept, NoRowIsLost, EndIsTheEnd, RowcountIsOfTheResult

LEMMA CursorMismatches ==
  ASSUME CursorInv, FetchMismatched
  PROVE  CursorInv'
<1>0. /\ CursorKept /\ SoloKept /\ At = "idle" /\ doing = "none"
      /\ told' = TRUE /\ lossy' = TRUE
      /\ UNCHANGED <<doing, behind, cancelled, result, fetched, wanted>>
      /\ UNCHANGED <<opened, closed, read, ended, handed>>
  BY CursorFacts DEF FetchMismatched, Fetchable, Free, wrapper
<1>1. /\ doing \notin FetchCalls /\ doing \notin Executions
      /\ doing \notin {"header", "restore"}
  BY <1>0 DEF FetchCalls, Executions
<1>2. /\ UNCHANGED <<executing, pc, call, query, stream, queries, At>> /\ SoloKept'
      /\ OwnStream = stream[Me]
  <2>1. UNCHANGED vars
    BY DEF FetchMismatched
  <2> QED BY <1>0, <1>1, <2>1, SoloStep DEF vars, At, OwnStream
<1>3. CASE cursor.streaming /\ ~cursor.iter
  <2>1. UNCHANGED <<cursor, given>>
    BY <1>3 DEF FetchMismatched
  <2>2. CursorTypeOK' /\ CallsHavePlaces' /\ StatementsOwned' /\ StreamKept' /\ ResultKept'
    BY <1>0, <1>1, <1>2, <2>1
       DEF CursorKept, CursorTypeOK, CallsHavePlaces, StatementsOwned, StreamKept,
           ResultKept, OwnStream
  <2> QED BY <1>0, <1>2, <2>2, LossyResult, CursorParts DEF CursorInv
<1>4. CASE ~cursor.streaming /\ cursor.iter
  <2>1. /\ cursor' = [cursor EXCEPT !.iter = FALSE, !.rows = <<>>]
        /\ given' = given \cup ({stream[Me]} \ {0})
    BY <1>4 DEF FetchMismatched
  <2>2. /\ UNCHANGED <<cursor.columns, cursor.state>> /\ ~cursor'.iter
        /\ CursorTypeOK'
    BY <1>0, <2>1, NoRowsTypes DEF CursorKept, CursorTypeOK
  <2>3. CallsHavePlaces' /\ StreamKept'
    BY <1>0, <1>1, <1>2, <2>2 DEF CursorKept, CallsHavePlaces, StreamKept
  <2>4. StatementsOwned'
    BY <1>0, <1>1, <1>2, <2>1 DEF CursorKept, StatementsOwned
  <2>5. ResultKept'
    <3>1. given' \subseteq given \cup {stream[Me]} /\ stream[Me] <= queries
      BY <2>1, CursorFacts
    <3>2. \A q \in 1..MaxQueries : q > queries => q \notin given'
      BY <1>0, <3>1, CursorFacts DEF CursorKept, ResultKept
    <3> QED BY <1>0, <1>1, <1>2, <2>2, <3>2 DEF CursorKept, ResultKept
  <2> QED BY <1>0, <1>2, <2>2, <2>3, <2>4, <2>5, LossyResult, CursorParts DEF CursorInv
<1> QED BY <1>0, <1>3, <1>4 DEF FetchMismatched, CursorKept, CursorTypeOK

LEMMA FetchFails ==
  ASSUME CursorInv, FetchRaises
  PROVE  CursorInv'
<1>0. /\ CursorKept /\ SoloKept /\ At' = "idle" /\ doing \in FetchCalls /\ doing' = "none"
      /\ result' = NoRows /\ cancelled' = FALSE /\ fetched' = <<>> /\ wanted' = 0
      /\ lossy' = TRUE /\ told' \in BOOLEAN
      /\ UNCHANGED <<cursor, behind, opened, closed, read, ended, handed, given>>
      /\ Raises \/ Fetch(Me)
  BY CursorFacts DEF FetchRaises, CallOver, wrapper, At, Raises, CursorKept, CursorTypeOK
<1>1. /\ doing \notin {"header", "restore", "given", "none"} \cup WrapperCalls
      /\ doing \notin Executions
      /\ doing' \notin FetchCalls /\ doing' \notin Executions
  BY <1>0 DEF FetchCalls, Executions, WrapperCalls
<1>2. ~executing' /\ UNCHANGED queries /\ stream'[Me] \in {stream[Me], 0} /\ SoloKept'
  <2>1. CASE Raises
    <3>1. At # "idle"
      <4>1. ~executing' /\ At \in {"dialing", "greeting", "closing", "reopening", "pinging"}
        BY <1>0, <2>1, RaisedMoves
      <4> QED BY <4>1
    <3>2. SoloTurn
      BY <2>1, <3>1 DEF SoloTurn, Raises, Fails, Advance
    <3> QED BY <1>0, <2>1, <3>2, RaisedMoves, SoloStep
  <2>2. CASE Fetch(Me)
    BY <1>0, <2>2, FetchTurn, SoloStep DEF SoloTurn
  <2> QED BY <1>0, <2>1, <2>2
<1>3. CursorTypeOK'
  BY <1>0, NoRowsTypes DEF CursorKept, CursorTypeOK
<1>4. CallsHavePlaces' /\ StatementsOwned'
  BY <1>0, <1>1, <1>2 DEF CallsHavePlaces, StatementsOwned
<1>5. OwnStream = stream[Me] /\ OwnStream' = stream'[Me] /\ behind = 0
  BY <1>0, <1>1 DEF OwnStream, CursorKept, StreamKept
<1>6. StreamKept' /\ ResultKept'
  BY <1>0, <1>1, <1>2, <1>5 DEF CursorKept, StreamKept, ResultKept
<1> QED BY <1>0, <1>2, <1>3, <1>4, <1>6, LossyResult, CursorParts DEF CursorInv

-----------------------------------------------------------------------------
(* A result that was given to the caller *)

\* Nothing of the cursor's changes while the caller reads it.
LEMMA CallerApart ==
  ASSUME CursorInv, ~cursor.iter, doing \in {"none", "given"}, doing' \in {"none", "given"},
         UNCHANGED <<cursor, behind, cancelled, result, fetched, wanted>>,
         UNCHANGED <<opened, closed, read, handed, told, lossy, given, queries>>,
         ended' = ended \/ (ended' = ended \cup {query[Me]} /\ query[Me] # 0),
         doing' = "none" => At' = "idle",
         doing' = "given" => At' \in {"reading", "closing"} /\ call'[Me] = "fetch",
         executing' /\ At' # "closing" =>
           stream'[Me] = query'[Me] /\ query'[Me] # 0 /\ query'[Me] \in given
  PROVE  CursorKept'
<1>1. CursorKept
  BY DEF CursorInv
<1>2. /\ doing \notin FetchCalls /\ doing \notin Executions
      /\ doing' \notin FetchCalls /\ doing' \notin Executions
      /\ doing' \notin {"header", "restore"} \cup WrapperCalls
      /\ doing \notin {"header", "restore"}
  BY DEF FetchCalls, Executions, WrapperCalls
<1>3. /\ ended \subseteq ended' /\ ended' \subseteq 1..MaxQueries
      /\ \A q \in 1..MaxQueries : q > queries => q \notin ended'
  <2>1. /\ ended \subseteq 1..MaxQueries
        /\ \A q \in 1..MaxQueries : q > queries => q \notin ended
    BY <1>1 DEF CursorKept, CursorTypeOK, ResultKept
  <2>2. query[Me] # 0 => query[Me] \in 1..MaxQueries /\ ~(query[Me] > queries)
    BY CursorFacts
  <2> QED BY <2>1, <2>2
<1>4. CursorTypeOK'
  BY <1>1, <1>3 DEF CursorKept, CursorTypeOK
<1>5. CallsHavePlaces' /\ StatementsOwned'
  BY <1>2 DEF CallsHavePlaces, StatementsOwned, WrapperCalls
<1>6. StreamKept' /\ ResultKept'
  BY <1>1, <1>2, <1>3 DEF CursorKept, StreamKept, ResultKept
<1>7. ResultParts'
  BY <1>1, <1>2, <1>3, SameResult DEF InBlock
<1> QED BY <1>4, <1>5, <1>6, <1>7, CursorParts

LEMMA CallerBegins ==
  ASSUME CursorInv, CallerReads
  PROVE  CursorInv'
<1>0. /\ CursorKept /\ SoloKept /\ Fetch(Me) /\ doing = "none"
      /\ stream[Me] \in given
      /\ doing' = IF At' = "idle" THEN "none" ELSE "given"
      /\ UNCHANGED <<cursor, behind, cancelled, result, fetched, wanted>>
      /\ UNCHANGED <<opened, closed, read, ended, handed, told, lossy, given>>
  BY CursorFacts DEF CallerReads, Free, wrapper, history, At
<1>1. /\ stream[Me] # 0 /\ query'[Me] = stream[Me] /\ UNCHANGED <<executing, queries>>
      /\ \/ At' = "reading" /\ call'[Me] = "fetch" /\ UNCHANGED stream
         \/ At' = "idle" /\ ~executing
  BY <1>0, FetchTurn
<1>2. ~cursor.iter
  BY <1>0, <1>1 DEF CursorKept, StreamKept, OwnStream
<1>3. SoloKept'
  BY <1>0, SoloStep DEF SoloTurn
<1>4. CursorKept'
  BY <1>0, <1>1, <1>2, CallerApart
<1> QED BY <1>3, <1>4 DEF CursorInv

LEMMA CallerEnds ==
  ASSUME CursorInv, CallerRead
  PROVE  CursorInv'
<1>0. /\ CursorKept /\ SoloKept /\ doing = "given" /\ doing' = "none" /\ At' = "idle"
      /\ UNCHANGED <<cursor, behind, cancelled, result, fetched, wanted>>
      /\ UNCHANGED <<opened, closed, read, handed, told, lossy, given>>
      /\ \/ (Resume(Me) \/ Raises) /\ UNCHANGED ended
         \/ ReadEnd(Me) /\ ended' = ended \cup {query[Me]}
  BY CursorFacts DEF CallerRead, wrapper, At
<1>1. ~cursor.iter /\ (At # "idle" => call[Me] = "fetch")
  BY <1>0 DEF CursorKept, StreamKept, CallsHavePlaces
<1>2. CASE Resume(Me) /\ UNCHANGED ended
  <2>1. /\ At = "yielding" /\ UNCHANGED <<executing, query, stream, queries>> /\ SoloKept'
    BY <1>0, <1>2, ResumeTurn, SoloStep DEF SoloTurn, Advance
  <2>2. executing => stream[Me] = query[Me] /\ query[Me] # 0 /\ query[Me] \in given
    BY <1>0, <1>1, <2>1 DEF CursorKept, StatementsOwned
  <2>3. CursorKept'
    BY <1>0, <1>1, <1>2, <2>1, <2>2, CallerApart
  <2> QED BY <2>1, <2>3 DEF CursorInv
<1>3. CASE Raises /\ UNCHANGED ended
  <2>1. /\ ~executing' /\ UNCHANGED queries
        /\ At \in {"dialing", "greeting", "closing", "reopening", "pinging"}
    BY <1>0, <1>3, RaisedMoves
  <2>2. SoloTurn
    BY <1>3, <2>1 DEF SoloTurn, Raises, Fails, Advance
  <2>3. CursorKept'
    BY <1>0, <1>1, <1>3, <2>1, CallerApart
  <2> QED BY <1>0, <2>2, <2>3, SoloStep DEF CursorInv
<1>4. CASE ReadEnd(Me) /\ ended' = ended \cup {query[Me]}
  <2>1. /\ ~executing' /\ UNCHANGED queries /\ At = "reading" /\ SoloKept'
    BY <1>0, <1>4, ReadEndTurn, SoloStep DEF SoloTurn, Advance
  <2>2. query[Me] # 0
    BY <1>1, <2>1, CursorFacts DEF Posture, StreamsMatch
  <2>3. CursorKept'
    BY <1>0, <1>1, <1>4, <2>1, <2>2, CallerApart
  <2> QED BY <2>1, <2>3 DEF CursorInv
<1> QED BY <1>0, <1>2, <1>3, <1>4

-----------------------------------------------------------------------------
(* What an execution leaves *)

LEMMA NewResult ==
  ASSUME handed' = <<>>, told' = FALSE, fetched' = <<>>, doing' \notin FetchCalls,
         cursor'.columns # 0 =>
           cursor'.rows \in Seq(Rows) /\ cursor'.rows = RowsOf(cursor.columns)'
  PROVE  NoRowIsLost' /\ EndIsTheEnd'
<1>1. cursor'.columns # 0 => <<>> \o <<>> \o cursor'.rows \o <<>> = cursor'.rows
  BY ConcatEmptySeq, NoRowsTypes
<1> QED BY <1>1 DEF NoRowIsLost, EndIsTheEnd

\* The statement that is executed.
LEMMA ExecutionFacts ==
  ASSUME CursorInv, doing \in Executions
  PROVE  /\ query[Me] \in 1..MaxQueries /\ query[Me] = queries
         /\ cursor.columns < query[Me] /\ cursor.columns \in 0..MaxQueries
         /\ query[Me] \notin ended \cup given
         /\ result.columns \in {0, query[Me]} /\ result.rows \in Seq(Rows)
         /\ result.rows = RowsOf(query[Me])
         /\ fetched = <<>> /\ doing \notin FetchCalls
         /\ \A q \in 1..MaxQueries : q > queries => read[q] = 0 /\ q \notin ended \cup given
         /\ doing # "header" => behind = 0
<1>1. /\ CursorKept /\ query[Me] \in 0..MaxQueries /\ doing \notin FetchCalls
      /\ doing # "restore"
  BY CursorFacts DEF FetchCalls, Executions
<1> QED BY <1>1 DEF CursorKept, CursorTypeOK, ResultKept, StreamKept

LEMMA ExecutionEnds ==
  ASSUME CursorInv, Executed \/ Inserted
  PROVE  CursorInv'
<1>0. /\ CursorKept /\ SoloKept
      /\ (ReadEnd(Me) /\ call[Me] = "execute") \/ Drained(Me)
      /\ doing' = "none" /\ result' = NoRows /\ cancelled' = FALSE /\ fetched' = <<>>
      /\ wanted' = 0 /\ handed' = <<>> /\ told' = FALSE /\ lossy' = FALSE
      /\ ended' = ended \cup {query[Me]}
      /\ UNCHANGED <<behind, opened, closed, read, given>>
  BY CursorFacts DEF Executed, Inserted, Finished, CallOver, Replaced, wrapper
<1>1. /\ At' = "idle" /\ ~executing' /\ UNCHANGED <<query, stream, queries>>
      /\ At \in {"reading", "draining"} /\ SoloKept'
  <2>1. CASE ReadEnd(Me) /\ call[Me] = "execute"
    BY <1>0, <2>1, ReadEndTurn, SoloStep DEF SoloTurn, Advance, Exhausted
  <2>2. CASE Drained(Me)
    BY <1>0, <2>2, DrainedTurn, SoloStep DEF SoloTurn, Advance
  <2> QED BY <1>0, <2>1, <2>2
<1>2. doing \in {"execute", "executemany"}
  <2>1. CASE Executed
    BY <2>1 DEF Executed
  <2>2. CASE Drained(Me)
    <3>1. At = "draining"
      BY <2>2 DEF Drained, At
    <3> QED BY <1>0, <3>1
            DEF CursorKept, CursorTypeOK, CallsHavePlaces, Executions, FetchCalls,
                WrapperCalls
  <2> QED BY <2>1, <2>2 DEF Inserted
<1>3. /\ doing \in Executions /\ doing' \notin FetchCalls /\ doing' \notin Executions
  BY <1>0, <1>2 DEF Executions, FetchCalls
<1>4. /\ query[Me] \in 1..MaxQueries /\ query[Me] = queries
      /\ result.columns \in {0, query[Me]} /\ result.rows \in Seq(Rows)
      /\ result.rows = RowsOf(query[Me])
      /\ \A q \in 1..MaxQueries : q > queries => read[q] = 0 /\ q \notin ended \cup given
      /\ behind = 0 /\ Len(result.rows) \in Nat
  BY <1>2, <1>3, ExecutionFacts
<1> DEFINE counts == [of : 0..MaxQueries, n : Int]
           cursors == [state : {"ready", "running", "finished", "closed"},
                       streaming : BOOLEAN, columns : 0..MaxQueries, count : counts,
                       iter : BOOLEAN, rows : Seq(Rows)]
           whole == [of |-> query[Me], n |-> Len(result.rows)]
           ended_of(c) == /\ c \in cursors /\ ~c.iter /\ c.columns \in {0, query[Me]}
                          /\ c.columns # 0 => c.rows = result.rows /\ c.count = whole
<1>5. ended_of(cursor')
  <2>1. /\ cursor \in cursors
        /\ 0 \in 0..MaxQueries /\ query[Me] \in 0..MaxQueries /\ whole \in counts
        /\ \A n \in Int : [of |-> query[Me], n |-> n] \in counts
        /\ cursor.count \in counts
    <3>1. cursor \in cursors
      BY <1>0 DEF CursorKept, CursorTypeOK
    <3>2. cursor.count \in counts
      <4> HIDE DEF counts
      <4> QED BY <3>1
    <3>3. /\ 0 \in 0..MaxQueries /\ query[Me] \in 0..MaxQueries /\ whole \in counts
          /\ \A n \in Int : [of |-> query[Me], n |-> n] \in counts
      BY <1>4, SessionAssumption
    <3> QED BY <3>1, <3>2, <3>3
  <2> HIDE DEF counts, whole
  <2>2. ASSUME NEW n \in Int, cursor' = [NoResultSet(n) EXCEPT !.state = "finished"]
        PROVE  ended_of(cursor')
    BY <2>1, <2>2, NoRowsTypes DEF NoResultSet
  <2>3. CASE Executed /\ doing = "execute"
    <3> DEFINE count == IF result.columns = 0 THEN cursor.count ELSE whole
    <3>1. cursor' = [[cursor EXCEPT !.columns = result.columns, !.iter = FALSE,
                        !.rows = result.rows, !.count = count]
                     EXCEPT !.state = "finished"]
      BY <2>3 DEF Executed, Finished, whole
    <3>2. count \in counts /\ (result.columns # 0 => count = whole)
      BY <2>1
    <3> HIDE DEF count
    <3> QED BY <1>4, <2>1, <3>1, <3>2
  <2>4. CASE Executed /\ doing = "executemany"
    <3>1. cursor' = [NoResultSet(NotANumber) EXCEPT !.state = "finished"]
      BY <2>4 DEF Executed, Finished
    <3>2. NotANumber \in Int
      BY DEF NotANumber
    <3> QED BY <2>2, <3>1, <3>2
  <2>5. CASE Inserted
    <3>1. PICK n \in 0..1 : cursor' = [NoResultSet(n) EXCEPT !.state = "finished"]
      BY <2>5 DEF Inserted, Finished
    <3> QED BY <2>2, <3>1
  <2> QED BY <1>2, <2>3, <2>4, <2>5
<1>6. CursorTypeOK'
  BY <1>0, <1>4, <1>5, NoRowsTypes DEF CursorKept, CursorTypeOK
<1>7. CallsHavePlaces' /\ StatementsOwned' /\ StreamKept'
  BY <1>0, <1>1, <1>3, <1>4, <1>5 DEF CallsHavePlaces, StatementsOwned, StreamKept, WrapperCalls
<1>8. ResultKept'
  BY <1>0, <1>1, <1>3, <1>4, <1>5 DEF ResultKept
<1>9. NoRowIsLost' /\ EndIsTheEnd'
  <2>1. cursor'.columns # 0 => cursor'.rows = RowsOf(cursor.columns)'
    BY <1>0, <1>4, <1>5 DEF RowsOf
  <2> QED BY <1>0, <1>3, <1>4, <1>5, <2>1, NewResult
<1>10. EndKept' /\ RowcountIsOfTheResult'
  <2>1. cursor'.columns # 0 => Len(handed') + Len(cursor'.rows) = Len(result.rows)
    BY <1>0, <1>4, <1>5, NoRowsTypes
  <2> QED BY <1>0, <1>4, <1>5, <2>1 DEF EndKept, RowcountIsOfTheResult
<1> QED BY <1>1, <1>6, <1>7, <1>8, <1>9, <1>10, CursorParts DEF CursorInv, ResultParts

LEMMA ExecutionStreams ==
  ASSUME CursorInv, Streamed
  PROVE  CursorInv'
<1>0. /\ CursorKept /\ SoloKept /\ doing \in {"execute", "executemany"}
      /\ call[Me] = "iterate" /\ At' = "idle"
      /\ ProbeAnswered(Me) \/ Greeted(Me)
      /\ UNCHANGED <<cancelled, result, fetched, wanted>>
      /\ UNCHANGED <<opened, closed, read, ended>>
  BY CursorFacts DEF Streamed, wrapper, At
<1>1. /\ executing' /\ stream'[Me] = query[Me] /\ UNCHANGED <<query, queries>>
      /\ SoloKept'
  <2>1. /\ At \in {"probing", "greeting"} /\ call[Me] \in Queries
        /\ wire[on[Me]] # <<>> /\ Take(Me) /\ Proceed(Me)
        /\ UNCHANGED <<socket, call, query, blocks, queries>>
    BY <1>0 DEF ProbeAnswered, Greeted, Got, At, Queries
  <2>2. executing' /\ stream'[Me] = query[Me]
    BY <1>0, <2>1, SoloProceed
  <2>3. SoloTurn
    BY <1>0, <2>1 DEF SoloTurn, Advance
  <2> QED BY <1>0, <2>1, <2>2, <2>3, SoloStep
<1>2. /\ doing \in Executions /\ doing \notin {"header", "restore"} \cup FetchCalls
      /\ query[Me] \in 1..MaxQueries /\ query[Me] = queries /\ fetched = <<>>
      /\ cursor.columns < query[Me] /\ behind = 0
      /\ OwnStream = stream[Me] /\ stream[Me] \in 0..MaxQueries
  BY <1>0, ExecutionFacts, CursorFacts DEF Executions, FetchCalls, OwnStream
<1>3. CASE doing = "execute"
  <2>1. /\ doing' = "header" /\ behind' = IF cursor.iter THEN stream[Me] ELSE 0
        /\ UNCHANGED <<cursor, handed, told, lossy, given>>
    BY <1>3 DEF Streamed
  <2>2. doing' \in Executions /\ doing' \notin FetchCalls
    BY <2>1 DEF Executions, FetchCalls
  <2>3. CursorTypeOK' /\ CallsHavePlaces' /\ StatementsOwned'
    BY <1>0, <1>1, <1>2, <2>1, <2>2, SessionAssumption
       DEF CursorKept, CursorTypeOK, CallsHavePlaces, StatementsOwned
  <2>4. cursor.iter => OwnStream' = OwnStream
    BY <1>2, <2>1 DEF OwnStream
  <2>5. StreamKept' /\ ResultKept'
    BY <1>0, <1>1, <1>2, <2>1, <2>2, <2>4 DEF CursorKept, StreamKept, ResultKept, RowsOf
  <2>6. ResultParts'
    BY <1>0, <1>2, <2>1, <2>2, <2>4, SameResult DEF InBlock, MoreMayCome
  <2> QED BY <1>1, <2>3, <2>5, <2>6, CursorParts DEF CursorInv
<1>4. CASE doing = "executemany"
  <2>1. /\ doing' = "none" /\ UNCHANGED behind /\ given' = given \cup {query[Me]}
        /\ handed' = <<>> /\ told' = FALSE /\ lossy' = FALSE
        /\ cursor' = [NoResultSet(NotANumber) EXCEPT !.state = "finished"]
    BY <1>4 DEF Streamed, Replaced
  <2>2. doing' \notin Executions /\ doing' \notin FetchCalls \cup WrapperCalls
    BY <2>1 DEF Executions, FetchCalls, WrapperCalls
  <2>3. cursor'.columns = 0 /\ ~cursor'.iter /\ CursorTypeOK'
    <3>1. query[Me] \in 0..MaxQueries /\ 0 \in 0..MaxQueries /\ NotANumber \in Int
      BY <1>2, SessionAssumption DEF NotANumber
    <3> QED BY <1>0, <2>1, <3>1, NoRowsTypes DEF CursorKept, CursorTypeOK, NoResultSet
  <2>4. result = NoRows
    BY <1>0, <1>2, <1>4 DEF CursorKept, ResultKept
  <2>5. CallsHavePlaces' /\ StatementsOwned' /\ StreamKept'
    BY <1>0, <1>1, <1>2, <2>1, <2>2, <2>3
       DEF CallsHavePlaces, StatementsOwned, StreamKept, WrapperCalls
  <2>6. ResultKept'
    BY <1>0, <1>1, <1>2, <2>1, <2>2, <2>3, <2>4 DEF CursorKept, ResultKept
  <2>7. ResultParts'
    BY <1>0, <1>2, <2>1, <2>2, <2>3, NewResult
       DEF ResultParts, EndKept, RowcountIsOfTheResult
  <2> QED BY <1>1, <2>3, <2>5, <2>6, <2>7, CursorParts DEF CursorInv
<1> QED BY <1>0, <1>3, <1>4

\* The header of a streamed result is there.
LEMMA StreamBegins ==
  ASSUME CursorInv, Headed
  PROVE  CursorInv'
<1>0. /\ CursorKept /\ SoloKept /\ doing = "header" /\ doing' = "none"
      /\ Resume(Me) /\ At' = "idle"
      /\ cursor' = [[cursor EXCEPT !.columns = result.columns, !.iter = TRUE,
                                   !.rows = result.rows] EXCEPT !.state = "finished"]
      /\ behind' = 0 /\ result' = NoRows /\ cancelled' = FALSE /\ fetched' = <<>>
      /\ wanted' = 0 /\ handed' = <<>> /\ told' = FALSE /\ lossy' = FALSE
      /\ UNCHANGED <<opened, closed, read, ended, given>>
  BY CursorFacts DEF Headed, Finished, CallOver, Replaced, wrapper, At
<1>1. /\ At = "yielding" /\ UNCHANGED <<executing, query, stream, queries>> /\ SoloKept'
  BY <1>0, ResumeTurn, SoloStep DEF SoloTurn, Advance
<1>2. /\ doing \in Executions /\ doing' \notin FetchCalls /\ doing' \notin Executions
      /\ doing' \notin WrapperCalls
  BY <1>0 DEF Executions, FetchCalls, WrapperCalls
<1>3. /\ query[Me] \in 1..MaxQueries /\ query[Me] = queries /\ query[Me] \notin ended \cup given
      /\ result.rows \in Seq(Rows) /\ result.rows = RowsOf(query[Me])
      /\ result.columns = query[Me] /\ stream[Me] = query[Me]
      /\ \A q \in 1..MaxQueries : q > queries => read[q] = 0 /\ q \notin ended \cup given
  BY <1>0, <1>1, <1>2, ExecutionFacts DEF CursorKept, ResultKept, StatementsOwned
<1>4. /\ CursorTypeOK' /\ cursor'.iter /\ cursor'.columns = query[Me]
      /\ cursor'.rows = result.rows /\ cursor'.state = "finished"
  <2>1. query[Me] \in 0..MaxQueries /\ 0 \in 0..MaxQueries
    BY <1>3, SessionAssumption
  <2> QED BY <1>0, <1>3, <2>1, NoRowsTypes DEF CursorKept, CursorTypeOK
<1>5. CallsHavePlaces' /\ StatementsOwned' /\ StreamKept'
  BY <1>0, <1>1, <1>2, <1>3, <1>4
     DEF CallsHavePlaces, StatementsOwned, StreamKept, OwnStream, WrapperCalls
<1>6. ResultKept'
  BY <1>0, <1>1, <1>2, <1>3, <1>4 DEF ResultKept
<1>7. NoRowIsLost' /\ EndIsTheEnd'
  <2>1. cursor'.rows = RowsOf(cursor.columns)'
    BY <1>0, <1>3, <1>4 DEF RowsOf
  <2> QED BY <1>0, <1>2, <1>3, <1>4, <2>1, NewResult
<1>8. EndKept' /\ RowcountIsOfTheResult'
  BY <1>0, <1>1, <1>3, <1>4 DEF EndKept, MoreMayCome, OwnStream, RowcountIsOfTheResult
<1> QED BY <1>1, <1>4, <1>5, <1>6, <1>7, <1>8, CursorParts DEF CursorInv, ResultParts

\* The cursor keeps the result it had.
LEMMA ExecutionFails ==
  ASSUME CursorInv, ExecuteRaises
  PROVE  CursorInv'
<1>0. /\ CursorKept /\ SoloKept /\ doing \in Executions /\ At' = "idle"
      /\ cursor' = [cursor EXCEPT !.state = "finished"]
      /\ doing' = IF doing = "header" /\ behind # 0 THEN "restore" ELSE "none"
      /\ result' = NoRows /\ cancelled' = FALSE /\ fetched' = <<>> /\ wanted' = 0
      /\ UNCHANGED <<behind, opened, closed, read, handed, told, lossy, given>>
      /\ \/ Raises /\ UNCHANGED ended
         \/ doing = "header" /\ ReadEnd(Me) /\ ended' = ended \cup {query[Me]}
  BY CursorFacts DEF ExecuteRaises, Failed, CallOver, wrapper, At
<1>1. /\ doing \notin FetchCalls /\ doing \notin {"restore", "none"}
      /\ doing' \notin FetchCalls /\ doing' \notin Executions
      /\ doing' \notin WrapperCalls
      /\ doing' \in {"restore", "none"}
  BY <1>0 DEF Executions, FetchCalls, WrapperCalls
<1>2. /\ query[Me] \in 1..MaxQueries /\ query[Me] = queries
      /\ cursor.columns < query[Me] /\ fetched = <<>>
      /\ \A q \in 1..MaxQueries : q > queries => read[q] = 0 /\ q \notin ended \cup given
      /\ doing # "header" => behind = 0
  BY <1>0, ExecutionFacts
<1>3. /\ ~executing' /\ UNCHANGED <<query, queries>> /\ SoloKept'
      /\ doing # "header" => UNCHANGED stream
      /\ doing = "header" => stream'[Me] = 0
  <2>1. CASE Raises
    <3>1. /\ ~executing' /\ UNCHANGED <<query, queries, stream>>
          /\ At \in {"dialing", "greeting", "closing", "reopening", "pinging"}
      BY <1>0, <2>1, RaisedMoves
    <3>2. doing = "header" => At = "closing" /\ stream[Me] = 0
      BY <1>0, <3>1 DEF CursorKept, CallsHavePlaces, StatementsOwned
    <3>3. SoloTurn
      BY <2>1, <3>1 DEF SoloTurn, Raises, Fails, Advance
    <3> QED BY <1>0, <3>1, <3>2, <3>3, SoloStep
  <2>2. CASE doing = "header" /\ ReadEnd(Me)
    <3>1. /\ ~executing' /\ UNCHANGED <<query, queries>> /\ Exhausted(Me) /\ At = "reading"
          /\ SoloKept'
      BY <1>0, <2>2, ReadEndTurn, SoloStep DEF SoloTurn, Advance
    <3>2. call[Me] = "fetch"
      BY <1>0, <2>2, <3>1 DEF CursorKept, CallsHavePlaces
    <3>3. stream'[Me] = 0
      BY <1>0, <3>1, <3>2, OnlyMe DEF Exhausted, SoloKept, TypeOK
    <3> QED BY <2>2, <3>1, <3>3
  <2> QED BY <1>0, <2>1, <2>2
<1>4. /\ CursorTypeOK' /\ cursor'.state = "finished"
      /\ UNCHANGED <<cursor.columns, cursor.iter, cursor.rows, cursor.count>>
  BY <1>0, <1>1, <1>2, NoRowsTypes DEF CursorKept, CursorTypeOK
<1>5. CallsHavePlaces' /\ StatementsOwned'
  BY <1>0, <1>1, <1>3 DEF CallsHavePlaces, StatementsOwned, WrapperCalls
<1>6. OwnStream' = OwnStream
  BY <1>0, <1>1, <1>2, <1>3 DEF OwnStream
<1>7. ended \subseteq ended' /\ ended' \subseteq ended \cup {query[Me]}
  BY <1>0
<1>8. StreamKept'
  <2>1. cursor.columns \in ended' => cursor.columns \in ended
    BY <1>0, <1>2, <1>7 DEF CursorKept, CursorTypeOK
  <2>2. behind' # 0 => doing' = "restore" /\ cursor'.iter
    BY <1>0, <1>1, <1>2, <1>4 DEF CursorKept, StreamKept
  <2> QED BY <1>0, <1>1, <1>4, <1>6, <2>1, <2>2 DEF CursorKept, StreamKept
<1>9. ResultKept'
  BY <1>0, <1>1, <1>2, <1>3, <1>4, <1>7 DEF CursorKept, CursorTypeOK, ResultKept
<1>10. ResultParts'
  BY <1>0, <1>1, <1>2, <1>4, <1>6, <1>7, SameResult DEF InBlock, MoreMayCome
<1> QED BY <1>3, <1>4, <1>5, <1>8, <1>9, <1>10, CursorParts DEF CursorInv

-----------------------------------------------------------------------------
(* Rows that are handed on *)

LEMMA NoneJoined ==
  ASSUME NEW a \in Seq(Rows)
  PROVE  a \o <<>> = a /\ <<>> \o a = a /\ Len(a) \in Nat
BY ConcatEmptySeq

LEMMA TwoJoined ==
  ASSUME NEW a \in Seq(Rows), NEW b \in Seq(Rows)
  PROVE  a \o b \in Seq(Rows) /\ Len(a \o b) = Len(a) + Len(b)
BY ConcatProperties

LEMMA ThreeJoined ==
  ASSUME NEW a \in Seq(Rows), NEW b \in Seq(Rows), NEW c \in Seq(Rows)
  PROVE  a \o (b \o c) = a \o b \o c
BY ConcatAssociative

\* Of a result of which the caller has every row there is nothing left.
LEMMA NothingMore ==
  ASSUME NEW a \in Seq(Rows), NEW b \in Seq(Rows), NEW c \in Seq(Rows), a \o b \o c = a
  PROVE  b = <<>> /\ c = <<>>
<1>1. b \o c \in Seq(Rows) /\ a \o (b \o c) = a
  BY NoneJoined, TwoJoined, ThreeJoined
<1>2. b \o c = <<>>
  BY <1>1, ConcatEqualIffEmpty
<1> QED BY <1>2, ConcatEqualIffEmpty

\* What the rows of the cursor, the fetch and the caller are before a fetch goes on.
LEMMA RowFacts ==
  ASSUME CursorInv
  PROVE  /\ handed \in Seq(Rows) /\ fetched \in Seq(Rows) /\ cursor.rows \in Seq(Rows)
         /\ result.rows \in Seq(Rows) /\ wanted \in Nat
         /\ cursor.columns \in 0..MaxQueries
         /\ cursor \in [state : {"ready", "running", "finished", "closed"},
                        streaming : BOOLEAN, columns : 0..MaxQueries,
                        count : [of : 0..MaxQueries, n : Int], iter : BOOLEAN,
                        rows : Seq(Rows)]
         /\ Len(handed) \in Nat /\ Len(cursor.rows) \in Nat
         /\ doing \in FetchCalls =>
              /\ cursor.iter /\ cursor.columns # 0 /\ result.columns = cursor.columns
              /\ wanted # 0 /\ behind = 0 /\ OwnStream = stream[Me]
              /\ doing \notin Executions
              /\ doing \notin {"header", "restore", "given", "none"} \cup WrapperCalls
BY CursorFacts
   DEF CursorKept, CursorTypeOK, StreamKept, OwnStream, FetchCalls, Executions, WrapperCalls

LEMMA BufferedFetches ==
  ASSUME CursorInv, FetchBuffered
  PROVE  CursorInv'
<1>0. /\ CursorKept /\ SoloKept /\ doing = "none" /\ cursor.columns # 0 /\ ~cursor.iter
      /\ UNCHANGED vars
      /\ UNCHANGED <<doing, behind, cancelled, result, fetched, wanted, lossy>>
      /\ UNCHANGED <<opened, closed, read, ended, given>>
  BY CursorFacts DEF FetchBuffered, Fetchable, Free, Untouched, wrapper
<1>1. PICK n \in Nat :
        /\ handed' = handed \o First(cursor.rows, n)
        /\ cursor' = [cursor EXCEPT !.rows = After(cursor.rows, n)]
        /\ told' = (told \/ Len(cursor.rows) < n)
  <2>1. PICK n \in {1, 2, All} :
          /\ handed' = handed \o First(cursor.rows, n)
          /\ cursor' = [cursor EXCEPT !.rows = After(@, n)]
          /\ told' = (told \/ Len(cursor.rows) < n)
    BY DEF FetchBuffered
  <2>2. n \in Nat
    BY CursorAssumption DEF All
  <2> QED BY <2>1, <2>2
<1> DEFINE f == First(cursor.rows, n)
           a == After(cursor.rows, n)
<1>2. /\ handed \in Seq(Rows) /\ cursor.rows \in Seq(Rows)
      /\ f \in Seq(Rows) /\ a \in Seq(Rows) /\ f \o a = cursor.rows
      /\ Len(f) + Len(a) = Len(cursor.rows)
      /\ Len(cursor.rows) <= n => f = cursor.rows /\ a = <<>>
      /\ Len(handed) \in Nat /\ Len(cursor.rows) \in Nat
  BY RowFacts, FirstAndAfter
<1>3. handed' = handed \o f /\ handed' \in Seq(Rows) /\ cursor' = [cursor EXCEPT !.rows = a]
  BY <1>1, <1>2, NoneJoined, TwoJoined, ThreeJoined
<1> HIDE DEF f, a
<1>4. /\ UNCHANGED <<cursor.columns, cursor.iter, cursor.count, cursor.state>>
      /\ cursor'.rows = a /\ CursorTypeOK'
  BY <1>0, <1>1, <1>2, <1>3 DEF CursorKept, CursorTypeOK
<1>5. UNCHANGED <<executing, pc, call, query, stream, queries, At>>
  BY <1>0 DEF vars, At
<1>6. CallsHavePlaces' /\ StatementsOwned' /\ StreamKept' /\ ResultKept'
  BY <1>0, <1>4, <1>5
     DEF CursorKept, CallsHavePlaces, StatementsOwned, StreamKept, ResultKept, OwnStream,
         RowsOf, FetchCalls, Executions
<1>7. EndKept'
  BY <1>0, <1>4 DEF CursorKept, EndKept
<1>8. /\ InBlock = <<>> /\ InBlock' = <<>> /\ fetched = <<>>
  BY <1>0 DEF InBlock, FetchCalls, CursorKept, ResultKept
<1>9. ~lossy => /\ handed \o cursor.rows = RowsOf(cursor.columns)
                /\ handed' \o cursor'.rows = RowsOf(cursor.columns)
                /\ RowsOf(cursor.columns)' = RowsOf(cursor.columns)
  <2>1. ~lossy => handed \o <<>> \o cursor.rows \o <<>> = RowsOf(cursor.columns)
    BY <1>0, <1>8 DEF CursorKept, NoRowIsLost, InBlock
  <2>2. handed \o <<>> \o cursor.rows \o <<>> = handed \o cursor.rows
    BY <1>2, NoneJoined, TwoJoined, ThreeJoined
  <2>3. handed' \o a = handed \o cursor.rows
    <3>1. handed \o (f \o a) = handed \o f \o a
      BY <1>2, ThreeJoined
    <3> QED BY <1>2, <1>3, <3>1
  <2> QED BY <1>0, <1>4, <2>1, <2>2, <2>3 DEF RowsOf
<1>10. NoRowIsLost'
  <2>1. handed' \o <<>> \o cursor'.rows \o <<>> = handed' \o cursor'.rows
    BY <1>2, <1>3, <1>4, NoneJoined, TwoJoined, ThreeJoined
  <2> QED BY <1>0, <1>4, <1>8, <1>9, <2>1 DEF NoRowIsLost, InBlock
<1>11. EndIsTheEnd'
  <2>1. SUFFICES ASSUME told', ~lossy
                 PROVE  cursor.columns \in ended /\ handed' = RowsOf(cursor.columns)
    BY <1>0, <1>4, <1>9 DEF EndIsTheEnd
  <2>2. cursor.columns \in ended
    BY <1>0, <2>1 DEF CursorKept, EndKept
  <2>3. CASE told
    <3>1. handed = RowsOf(cursor.columns)
      BY <1>0, <2>1, <2>3 DEF CursorKept, EndIsTheEnd
    <3>2. handed \o cursor.rows = handed
      BY <1>9, <2>1, <3>1
    <3>3. cursor.rows = <<>>
      BY <1>2, <3>2, ConcatEqualIffEmpty
    <3>4. Len(cursor.rows) <= n
      BY <3>3, NoRowsTypes
    <3>5. handed' = handed
      BY <1>2, <1>3, <3>3, <3>4, NoneJoined, TwoJoined, ThreeJoined
    <3> QED BY <2>2, <3>1, <3>5
  <2>4. CASE Len(cursor.rows) < n
    <3>1. f = cursor.rows
      BY <1>2, <2>4
    <3> QED BY <1>3, <1>9, <2>1, <2>2, <3>1
  <2> QED BY <1>1, <2>1, <2>3, <2>4
<1>12. RowcountIsOfTheResult'
  <2>1. Len(handed') + Len(cursor'.rows) = Len(handed) + Len(cursor.rows)
    <3>1. Len(f) \in Nat /\ Len(a) \in Nat
      BY <1>2, NoneJoined
    <3>2. Len(handed \o f) = Len(handed) + Len(f)
      BY <1>2, TwoJoined
    <3>3. Len(handed') = Len(handed) + Len(f) /\ Len(cursor'.rows) = Len(a)
      BY <1>3, <1>4, <3>2
    <3>4. Len(f) + Len(a) = Len(cursor.rows) /\ Len(handed) \in Nat
      BY <1>2
    <3>5. \A h, k, m \in Nat : h + k + m = h + (k + m)
      OBVIOUS
    <3> QED BY <3>1, <3>3, <3>4, <3>5
  <2> QED BY <1>0, <1>4, <2>1 DEF CursorKept, RowcountIsOfTheResult
<1>13. SoloKept'
  BY <1>0, SoloStep
<1> QED BY <1>4, <1>6, <1>7, <1>10, <1>11, <1>12, <1>13, CursorParts DEF CursorInv, ResultParts

\* A fetch takes the rows that the cursor has.
LEMMA FetchCollects ==
  ASSUME CursorInv, Collect
  PROVE  CursorInv'
<1>0. /\ CursorKept /\ SoloKept /\ doing \in FetchCalls /\ At = "idle"
      /\ cursor.rows # <<>>
      /\ UNCHANGED vars
      /\ UNCHANGED <<behind, told, lossy, opened, closed, read, ended, given>>
      /\ cursor' = [cursor EXCEPT !.rows = After(cursor.rows, wanted)]
  BY CursorFacts DEF Collect, Untouched, wrapper
<1> DEFINE f == First(cursor.rows, wanted)
           a == After(cursor.rows, wanted)
<1>1. /\ handed \in Seq(Rows) /\ fetched \in Seq(Rows) /\ cursor.rows \in Seq(Rows)
      /\ cursor.iter /\ cursor.columns # 0 /\ wanted \in Nat /\ wanted # 0 /\ behind = 0
      /\ Len(cursor.rows) \in Nat
      /\ doing \notin Executions
      /\ doing \notin {"header", "restore", "given", "none"} \cup WrapperCalls
  BY <1>0, RowFacts
<1>a. /\ f \in Seq(Rows) /\ a \in Seq(Rows) /\ f \o a = cursor.rows
      /\ Len(cursor.rows) <= wanted => f = cursor.rows /\ a = <<>>
  BY <1>1, FirstAndAfter
<1>2. \/ /\ handed' = handed \o (fetched \o f) /\ doing' = "none" /\ fetched' = <<>>
         /\ result' = NoRows /\ cancelled' = FALSE /\ wanted' = 0
      \/ /\ fetched' = fetched \o cursor.rows /\ wanted' = wanted - Len(cursor.rows)
         /\ Len(cursor.rows) < wanted
         /\ UNCHANGED <<handed, doing, cancelled, result>>
  <2>1. CASE Len(cursor.rows) >= wanted
    BY <2>1 DEF Collect, Delivered, CallOver
  <2>2. CASE ~(Len(cursor.rows) >= wanted)
    <3>1. Len(cursor.rows) < wanted
      BY <1>1, <2>2
    <3> QED BY <2>2, <3>1 DEF Collect
  <2> QED BY <2>1, <2>2
<1>3. cursor' = [cursor EXCEPT !.rows = a]
  BY <1>0
<1> HIDE DEF f, a
<1>4. /\ UNCHANGED <<cursor.columns, cursor.iter, cursor.count, cursor.state>>
      /\ cursor'.rows = a /\ CursorTypeOK'
  <2>1. /\ handed \o (fetched \o f) \in Seq(Rows) /\ fetched \o cursor.rows \in Seq(Rows)
    BY <1>1, <1>a, TwoJoined
  <2>2. wanted' \in Nat
    BY <1>1, <1>2
  <2> QED BY <1>0, <1>1, <1>a, <1>2, <1>3, <2>1, <2>2, NoRowsTypes
          DEF CursorKept, CursorTypeOK
<1>5. UNCHANGED <<executing, pc, call, query, stream, queries, At>>
  BY <1>0 DEF vars, At
<1>6. /\ doing' \in {doing, "none"} /\ doing' \notin Executions
      /\ doing' \notin {"header", "restore", "given"} \cup WrapperCalls
      /\ OwnStream = stream[Me] /\ OwnStream' = stream[Me]
      /\ "none" \notin FetchCalls
  BY <1>1, <1>2, <1>5 DEF Executions, WrapperCalls, OwnStream, FetchCalls
<1>7. CallsHavePlaces' /\ StatementsOwned'
  BY <1>0, <1>1, <1>4, <1>5, <1>6
     DEF CursorKept, CallsHavePlaces, StatementsOwned, WrapperCalls, Executions
<1>8. StreamKept' /\ ResultKept'
  <2>1. doing' \in FetchCalls => wanted' # 0 /\ UNCHANGED result
    BY <1>1, <1>2, <1>6
  <2>2. result.rows = <<>>
    BY <1>0 DEF CursorKept, ResultKept
  <2> QED BY <1>0, <1>1, <1>2, <1>4, <1>5, <1>6, <2>1, <2>2
          DEF CursorKept, StreamKept, ResultKept
<1>9. RowsOf(cursor.columns)' = RowsOf(cursor.columns) /\ result.rows = <<>>
  BY <1>0, <1>4 DEF RowsOf, CursorKept, ResultKept
<1>10. ~lossy => handed \o fetched \o cursor.rows = RowsOf(cursor.columns)
  <2>1. ~lossy => handed \o fetched \o cursor.rows \o <<>> = RowsOf(cursor.columns)
    BY <1>0, <1>1, <1>9 DEF CursorKept, NoRowIsLost
  <2> QED BY <1>1, <2>1, NoneJoined, TwoJoined, ThreeJoined
<1>11. NoRowIsLost'
  <2>1. CASE doing' = "none"
    <3>1. handed' = handed \o (fetched \o f) /\ fetched' = <<>>
      BY <1>0, <1>1, <1>2, <2>1
    <3>2. handed' \in Seq(Rows) /\ handed' \o a = handed \o fetched \o cursor.rows
      <4>1. /\ handed \o fetched \in Seq(Rows) /\ fetched \o f \in Seq(Rows)
            /\ handed \o (fetched \o f) \in Seq(Rows)
        BY <1>1, <1>a, TwoJoined
      <4>2. handed \o (fetched \o f) = handed \o fetched \o f
        <5>1. handed \in Seq(Rows) /\ fetched \in Seq(Rows) /\ f \in Seq(Rows)
          BY <1>1, <1>a
        <5> QED BY <5>1, ThreeJoined
      <4>3. handed \o fetched \o (f \o a) = handed \o fetched \o f \o a
        BY <1>a, <4>1, ThreeJoined
      <4> QED BY <1>a, <3>1, <4>1, <4>2, <4>3
    <3>3. handed' \o <<>> \o a \o <<>> = handed' \o a
      <4>1. handed' \o a \in Seq(Rows)
        BY <1>a, <3>2, TwoJoined
      <4> QED BY <3>2, <4>1, NoneJoined
    <3> QED BY <1>0, <1>4, <1>6, <1>9, <1>10, <2>1, <3>1, <3>2, <3>3 DEF NoRowIsLost
  <2>2. CASE doing' # "none"
    <3>1. /\ fetched' = fetched \o cursor.rows /\ UNCHANGED <<handed, result>> /\ a = <<>>
      BY <1>1, <1>a, <1>2, <2>2
    <3>2. handed \o (fetched \o cursor.rows) \o <<>> \o <<>>
            = handed \o fetched \o cursor.rows
      <4>1. handed \o (fetched \o cursor.rows) = handed \o fetched \o cursor.rows
        BY <1>1, ThreeJoined
      <4>2. handed \o fetched \o cursor.rows \in Seq(Rows)
        BY <1>1, TwoJoined
      <4> QED BY <4>1, <4>2, NoneJoined
    <3> QED BY <1>0, <1>4, <1>9, <1>10, <3>1, <3>2 DEF NoRowIsLost
  <2> QED BY <2>1, <2>2
<1>12. EndKept'
  BY <1>0, <1>1, <1>4, <1>6 DEF CursorKept, EndKept, MoreMayCome
<1>13. EndIsTheEnd' /\ RowcountIsOfTheResult'
  <2>1. ~(told /\ ~lossy)
    <3>1. told /\ ~lossy => handed \o fetched \o cursor.rows = handed
      BY <1>0, <1>10 DEF CursorKept, EndIsTheEnd
    <3> QED BY <1>0, <1>1, <3>1, NothingMore
  <2> QED BY <1>0, <1>1, <1>4, <2>1 DEF EndIsTheEnd, RowcountIsOfTheResult
<1>14. SoloKept'
  BY <1>0, SoloStep
<1> QED BY <1>4, <1>7, <1>8, <1>11, <1>12, <1>13, <1>14, CursorParts DEF CursorInv, ResultParts

\* The block that was read of a stream, or its end.
LEMMA FetchReceives ==
  ASSUME CursorInv, BlockFetched
  PROVE  CursorInv'
<1>0. /\ CursorKept /\ SoloKept /\ doing \in FetchCalls /\ At' = "idle"
      /\ cursor' = [cursor EXCEPT !.rows = cursor.rows \o result.rows]
      /\ result' = [result EXCEPT !.rows = <<>>]
      /\ UNCHANGED <<doing, behind, cancelled, fetched, wanted>>
      /\ UNCHANGED <<opened, closed, read, handed, told, lossy, given>>
      /\ \/ Resume(Me) /\ UNCHANGED ended
         \/ ReadEnd(Me) /\ ended' = ended \cup {query[Me]}
  BY CursorFacts DEF BlockFetched, wrapper, At
<1>1. /\ handed \in Seq(Rows) /\ fetched \in Seq(Rows) /\ cursor.rows \in Seq(Rows)
      /\ result.rows \in Seq(Rows)
      /\ cursor.iter /\ cursor.columns # 0 /\ result.columns = cursor.columns
      /\ wanted # 0 /\ behind = 0
      /\ OwnStream = stream[Me] /\ doing \notin Executions
      /\ doing \notin {"header", "restore", "given", "none"} \cup WrapperCalls
  BY <1>0, RowFacts
<1>2. /\ At \in {"reading", "yielding"} /\ UNCHANGED <<query, queries>> /\ SoloKept'
      /\ Resume(Me) => UNCHANGED <<executing, stream>>
      /\ ReadEnd(Me) => ~executing' /\ Exhausted(Me)
  BY <1>0, ResumeTurn, ReadEndTurn, SoloStep DEF SoloTurn, Advance
<1>3. /\ call[Me] = "fetch" /\ stream[Me] = query[Me] /\ query[Me] # 0
      /\ cursor.columns = query[Me]
  <2>1. call[Me] = "fetch"
    BY <1>0, <1>2 DEF CursorKept, CallsHavePlaces
  <2>2. stream[Me] = query[Me] /\ query[Me] # 0
    BY <1>2, <2>1, CursorFacts DEF Posture, StreamsMatch
  <2> QED BY <1>0, <1>1, <2>1, <2>2 DEF CursorKept, StreamKept
<1>4. /\ query[Me] \in 1..MaxQueries /\ query[Me] <= queries
      /\ ReadEnd(Me) => stream'[Me] = 0
  <2>1. query[Me] \in 0..MaxQueries /\ query[Me] <= queries
    BY CursorFacts
  <2>2. ReadEnd(Me) => stream'[Me] = 0
    BY <1>0, <1>2, <1>3, OnlyMe DEF Exhausted, SoloKept, TypeOK
  <2> QED BY <1>3, <2>1, <2>2
<1>5. cursor.rows \o result.rows \in Seq(Rows)
  BY <1>1, TwoJoined
<1>6. /\ UNCHANGED <<cursor.columns, cursor.iter, cursor.count, cursor.state>>
      /\ cursor'.rows = cursor.rows \o result.rows
      /\ result'.rows = <<>> /\ result'.columns = result.columns
      /\ CursorTypeOK'
  BY <1>0, <1>4, <1>5, NoRowsTypes DEF CursorKept, CursorTypeOK
<1>7. CallsHavePlaces'
  BY <1>0, <1>1 DEF CallsHavePlaces, WrapperCalls, Executions
<1>8. StatementsOwned'
  <2>1. executing' => Resume(Me)
    BY <1>0, <1>2
  <2> QED BY <1>0, <1>1, <1>2, <1>3, <1>6, <2>1 DEF StatementsOwned
<1>9. OwnStream' = stream'[Me]
  BY <1>0, <1>1 DEF OwnStream
<1>10. StreamKept'
  <2>1. CASE Resume(Me) /\ UNCHANGED ended
    BY <1>0, <1>1, <1>2, <1>6, <1>9, <2>1 DEF CursorKept, StreamKept
  <2>2. CASE ReadEnd(Me)
    BY <1>0, <1>1, <1>2, <1>4, <1>6, <1>9, <2>2 DEF CursorKept, StreamKept
  <2> QED BY <1>0, <2>1, <2>2
<1>11. ResultKept'
  <2>1. \A q \in 1..MaxQueries : q > queries => read[q] = 0 /\ q \notin ended'
    BY <1>0, <1>4, CursorFacts DEF CursorKept, ResultKept
  <2> QED BY <1>0, <1>1, <1>2, <1>6, <2>1 DEF CursorKept, ResultKept
<1>12. NoRowIsLost'
  <2>1. handed \o fetched \in Seq(Rows)
    BY <1>1, TwoJoined
  <2>2. /\ handed \o fetched \o (cursor.rows \o result.rows)
             = handed \o fetched \o cursor.rows \o result.rows
        /\ handed \o fetched \o (cursor.rows \o result.rows) \in Seq(Rows)
    BY <1>1, <1>5, <2>1, TwoJoined, ThreeJoined
  <2>3. handed \o fetched \o (cursor.rows \o result.rows) \o <<>>
          = handed \o fetched \o cursor.rows \o result.rows
    BY <2>2, NoneJoined
  <2> QED BY <1>0, <1>6, <2>3 DEF CursorKept, NoRowIsLost, RowsOf
<1>13. EndKept'
  <2>1. Resume(Me) => MoreMayCome'
    BY <1>2, <1>3, <1>9 DEF MoreMayCome
  <2>2. ReadEnd(Me) /\ ended' = ended \cup {query[Me]} => cursor'.columns \in ended'
    BY <1>3, <1>6
  <2> QED BY <1>0, <1>1, <1>6, <2>1, <2>2 DEF EndKept
<1>14. EndIsTheEnd' /\ RowcountIsOfTheResult'
  <2>1. ~(told /\ ~lossy)
    BY <1>0, <1>1, <1>3 DEF CursorKept, EndIsTheEnd, StreamKept
  <2> QED BY <1>0, <1>1, <1>6, <2>1 DEF EndIsTheEnd, RowcountIsOfTheResult
<1> QED BY <1>2, <1>6, <1>7, <1>8, <1>10, <1>11, <1>12, <1>13, <1>14, CursorParts
        DEF CursorInv, ResultParts

LEMMA FetchEnds ==
  ASSUME CursorInv, StreamOver
  PROVE  CursorInv'
<1>0. /\ CursorKept /\ SoloKept /\ doing \in FetchCalls /\ doing' = "none" /\ At = "idle"
      /\ cursor.rows = <<>> /\ stream[Me] = 0
      /\ handed' = handed \o fetched /\ told' = TRUE
      /\ result' = NoRows /\ cancelled' = FALSE /\ fetched' = <<>> /\ wanted' = 0
      /\ UNCHANGED vars
      /\ UNCHANGED <<cursor, behind, lossy, opened, closed, read, ended, given>>
  BY CursorFacts DEF StreamOver, Delivered, CallOver, Untouched, wrapper
<1>1. /\ handed \in Seq(Rows) /\ fetched \in Seq(Rows)
      /\ cursor.iter /\ cursor.columns # 0 /\ behind = 0
      /\ OwnStream = stream[Me] /\ doing \notin Executions
      /\ doing \notin {"header", "restore", "given", "none"} \cup WrapperCalls
  BY <1>0, RowFacts
<1>2. UNCHANGED <<executing, pc, call, query, stream, queries, At>> /\ SoloKept'
  BY <1>0, SoloStep DEF vars, At
<1>3. /\ doing' \notin FetchCalls /\ doing' \notin Executions /\ doing' \notin WrapperCalls
      /\ result.rows = <<>>
  BY <1>0 DEF FetchCalls, Executions, WrapperCalls, CursorKept, ResultKept
<1>4. handed \o fetched \in Seq(Rows)
  BY <1>1, TwoJoined
<1>5. CursorTypeOK' /\ CallsHavePlaces'
  BY <1>0, <1>2, <1>3, <1>4, NoRowsTypes
     DEF CursorKept, CursorTypeOK, CallsHavePlaces, WrapperCalls
<1>6. StatementsOwned' /\ StreamKept' /\ ResultKept'
  BY <1>0, <1>1, <1>2, <1>3
     DEF CursorKept, StatementsOwned, StreamKept, ResultKept, OwnStream
<1>7. /\ ~lossy => handed \o fetched = RowsOf(cursor.columns)
      /\ ~lossy => cursor.columns \in ended
      /\ RowsOf(cursor.columns)' = RowsOf(cursor.columns)
  <2>1. ~lossy => handed \o fetched \o <<>> \o <<>> = RowsOf(cursor.columns)
    BY <1>0, <1>1, <1>3 DEF CursorKept, NoRowIsLost
  <2>2. handed \o fetched \o <<>> \o <<>> = handed \o fetched
    BY <1>4, NoneJoined
  <2>3. ~lossy => cursor.columns \in ended
    BY <1>0, <1>1 DEF CursorKept, EndKept, MoreMayCome
  <2> QED BY <1>0, <2>1, <2>2, <2>3 DEF RowsOf
<1>8. NoRowIsLost'
  <2>1. handed \o fetched \o <<>> \o <<>> \o <<>> = handed \o fetched
    BY <1>4, NoneJoined
  <2> QED BY <1>0, <1>3, <1>7, <2>1 DEF NoRowIsLost
<1>9. EndKept' /\ EndIsTheEnd' /\ RowcountIsOfTheResult'
  BY <1>0, <1>1, <1>7 DEF EndKept, EndIsTheEnd, RowcountIsOfTheResult
<1> QED BY <1>2, <1>5, <1>6, <1>8, <1>9, CursorParts DEF CursorInv, ResultParts

-----------------------------------------------------------------------------
(* A call that goes on *)

\* A block that was received of q joins the result.
LEMMA BlockStored ==
  ASSUME CursorInv, Stored, NEW q \in 1..MaxQueries, Origin(Me) = q
  PROVE  \E n \in Nat :
           /\ read' = [read EXCEPT ![q] = read[q] + n]
           /\ result' = [columns |-> IF result.columns = 0 THEN q ELSE result.columns,
                         rows |-> result.rows \o Run(q, read[q], n)]
           /\ read[q] \in Nat /\ Run(q, read[q], n) \in Seq(Rows)
<1>1. PICK n \in 0..(IF result.columns = 0 THEN 0 ELSE MaxRows - read[q]) :
        /\ result' = [columns |-> IF result.columns = 0 THEN q ELSE result.columns,
                      rows |-> result.rows \o [i \in 1..n |-> <<q, read[q] + i>>]]
        /\ read' = [read EXCEPT ![q] = @ + n]
  BY DEF Stored
<1>2. n \in Nat /\ read[q] \in Nat /\ q \in 0..MaxQueries
  BY <1>1, CursorFacts, CursorAssumption, SessionAssumption DEF CursorKept, CursorTypeOK
<1>3. Run(q, read[q], n) \in Seq(Rows)
  BY <1>2, RunTypes
<1> QED BY <1>1, <1>2, <1>3 DEF Run

LEMMA CursorGoesOn ==
  ASSUME CursorInv, Continue
  PROVE  CursorInv'
<1> DEFINE q == query[Me]
           stores == At = "reading" /\ At' = "yielding" /\ doing # "given"
<1>0. /\ CursorKept /\ SoloKept /\ At # "idle" /\ At' # "idle" /\ doing # "none"
      /\ Advance(Me) \/ Cancels
      /\ IF stores THEN Stored ELSE UNCHANGED <<result, read>>
      /\ UNCHANGED <<cursor, doing, behind, fetched, wanted>>
      /\ UNCHANGED <<opened, closed, ended, handed, told, lossy, given>>
      /\ cancelled' \in BOOLEAN
  BY CursorFacts DEF Continue, wrapper, At, CursorKept, CursorTypeOK
<1>1. /\ UNCHANGED <<call, query, queries>>
      /\ At # "closing" /\ At' \notin {"idle", "locking", "granted", "pinging"}
      /\ At \in {"reading", "yielding", "pinging"} => At' \in {"reading", "yielding", "closing"}
      /\ At = "pinging" => At' = "closing"
      /\ call[Me] = "connect" /\ At \in {"dialing", "greeting"} => At' \in {"greeting", "closing"}
      /\ At' = "reading" => call[Me] = "execute"
      /\ At' = "yielding" =>
           At = "reading" /\ executing /\ executing' /\ Origin(Me) = q
      /\ At' = "closing" /\ At \in {"reading", "yielding"} => Exhausted(Me)
      /\ At' # "closing" \/ At \notin {"reading", "yielding"} =>
           \/ UNCHANGED stream
           \/ Exhausted(Me) /\ At \in {"sampling", "draining"}
  BY <1>0, OnItsWay
<1>2. SoloKept'
  BY <1>0, SoloStep DEF SoloTurn
<1>3. /\ call[Me] # "fetch" => UNCHANGED stream
      /\ call[Me] = "fetch" /\ Exhausted(Me) => stream'[Me] = 0
      /\ stream'[Me] \in {stream[Me], 0}
  BY <1>0, <1>1, OnlyMe DEF Exhausted, SoloKept, TypeOK
<1>4. ASSUME doing \in FetchCalls \cup {"header", "given"}
      PROVE  /\ call[Me] = "fetch" /\ At \in {"reading", "yielding"}
             /\ At' \in {"yielding", "closing"}
             /\ At' = "closing" => stream'[Me] = 0
             /\ At' = "yielding" => UNCHANGED stream /\ executing /\ executing'
  <2>1. call[Me] = "fetch" /\ At \in {"reading", "yielding"}
    BY <1>0, <1>1, <1>4 DEF CursorKept, CallsHavePlaces
  <2> QED BY <1>1, <1>3, <2>1
<1>5. ASSUME stores
      PROVE  /\ q \in 1..MaxQueries /\ q <= queries /\ Origin(Me) = q
             /\ doing \in FetchCalls \cup Executions
             /\ doing \in FetchCalls => cursor.columns = q /\ stream[Me] = q
  <2>1. doing \in FetchCalls \cup Executions
    BY <1>0, <1>5 DEF CursorKept, CursorTypeOK, CallsHavePlaces, Executions, WrapperCalls
  <2>2. Origin(Me) = q /\ q \in 0..MaxQueries /\ q <= queries
    BY <1>1, <1>5, CursorFacts
  <2>3. CASE doing \in Executions
    BY <2>1, <2>2, <2>3, ExecutionFacts
  <2>4. CASE doing \in FetchCalls
    <3>1. stream[Me] = q /\ q # 0
      BY <1>4, <1>5, <2>4, CursorFacts DEF Posture, StreamsMatch
    <3>2. cursor.columns = q
      BY <1>0, <2>4, <3>1, RowFacts DEF CursorKept, StreamKept
    <3> QED BY <2>1, <2>2, <2>4, <3>1, <3>2
  <2> QED BY <2>1, <2>3, <2>4
<1>6. PICK n \in Nat :
        stores =>
          /\ read' = [read EXCEPT ![q] = read[q] + n]
          /\ result' = [columns |-> IF result.columns = 0 THEN q ELSE result.columns,
                        rows |-> result.rows \o Run(q, read[q], n)]
          /\ read[q] \in Nat /\ Run(q, read[q], n) \in Seq(Rows)
  <2>1. ASSUME stores
        PROVE  \E n \in Nat :
                 /\ read' = [read EXCEPT ![q] = read[q] + n]
                 /\ result' = [columns |-> IF result.columns = 0 THEN q ELSE result.columns,
                               rows |-> result.rows \o Run(q, read[q], n)]
                 /\ read[q] \in Nat /\ Run(q, read[q], n) \in Seq(Rows)
    BY <1>0, <1>5, <2>1, BlockStored
  <2>2. 0 \in Nat
    OBVIOUS
  <2> QED BY <2>1, <2>2
<1> DEFINE block == Run(q, read[q], n)
<1> HIDE DEF q, stores, block
<1>7. /\ result.rows \in Seq(Rows) /\ result.columns \in 0..MaxQueries
      /\ read \in [1..MaxQueries -> Nat]
      /\ ~stores => UNCHANGED <<result, read>>
      /\ stores =>
           /\ result'.columns = (IF result.columns = 0 THEN q ELSE result.columns)
           /\ result'.rows = result.rows \o block /\ result'.rows \in Seq(Rows)
           /\ read[q] \in Nat /\ read'[q] = read[q] + n
           /\ \A p \in 1..MaxQueries : p # q => read'[p] = read[p]
  <2>1. /\ result.rows \in Seq(Rows) /\ result.columns \in 0..MaxQueries
        /\ read \in [1..MaxQueries -> Nat]
        /\ ~stores => UNCHANGED <<result, read>>
    BY <1>0 DEF CursorKept, CursorTypeOK
  <2>2. stores => result.rows \o block \in Seq(Rows)
    BY <1>6, <2>1, TwoJoined DEF block
  <2>3. CASE stores
    <3>1. /\ q \in 1..MaxQueries
          /\ read' = [read EXCEPT ![q] = read[q] + n]
          /\ result' = [columns |-> IF result.columns = 0 THEN q ELSE result.columns,
                        rows |-> result.rows \o block]
          /\ read[q] \in Nat
      BY <1>5, <1>6, <2>3 DEF block
    <3>2. /\ result'.columns = (IF result.columns = 0 THEN q ELSE result.columns)
          /\ result'.rows = result.rows \o block
      BY <3>1
    <3>3. read'[q] = read[q] + n /\ \A p \in 1..MaxQueries : p # q => read'[p] = read[p]
      BY <2>1, <3>1
    <3> QED BY <2>1, <2>2, <2>3, <3>1, <3>2, <3>3
  <2> QED BY <2>1, <2>3
<1>8. CursorTypeOK'
  <2>1. result' \in [columns : 0..MaxQueries, rows : Seq(Rows)]
        /\ read' \in [1..MaxQueries -> Nat]
    <3>1. CASE stores
      <4>1. q \in 0..MaxQueries /\ read[q] + n \in Nat
        BY <1>5, <1>7, <3>1
      <4>2. result.rows \o block \in Seq(Rows)
        BY <1>7, <3>1
      <4> QED BY <1>6, <1>7, <3>1, <4>1, <4>2 DEF block
    <3>2. CASE ~stores
      BY <1>0, <1>7, <3>2 DEF CursorKept, CursorTypeOK
    <3> QED BY <3>1, <3>2
  <2> QED BY <1>0, <2>1 DEF CursorKept, CursorTypeOK
<1>9. CallsHavePlaces'
  <2>1. At' \notin {"idle", "locking", "granted", "pinging"}
    BY <1>1
  <2>2. At \notin {"idle", "closing"}
    BY <1>0, <1>1
  <2> QED BY <1>0, <1>1, <1>4, <2>1, <2>2 DEF CursorKept, CallsHavePlaces
<1>10. StatementsOwned'
  <2>1. doing \notin {"none", "restore"}
    BY <1>0 DEF CursorKept, CallsHavePlaces
  <2>2. CASE doing \in FetchCalls \cup {"header", "given"}
    BY <1>0, <1>1, <1>4, <2>1, <2>2 DEF CursorKept, StatementsOwned, FetchCalls
  <2>3. CASE doing \notin FetchCalls \cup {"header", "given"}
    BY <1>0, <2>1, <2>3 DEF StatementsOwned
  <2> QED BY <2>2, <2>3
<1>11. cursor.iter =>
         /\ OwnStream' \in {OwnStream, 0}
         /\ OwnStream' = OwnStream \/ (doing \in FetchCalls /\ At' = "closing")
         /\ OwnStream # OwnStream' => doing \in FetchCalls
  <2>1. CASE doing \in {"header", "restore"}
    BY <1>0, <2>1 DEF OwnStream
  <2>2. CASE doing \in FetchCalls
    BY <1>0, <1>4, <2>2 DEF OwnStream, FetchCalls
  <2>3. CASE doing \notin FetchCalls \cup {"header", "restore", "given"}
    <3>1. call[Me] # "fetch" \/ At \notin {"sampling", "draining", "reading", "yielding"}
      BY <1>0, <2>3
         DEF CursorKept, CursorTypeOK, CallsHavePlaces, Executions, WrapperCalls, Queries
    <3>2. UNCHANGED stream
      BY <1>1, <1>3, <3>1
    <3> QED BY <1>0, <2>3, <3>2 DEF OwnStream
  <2>4. CASE doing = "given"
    BY <1>0, <2>4 DEF CursorKept, StreamKept
  <2> QED BY <2>1, <2>2, <2>3, <2>4
<1>12. StreamKept'
  <2>1. doing \in FetchCalls => result'.columns = result.columns
    BY <1>7, RowFacts
  <2> QED BY <1>0, <1>11, <2>1 DEF CursorKept, StreamKept
<1>13. doing \in Executions =>
         /\ result'.rows = RowsOf(q)'
         /\ result'.columns = 0 => read'[q] = 0
         /\ result'.columns # 0 \/ At' = "yielding" => result'.columns = q
         /\ doing # "header" /\ call[Me] # "execute" => result' = NoRows
  <2> SUFFICES ASSUME doing \in Executions
               PROVE  /\ result'.rows = RowsOf(q)'
                      /\ result'.columns = 0 => read'[q] = 0
                      /\ result'.columns # 0 \/ At' = "yielding" => result'.columns = q
                      /\ doing # "header" /\ call[Me] # "execute" => result' = NoRows
    OBVIOUS
  <2>1. /\ result.rows = RowsOf(q) /\ q \in 1..MaxQueries
        /\ result.columns \in {0, q}
        /\ result.columns = 0 => read[q] = 0
        /\ doing # "header" /\ call[Me] # "execute" => result = NoRows
    BY <1>0, ExecutionFacts DEF q, CursorKept, ResultKept
  <2>2. CASE stores
    <3>1. /\ result'.columns = q /\ q # 0 /\ read[q] \in Nat /\ q \in 0..MaxQueries
          /\ read'[q] = read[q] + n
      BY <1>5, <1>7, <2>1, <2>2
    <3>2. UNCHANGED q
      BY <1>1 DEF q
    <3>3. RowsOf(q) = Run(q, 0, read[q]) /\ RowsOf(q)' = Run(q, 0, read[q] + n)
      BY <3>1, <3>2 DEF RowsOf, Run
    <3>4. result'.rows = RowsOf(q)'
      <4>1. Run(q, 0, read[q] + n) = Run(q, 0, read[q]) \o block
        BY <3>1, RunGrows DEF block
      <4> QED BY <1>7, <2>1, <2>2, <3>3, <4>1
    <3>5. call[Me] \in {"execute", "fetch"}
      BY <2>2, CursorFacts DEF stores, Posture, CallsMatch
    <3>6. doing # "header" => call[Me] # "fetch"
      BY <1>0 DEF CursorKept, CallsHavePlaces, Executions, Queries
    <3> QED BY <3>1, <3>4, <3>5, <3>6
  <2>3. CASE ~stores
    <3>1. doing # "given"
      BY DEF Executions
    <3>2. UNCHANGED <<result, read, q>> /\ At' # "yielding"
      BY <1>1, <1>7, <2>3, <3>1 DEF q, stores
    <3> QED BY <2>1, <3>2 DEF RowsOf
  <2> QED BY <2>2, <2>3
<1>14. ResultKept'
  <2>1. doing \in FetchCalls => At' \notin {"idle", "reading"}
    BY <1>4
  <2>2. doing \notin FetchCalls \cup Executions => result' = NoRows
    BY <1>0, <1>5, <1>7 DEF CursorKept, ResultKept
  <2>3. \A p \in 1..MaxQueries : p > queries => read'[p] = 0 /\ p \notin ended \cup given
    <3>1. \A p \in 1..MaxQueries : p > queries => read[p] = 0 /\ p \notin ended \cup given
      BY <1>0 DEF CursorKept, ResultKept
    <3>2. stores => \A p \in 1..MaxQueries : p > queries => p # q
      BY <1>5, CursorFacts
    <3> QED BY <1>7, <3>1, <3>2
  <2>4. q = query[Me] /\ q' = query'[Me] /\ q' = q
    BY <1>1 DEF q
  <2>5. doing \in Executions =>
          cursor.columns < q /\ q = queries /\ q \notin ended \cup given
    BY ExecutionFacts DEF q
  <2>6. (doing \notin FetchCalls => fetched = <<>>) /\ cursor.columns <= queries
    BY <1>0 DEF CursorKept, ResultKept
  <2>7. RowsOf(query[Me])' = RowsOf(q)'
    BY <2>4 DEF RowsOf
  <2> QED BY <1>0, <1>1, <1>13, <2>1, <2>2, <2>3, <2>4, <2>5, <2>6, <2>7 DEF ResultKept
<1>15. ResultParts'
  <2>1. CASE stores /\ doing \in FetchCalls
    <3>1. /\ handed \in Seq(Rows) /\ fetched \in Seq(Rows) /\ cursor.rows \in Seq(Rows)
          /\ cursor.iter /\ cursor.columns = q /\ q # 0 /\ stream[Me] = q
          /\ OwnStream = q /\ q \in 1..MaxQueries /\ result.rows = <<>>
      BY <1>0, <1>5, <2>1, RowFacts DEF stores, CursorKept, ResultKept
    <3>2. OwnStream' = OwnStream
      BY <1>11, <2>1, <3>1 DEF stores
    <3>3. RowsOf(q)' = RowsOf(q) \o block /\ block \in Seq(Rows)
      <4>1. /\ read[q] \in Nat /\ q \in 0..MaxQueries
            /\ read'[q] = read[q] + n /\ UNCHANGED q
        BY <1>1, <1>7, <2>1, <3>1 DEF q
      <4>2. RowsOf(q) = Run(q, 0, read[q]) /\ RowsOf(q)' = Run(q, 0, read[q] + n)
        BY <4>1 DEF RowsOf, Run
      <4> QED BY <4>1, <4>2, RunGrows, RunTypes DEF block
    <3>4. result'.rows = block
      BY <1>7, <2>1, <3>1, <3>3, NoneJoined
    <3>5. NoRowIsLost'
      <4>1. ~lossy => handed \o fetched \o cursor.rows \o <<>> = RowsOf(q)
        BY <1>0, <2>1, <3>1 DEF CursorKept, NoRowIsLost
      <4>2. handed \o fetched \o cursor.rows \in Seq(Rows)
        BY <3>1, TwoJoined
      <4>3. ~lossy => handed \o fetched \o cursor.rows = RowsOf(q)
        BY <4>1, <4>2, NoneJoined
      <4>4. RowsOf(cursor.columns)' = RowsOf(q)'
        BY <1>0, <1>1, <3>1 DEF RowsOf, q
      <4> QED BY <1>0, <2>1, <3>3, <3>4, <4>3, <4>4 DEF NoRowIsLost
    <3>6. ~(told /\ ~lossy)
      BY <1>0, <3>1 DEF CursorKept, EndIsTheEnd, StreamKept
    <3>7. EndKept' /\ EndIsTheEnd' /\ RowcountIsOfTheResult'
      BY <1>0, <3>1, <3>2, <3>6 DEF EndKept, MoreMayCome, EndIsTheEnd, RowcountIsOfTheResult
    <3> QED BY <3>5, <3>7 DEF ResultParts
  <2>2. CASE ~(stores /\ doing \in FetchCalls)
    <3>1. UNCHANGED InBlock
      BY <1>0, <1>7, <2>2 DEF InBlock
    <3>2. cursor.columns # 0 => UNCHANGED read[cursor.columns]
      <4>1. CASE stores
        <5>1. doing \in Executions
          BY <1>5, <2>2, <4>1
        <5>2. cursor.columns < q /\ cursor.columns \in 0..MaxQueries
          BY <5>1, ExecutionFacts DEF q
        <5>3. cursor.columns # 0 => cursor.columns \in 1..MaxQueries /\ cursor.columns # q
          BY <1>5, <4>1, <5>2
        <5> QED BY <1>0, <1>7, <4>1, <5>3
      <4>2. CASE ~stores
        BY <1>0, <1>7, <4>2
      <4> QED BY <4>1, <4>2
    <3>3. cursor.iter /\ MoreMayCome => MoreMayCome'
      BY <1>0, <1>1, <1>11 DEF MoreMayCome
    <3> QED BY <1>0, <3>1, <3>2, <3>3, SameResult
  <2> QED BY <2>1, <2>2
<1> QED BY <1>2, <1>8, <1>9, <1>10, <1>12, <1>14, <1>15, CursorParts DEF CursorInv

-----------------------------------------------------------------------------
(* Every step *)

LEMMA CursorBegins ==
  ASSUME CursorInit
  PROVE  CursorInv
<1>1. /\ Init /\ doing = "none" /\ behind = 0 /\ cancelled = FALSE /\ result = NoRows
      /\ cursor = [state |-> "ready", streaming |-> FALSE, columns |-> 0,
                   count |-> NoCount, iter |-> FALSE, rows |-> <<>>]
      /\ fetched = <<>> /\ wanted = 0 /\ opened = FALSE /\ closed = FALSE
      /\ read = [q \in 1..MaxQueries |-> 0] /\ ended = {}
      /\ handed = <<>> /\ told = FALSE /\ lossy = FALSE /\ given = {}
  BY DEF CursorInit
<1>2. SoloKept /\ At = "idle" /\ executing = FALSE /\ queries = 0
  BY <1>1, SoloInit, OnlyMe DEF Init, At
<1>3. /\ doing \notin FetchCalls /\ doing \notin Executions
      /\ doing \notin {"header", "restore", "given"} \cup WrapperCalls
  BY <1>1 DEF FetchCalls, Executions, WrapperCalls
<1>4. CursorTypeOK
  <2>1. NoCount \in [of : 0..MaxQueries, n : Int] /\ 0 \in 0..MaxQueries
    BY SessionAssumption DEF NoCount
  <2> QED BY <1>1, <2>1, NoRowsTypes DEF CursorTypeOK
<1>5. CallsHavePlaces /\ StatementsOwned /\ StreamKept /\ ResultKept
  BY <1>1, <1>2, <1>3 DEF CallsHavePlaces, StatementsOwned, StreamKept, ResultKept, WrapperCalls
<1>6. ResultParts
  BY <1>1 DEF ResultParts, EndKept, NoRowIsLost, EndIsTheEnd, RowcountIsOfTheResult
<1> QED BY <1>2, <1>4, <1>5, <1>6 DEF CursorInv, CursorKept, ResultParts

LEMMA CursorStep ==
  ASSUME CursorInv, [CursorNext]_all_vars
  PROVE  CursorInv'
<1>1. CASE Continue
  BY <1>1, CursorGoesOn
<1>2. CASE Execute \/ Executed \/ Inserted \/ Streamed \/ Headed \/ ExecuteRaises
  BY <1>2, CursorExecutes, ExecutionEnds, ExecutionStreams, StreamBegins, ExecutionFails
<1>3. CASE Restore \/ NextBlock \/ CallerReads \/ CallerRead
  BY <1>3, CursorRestores, CursorAsks, CallerBegins, CallerEnds
<1>4. CASE FetchBuffered \/ FetchMismatched \/ FetchStreamed
  BY <1>4, BufferedFetches, CursorMismatches, CursorFetches
<1>5. CASE Collect \/ BlockFetched \/ StreamOver \/ FetchRaises
  BY <1>5, FetchCollects, FetchReceives, FetchEnds, FetchFails
<1>6. CASE SetStreamResults \/ CloseCursor
  BY <1>6, CursorMarked
<1>7. CASE OpenConnection \/ PingConnection \/ RefreshUnpinged \/ Redials
  BY <1>7, ConnectionBegins
<1>8. CASE PingFalse \/ Reconnected
  BY <1>8, ConnectionGoesOn
<1>9. CASE \/ Opened \/ CloseConnection \/ ConnectionClosed \/ TerminateConnection
           \/ WrapperEnds
  BY <1>9, ConnectionEnds
<1>10. CASE Environment \/ UNCHANGED all_vars
  BY <1>10, CursorEnvironment
<1> QED BY <1>1, <1>2, <1>3, <1>4, <1>5, <1>6, <1>7, <1>8, <1>9, <1>10 DEF CursorNext

\* The inductive invariant: what Session's calls are to one task that may be
\* cancelled anywhere, and whose rows are where.
THEOREM CursorInvariant == CursorSpec => []CursorInv
<1>1. CursorInit => CursorInv
  BY CursorBegins
<1>2. CursorInv /\ [CursorNext]_all_vars => CursorInv'
  BY CursorStep
<1> QED BY <1>1, <1>2, PTL DEF CursorSpec

-----------------------------------------------------------------------------
(* Results *)

\* The values of the cursor's variables are of their types, and every query's number
\* is one that was given.
THEOREM CursorTypeCorrect == CursorSpec => [](TypeOK /\ CursorTypeOK)
<1>1. CursorInv => TypeOK /\ CursorTypeOK
  BY DEF CursorInv, SoloKept, CursorKept
<1> QED BY <1>1, CursorInvariant, PTL

\* fetchone(), fetchmany() and fetchall() hand out every row of a result, once, in
\* its place, whatever is cancelled, refused or closed in between.
THEOREM NoRowIsLostCorrect == CursorSpec => []NoRowIsLost
<1>1. CursorInv => NoRowIsLost
  BY DEF CursorInv, CursorKept
<1> QED BY <1>1, CursorInvariant, PTL

\* None, or fewer rows than were asked for, means that the server has sent the end.
THEOREM EndIsTheEndCorrect == CursorSpec => []EndIsTheEnd
<1>1. CursorInv => EndIsTheEnd
  BY DEF CursorInv, CursorKept
<1> QED BY <1>1, CursorInvariant, PTL

\* rowcount is the number of rows of the result that the cursor has, not of a
\* statement that failed after it.
THEOREM RowcountCorrect == CursorSpec => []RowcountIsOfTheResult
<1>1. CursorInv => RowcountIsOfTheResult
  BY DEF CursorInv, CursorKept
<1> QED BY <1>1, CursorInvariant, PTL

\* PartiallyConsumedQueryError is raised only while the rest can be read, by a fetch
\* or from the result that the caller was given.
THEOREM UnfetchedIsReachableCorrect == CursorSpec => []UnfetchedIsReachable
<1>1. CursorInv => UnfetchedIsReachable
  <2>1. SUFFICES ASSUME CursorInv, executing, Free PROVE
                   /\ stream[Me] = query[Me] /\ query[Me] # 0
                   /\ \/ query[Me] \in given
                      \/ cursor.iter /\ cursor.columns = query[Me] /\ cursor.state # "ready"
    BY DEF UnfetchedIsReachable
  <2>2. CursorKept /\ query[Me] # 0 /\ At = "idle" /\ doing = "none"
    BY <2>1, CursorFacts DEF Free, Posture, StreamsMatch
  <2> QED BY <2>1, <2>2 DEF CursorKept, StatementsOwned, StreamKept
<1> QED BY <1>1, CursorInvariant, PTL

-----------------------------------------------------------------------------
(* The connection under a cursor *)

\* As NoSocketLeakCorrect of SessionProofs, with connect(), _refresh() and cancelled
\* pings among the calls.
THEOREM CursorLeaksNoSocket == CursorSpec => []NoSocketLeak
<1>1. CursorInv => NoSocketLeak
  BY CursorFacts DEF Posture
<1> QED BY <1>1, CursorInvariant, PTL

\* The flag that refuses the next statement can always be cleared by close().
THEOREM CursorFlagCanBeCleared == CursorSpec => []FlagCanBeCleared
<1>1. CursorInv => FlagCanBeCleared
  BY CursorFacts DEF FlagCanBeCleared
<1> QED BY <1>1, CursorInvariant, PTL

\* One statement at a time is with the server, also when the answer of a ping that
\* was cancelled is still under way.
THEOREM CursorSingleInFlight == CursorSpec => []SingleInFlight
<1>1. ASSUME CursorInv, NEW s \in Sockets
      PROVE  Cardinality(Statements(s)) + (IF serving[s] = Nothing THEN 0 ELSE 1) <= 1
  <2>0. /\ TypeOK /\ Posture /\ Line /\ DeadIsSilent
    BY <1>1, CursorFacts DEF SoloKept
  <2>1. Cardinality({}) = 0 /\ \A k : Cardinality({k}) = 1
    BY FS_EmptySet, FS_Singleton
  <2>2. CASE link[s] \notin {"up", "lost"}
    <3>1. sent[s] = <<>> /\ serving[s] = Nothing
      BY <2>0, <2>2 DEF DeadIsSilent
    <3>2. Statements(s) = {}
      BY <3>1 DEF Statements
    <3> QED BY <2>1, <3>1, <3>2
  <2>3. CASE link[s] \in {"up", "lost"}
    <3>1. socket = s /\ socket # 0 /\ link[socket] # "shut"
      BY <2>0, <2>3 DEF Posture, NoSocketLeak, Sockets
    <3> DEFINE c == Talk(socket)
               q == query[Me]
    <3>2. c.sent = sent[s] /\ c.serving = serving[s]
      BY <3>1 DEF Talk
    <3>3. Strays(c) \/ QueryLine(c, q) \/ SampleLine(c, q) \/ DrainLine(c, q)
      BY <2>0, <3>1 DEF Line
    <3> HIDE DEF c, q
    <3>4. ASSUME c.serving = Nothing,
                 \A i \in DOMAIN c.sent : i # Len(c.sent) => StrayRequest(c.sent[i])
          PROVE  Cardinality(Statements(s)) + (IF serving[s] = Nothing THEN 0 ELSE 1) <= 1
      <4>1. Statements(s) \subseteq {Len(sent[s])}
        BY <3>2, <3>4 DEF Statements, StrayRequest
      <4>2. Statements(s) = {} \/ Statements(s) = {Len(sent[s])}
        BY <4>1
      <4>3. Cardinality({}) = 0 /\ Cardinality({Len(sent[s])}) = 1
        BY FS_EmptySet, FS_Singleton
      <4>4. Cardinality(Statements(s)) \in {0, 1}
        BY <4>2, <4>3
      <4>5. serving[s] = Nothing
        BY <3>2, <3>4
      <4> QED BY <4>4, <4>5
    <3>5. ASSUME \A i \in DOMAIN c.sent : c.sent[i].kind \notin {"query", "insert"}
          PROVE  Cardinality(Statements(s)) + (IF serving[s] = Nothing THEN 0 ELSE 1) <= 1
      <4>1. Statements(s) = {}
        BY <3>2, <3>5 DEF Statements
      <4> QED BY <2>1, <4>1
    <3>6. ASSUME c.sent = <<>> PROVE \A i \in DOMAIN c.sent : c.sent[i].kind \notin {"query", "insert"}
      BY <3>6
    <3>7. ASSUME c.sent = <<Message("rows", q)>>
          PROVE  \A i \in DOMAIN c.sent : c.sent[i].kind \notin {"query", "insert"}
      BY <3>7 DEF Message
    <3> QED BY <3>3, <3>4, <3>5, <3>6, <3>7
            DEF Strays, QueryLine, SampleLine, DrainLine, Asked
  <2> QED BY <2>2, <2>3
<1>2. CursorInv => SingleInFlight
  BY <1>1 DEF SingleInFlight
<1> QED BY <1>2, CursorInvariant, PTL

\* Who marks the connection.
LEMMA MarksKept ==
  ASSUME CursorNext
  PROVE  \/ UNCHANGED <<opened, closed>>
         \/ doing \in {"none", "close"}
         \/ opened' = TRUE /\ closed' = FALSE
<1>1. CASE Continue \/ Execute \/ Executed \/ Inserted \/ Streamed \/ NextBlock
           \/ Headed \/ ExecuteRaises \/ Restore
  BY <1>1 DEF Continue, Execute, Executed, Inserted, Streamed, NextBlock, Headed,
              ExecuteRaises, Restore, wrapper
<1>2. CASE FetchBuffered \/ FetchMismatched \/ FetchStreamed \/ Collect \/ BlockFetched
           \/ StreamOver \/ FetchRaises \/ CallerReads \/ CallerRead
           \/ SetStreamResults \/ CloseCursor \/ Environment
  BY <1>2 DEF CallerReads, CallerRead, FetchBuffered, FetchMismatched, FetchStreamed, Collect, BlockFetched,
              StreamOver, FetchRaises, SetStreamResults, CloseCursor, Environment,
              Untouched, wrapper
<1>3. CASE OpenConnection \/ PingConnection \/ RefreshUnpinged \/ PingFalse \/ Reconnected
           \/ Redials \/ WrapperEnds
  BY <1>3 DEF OpenConnection, PingConnection, RefreshUnpinged, PingFalse, Reconnected,
              Redials, WrapperEnds, wrapper
<1>4. CASE Opened \/ CloseConnection \/ ConnectionClosed \/ TerminateConnection
  BY <1>4 DEF Opened, CloseConnection, ConnectionClosed, TerminateConnection, Free, Marks
<1> QED BY <1>1, <1>2, <1>3, <1>4 DEF CursorNext

\* _refresh() that returns has a socket, no statement in its way, and the marks of
\* an open connection.
THEOREM RefreshGivesAConnectionCorrect == CursorSpec => RefreshGivesAConnection
<1>1. ASSUME CursorInv, [CursorNext]_all_vars, Refreshed
      PROVE  opened' /\ ~closed' /\ ~executing' /\ Connected'
  <2>1. /\ CursorKept /\ TypeOK /\ Posture
        /\ doing \in {"refresh", "redial"} /\ opened /\ ~closed
        /\ opened \in BOOLEAN /\ closed \in BOOLEAN
        /\ PingAnswered(Me) \/ Greeted(Me)
    BY <1>1, CursorFacts DEF Refreshed, CursorKept, CallsHavePlaces
  <2>2. opened' /\ ~closed'
    <3>1. CASE CursorNext
      <4>1. \/ UNCHANGED <<opened, closed>>
            \/ doing \in {"none", "close"}
            \/ opened' = TRUE /\ closed' = FALSE
        BY <3>1, MarksKept
      <4>2. doing \notin {"none", "close"}
        BY <2>1
      <4>3. CASE UNCHANGED <<opened, closed>>
        BY <2>1, <4>3
      <4>4. CASE opened' = TRUE /\ closed' = FALSE
        BY <4>4
      <4> QED BY <4>1, <4>2, <4>3, <4>4
    <3>2. CASE UNCHANGED all_vars
      <4>1. UNCHANGED <<opened, closed>>
        BY <3>2 DEF all_vars, wrapper
      <4> QED BY <2>1, <4>1
    <3> QED BY <1>1, <3>1, <3>2
  <2>3. At \in {"pinging", "greeting"} /\ ~executing /\ socket # 0
    BY <2>1 DEF PingAnswered, Greeted, At, Posture, SocketKept, Establishing, Waits
  <2>4. UNCHANGED <<socket, executing>>
    <3>1. CASE PingAnswered(Me)
      BY <3>1 DEF PingAnswered, client
    <3>2. CASE Greeted(Me)
      <4>1. At = "greeting"
        BY <3>2 DEF Greeted, At
      <4>2. call[Me] = "connect"
        BY <2>1, <4>1 DEF CursorKept, CallsHavePlaces
      <4> QED BY <3>2, <4>2 DEF Greeted
    <3> QED BY <2>1, <3>1, <3>2
  <2> QED BY <2>2, <2>3, <2>4 DEF Connected
<1>2. CursorInv /\ [CursorNext]_all_vars =>
        [Refreshed => opened' /\ ~closed' /\ ~executing' /\ Connected']_all_vars
  BY <1>1
<1> QED BY <1>2, CursorInvariant, PTL DEF CursorSpec, RefreshGivesAConnection
=============================================================================
