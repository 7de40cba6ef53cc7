------------------------------- MODULE Blocks -------------------------------
(***************************************************************************)
(* asynch/proto/block.py, asynch/proto/streams/block.py and the sending of *)
(* data in asynch/proto/connection.py: one call with data is cut into      *)
(* blocks, checked, written column by column, and read by a peer that uses *)
(* BlockReader.  After the call the caller may make it again with the same *)
(* data, which is what one does after a lost connection.                   *)
(*                                                                         *)
(* pc is what happens next:                                                *)
(*   tables     send_external_tables: a table, or the block that ends them *)
(*   slicing    send_data: a chunk, or the block that ends the data        *)
(*   writing    BlockWriter.write: a column, or the end of the block       *)
(*   sent       the call has returned                                      *)
(*   failed     the call has raised err; its connection was dropped        *)
(* The peer reads a block whenever a whole one has been flushed.           *)
(***************************************************************************)
EXTENDS Columns

CONSTANTS
  WriteColumn_(_, _, _),    \* write_column: of a type, its values and the options
  ReadColumn_(_, _, _, _),  \* read_column: of a type, rows, the options, the wire
  Jobs        \* the calls: what is sent, and with which options

VARIABLES
  job,        \* the call
  data,       \* the caller's data: [tables, rows], changed in place
  pc, err,
  at,         \* how many tables, then how many chunks, were taken
  block,      \* the block being written, and how many of its columns were
  buffer,     \* written and not flushed
  wire,       \* flushed and not read
  received,   \* the blocks the peer has read
  lost,       \* why the peer could not read on
  earlier     \* the data packets of an earlier attempt, <<>> for none

codec == <<job, data, pc, err, at, block, buffer, wire, received, lost, earlier>>

\* Fields of a job: structure, a sequence of [name, type]; tables, a sequence of
\* [structure, rows]; rows, or columns when columnar; size, insert_block_size;
\* o, the options; info, buckets, customs, named: what the revision has; sent,
\* the packets of a server that sends data, <<>> for a call of the client.
NoBlock == [structure |-> <<>>, rows |-> <<>>, columnar |-> FALSE, done |-> 0]

BlkStarts(j) ==
  /\ job = j
  /\ data = [tables |-> job.tables, rows |-> job.rows]
  /\ pc = IF job.sent = <<>> THEN "tables" ELSE "sent"
  /\ err = "" /\ at = 0 /\ block = NoBlock
  /\ buffer = <<>> /\ wire = job.sent
  /\ received = <<>> /\ lost = "" /\ earlier = <<>>

BlkInit == \E j \in Jobs : BlkStarts(j)

-----------------------------------------------------------------------------
(* normalize: rows checked and made lists, in the caller's lists *)

RowLike == {"dict", "list"}
Get(row, name) ==
  LET hit == {i \in DOMAIN row.dict : row.dict[i][1] = Text(name)}
  IN  IF hit = {} THEN Fail("KeyError") ELSE row.dict[CHOOSE i \in hit : TRUE][2]

SetItem(row, name, v) ==
  Dict([i \in DOMAIN row.dict |-> IF row.dict[i][1] = Text(name) THEN <<Text(name), v>> ELSE row.dict[i]])
Fields(spec) == [i \in DOMAIN spec.of |-> [name |-> spec.p.names[i], type |-> spec.of[i]]]

\* _pure_mutate_dicts_to_rows: a list for every dict, within Nested columns too,
\* one after the other: a dict that it fails for leaves those before it lists.
\* [rows: the list it is given, as it leaves it; dicts: the dicts that were in it,
\* where the lists of Nested columns have changed; err]
RECURSIVE MutateRows(_, _, _)
MutateRows(rows, structure, checked) ==
  LET cell(acc, c) ==
        LET v == Get(acc.dict, c.name)
            inner == MutateRows(v.list, Fields(c.type), checked)
        IN  CASE acc.err # "" -> acc
              [] Bad(v) -> [acc EXCEPT !.err = v.fail]
              [] c.type.t # "Nested" -> [acc EXCEPT !.cells = Append(@, v)]
              [] ~IsA(v, {"list"}) -> [acc EXCEPT !.err = "TypeError"]
              [] OTHER -> [cells |-> Append(acc.cells, List(inner.rows)), err |-> inner.err,
                           dict |-> SetItem(acc.dict, c.name, List(inner.rows))]
      made(row) ==
        LET start == [cells |-> <<>>, dict |-> row, err |-> ""]
        IN  IF IsA(row, {"dict"}) THEN FoldLeft(cell, start, structure)
            ELSE [start EXCEPT !.err = "TypeError"]
      next(acc, row) ==
        LET m == made(row)
        IN  IF acc.err # "" THEN [acc EXCEPT !.rows = Append(@, row), !.dicts = Append(@, row)]
            ELSE [rows |-> Append(acc.rows, IF m.err = "" THEN List(m.cells) ELSE m.dict),
                  dicts |-> Append(acc.dicts, m.dict), err |-> m.err]
  IN  FoldLeft(next, [rows |-> <<>>, dicts |-> <<>>, err |-> ""], rows)

NormalizeRows(rows, structure, checked) ==
  LET kept(e) == [rows |-> rows, dicts |-> rows, err |-> e]
  IN  CASE rows = <<>> -> kept("")
        [] checked /\ ~IsA(rows[1], RowLike) -> kept("TypeError")
        [] IsA(rows[1], {"dict"}) -> MutateRows(rows, structure, checked)
        [] ~IsA(rows[1], RowLike) -> kept("TypeError")
        [] Len(rows[1].list) # Len(structure) -> kept("ValueError")
        [] checked /\ \E i \in DOMAIN rows : ~IsA(rows[i], {"list"}) -> kept("TypeError")
        [] OTHER -> kept("")

\* column_chunks cuts lists and tuples only.
NoColumns(columns) == \E i \in DOMAIN columns : ~IsA(columns[i], {"list"})
NormalizeColumns(columns, structure) ==
  [rows |-> columns,
   err |-> CASE columns = <<>> -> ""
             [] \/ Len(columns) # Len(structure)
                \/ \E i \in DOMAIN columns : Len(columns[i].list) # Len(columns[1].list) -> "ValueError"
             [] OTHER -> ""]

NumColumns(b) == IF b.columnar THEN Len(b.rows) ELSE Len(b.structure)
NumRows(b) == IF ~b.columnar THEN Len(b.rows) ELSE IF b.rows = <<>> THEN 0 ELSE Len(b.rows[1].list)

\* get_column_by_index, or the error of a row that has no such item.
ColumnOf(b, i) ==
  IF b.columnar THEN b.rows[i].list
  ELSE [r \in DOMAIN b.rows |-> CASE ~IsA(b.rows[r], RowLike) -> Fail("TypeError")
                                  [] IsA(b.rows[r], {"dict"}) -> Fail("KeyError")
                                  [] i > Len(b.rows[r].list)  -> Fail("ValueError")
                                  [] OTHER -> b.rows[r].list[i]]

-----------------------------------------------------------------------------
(* Sending *)

\* The out-of-order buckets are written for every revision.
InfoTokensNewest ==
  IF ~job.info THEN <<>>
  ELSE << <<"varint", Int_(1)>>, <<"B", Int_(0)>>, <<"varint", Int_(2)>>, <<"i", Int_(-1)>>,
          <<"varint", Int_(3)>>, <<"varint", Int_(0)>>, <<"varint", Int_(0)>> >>

\* BlockInfo.write, with the fields that the revision knows.
InfoTokens ==
  IF ~job.info THEN <<>>
  ELSE << <<"varint", Int_(1)>>, <<"B", Int_(0)>>, <<"varint", Int_(2)>>, <<"i", Int_(-1)>> >>
       \o (IF job.buckets THEN << <<"varint", Int_(3)>>, <<"varint", Int_(0)>> >> ELSE <<>>)
       \o << <<"varint", Int_(0)>> >>

\* send_block up to its first column.
Begin(b) ==
  /\ block' = b
  /\ buffer' = buffer \o << <<"varint", Int_(2)>> >>
                      \o (IF job.named THEN << <<"str", "table">> >> ELSE <<>>)
                      \o InfoTokens
                      \o << <<"varint", Int_(NumColumns(b))>>, <<"varint", Int_(NumRows(b))>> >>
  /\ pc' = "writing"

\* What was written of the block stays in the buffer.
RaiseKeepsBuffer(e) == pc' = "failed" /\ err' = e /\ UNCHANGED <<block, buffer>>

Raise(e) ==     \* ExecuteContext drops the connection, and what it had buffered
  /\ pc' = "failed" /\ err' = e
  /\ buffer' = <<>>
  /\ UNCHANGED block

SendTable ==
  /\ pc = "tables" /\ at < Len(data.tables)
  /\ LET table == data.tables[at + 1]
         n == NormalizeRows(table.rows, table.structure, job.o.types_check)
     IN  IF table.structure = <<>> THEN Raise("ValueError") /\ UNCHANGED data
         ELSE /\ data' = [data EXCEPT !.tables[at + 1].rows = n.rows]
              /\ IF n.err # "" THEN Raise(n.err)
                 ELSE /\ Begin([NoBlock EXCEPT !.structure = table.structure, !.rows = n.rows])
                      /\ UNCHANGED err
  /\ at' = at + 1
  /\ UNCHANGED <<job, wire, received, lost, earlier>>

EndTables ==
  /\ pc = "tables" /\ at = Len(data.tables)
  /\ Begin(NoBlock)
  /\ at' = at + 1
  /\ UNCHANGED <<job, data, err, wire, received, lost, earlier>>

\* The external tables count as chunks.
TakenWithTables == (at - 1) * job.size

Taken == (at - Len(data.tables) - 1) * job.size
Cut(s) == SubSeq(s, Taken + 1, IF Taken + job.size < Len(s) THEN Taken + job.size ELSE Len(s))
Chunk == IF job.columnar THEN [i \in DOMAIN data.rows |-> List(Cut(data.rows[i].list))] ELSE Cut(data.rows)
DataEnds == IF ~job.columnar THEN Taken >= Len(data.rows)
            ELSE ~NoColumns(data.rows) /\ \A i \in DOMAIN data.rows : Taken >= Len(data.rows[i].list)

\* A chunk is a new list of the caller's rows: what was a dict in it still is one
\* for the caller, with the Nested lists in it changed.
NextChunk ==
  /\ pc = "slicing" /\ ~DataEnds
  /\ IF job.columnar
     THEN LET n == NormalizeColumns(Chunk, job.structure)
          IN  /\ CASE NoColumns(data.rows) -> Raise("TypeError")
                   [] ~NoColumns(data.rows) /\ n.err # "" -> Raise(n.err)
                   [] OTHER -> /\ Begin([structure |-> job.structure, rows |-> n.rows, columnar |-> TRUE, done |-> 0])
                               /\ UNCHANGED err
              /\ UNCHANGED data
     ELSE LET n == NormalizeRows(Chunk, job.structure, job.o.types_check)
              kept(i) == IF i - Taken \in DOMAIN n.dicts THEN n.dicts[i - Taken] ELSE data.rows[i]
          IN  /\ IF n.err # "" THEN Raise(n.err)
                 ELSE Begin([NoBlock EXCEPT !.structure = job.structure, !.rows = n.rows]) /\ UNCHANGED err
              /\ data' = [data EXCEPT !.rows = [i \in DOMAIN @ |-> kept(i)]]
  /\ at' = at + 1
  /\ UNCHANGED <<job, wire, received, lost, earlier>>

EndData ==
  /\ pc = "slicing" /\ DataEnds
  /\ Begin([NoBlock EXCEPT !.columnar = job.columnar])
  /\ at' = 0
  /\ UNCHANGED <<job, data, err, wire, received, lost, earlier>>

WriteNext ==
  /\ pc = "writing" /\ block.done < Len(block.structure)
  /\ LET i == block.done + 1
         items == ColumnOf(block, i)
         spec == block.structure[i].type
         w == WriteColumn_(spec, items, job.o)
         e == IF FirstError(items) # "" THEN FirstError(items) ELSE w.err
     IN  IF e # "" THEN Raise(e)
         ELSE /\ buffer' = buffer \o << <<"str", block.structure[i].name>>, <<"str", spec>> >>
                                  \o (IF job.customs THEN << <<"B", Int_(0)>> >> ELSE <<>>)
                                  \o w.out
              /\ block' = [block EXCEPT !.done = i]
              /\ UNCHANGED <<pc, err>>
  /\ UNCHANGED <<job, data, at, wire, received, lost, earlier>>

\* finalize; then the caller of send_block goes on.
EndBlock ==
  /\ pc = "writing" /\ block.done = Len(block.structure)
  /\ wire' = wire \o buffer
  /\ buffer' = <<>>
  /\ pc' = CASE at = 0 -> "sent"
             [] at <= Len(data.tables) -> "tables"
             [] OTHER -> "slicing"
  /\ UNCHANGED <<job, data, err, at, block, received, lost, earlier>>

-----------------------------------------------------------------------------
(* Receiving: receive_data and BlockReader.read *)

RECURSIVE ReadInfo(_)
ReadInfo(w) ==
  One(w, "varint", LAMBDA field, rest :
    CASE field = Int_(0) -> Read(<<>>, rest)
      [] field = Int_(1) -> One(rest, "B", LAMBDA v, more : ReadInfo(more))
      [] field = Int_(2) -> One(rest, "i", LAMBDA v, more : ReadInfo(more))
      [] field = Int_(3) /\ job.buckets ->
           One(rest, "varint", LAMBDA n, more :
             Bind(Take(more, n.int, LAMBDA i : "i"), LAMBDA v, last : ReadInfo(last)))
      [] OTHER -> Unread("ValueError"))

ReadOneColumn(n, w) ==
  Bind(Take(w, 2, LAMBDA i : "str"), LAMBDA head, w1 :
    LET body(custom, rest) ==
          IF n = 0 THEN Read(<<>>, rest)
          ELSE ReadColumn_(head[2], n, [job.o EXCEPT !.types_check = FALSE, !.custom = custom], rest)
    IN  IF ~job.customs THEN body(FALSE, w1)
        ELSE One(w1, "B", LAMBDA v, rest : body(v # Int_(0), rest)))

\* A columnar block: one sequence for each column, none at all without rows.
ReadBlockBody(w) ==
  One(w, "varint", LAMBDA k, w1 :
  One(w1, "varint", LAMBDA n, w2 :
    FoldLeft(LAMBDA acc, i : IF acc.err # "" THEN acc
                             ELSE LET r == ReadOneColumn(n.int, acc.rest)
                                  IN  [r EXCEPT !.val = IF n.int = 0 THEN <<>> ELSE Append(acc.val, @)],
             Read(<<>>, w2), [i \in 1..k.int |-> i])))

ReadPacket(w) ==
  One(w, "varint", LAMBDA packet, w1 :
    LET body(rest) == IF job.info THEN Bind(ReadInfo(rest), LAMBDA v, more : ReadBlockBody(more))
                      ELSE ReadBlockBody(rest)
    IN  IF packet # Int_(2) THEN Unread("UnexpectedPacket")
        ELSE IF job.named THEN One(w1, "str", LAMBDA v, rest : body(rest)) ELSE body(w1))

Receive ==
  /\ wire # <<>> /\ lost = ""
  /\ LET r == ReadPacket(wire)
         uneven == r.err = "" /\ \E i \in DOMAIN r.val : Len(r.val[i]) # Len(r.val[1])
     IN  IF r.err # "" \/ uneven
         THEN /\ lost' = IF uneven THEN "ValueError" ELSE r.err
              /\ UNCHANGED <<wire, received>>
         ELSE /\ wire' = r.rest
              /\ received' = Append(received, r.val)
              /\ UNCHANGED lost
  /\ UNCHANGED <<job, data, pc, err, at, block, buffer, earlier>>

-----------------------------------------------------------------------------
(* The connection is lost, and the call is made again with the same data *)

ConnectionLost ==
  /\ job.retried /\ earlier = <<>> /\ pc \in {"tables", "slicing", "writing"}
  /\ received # <<>>
  /\ Raise("ConnectionError")
  /\ UNCHANGED <<job, data, at, wire, received, lost, earlier>>

CallAgain ==
  /\ job.retried /\ earlier = <<>> /\ received # <<>>
  /\ pc = "failed" \/ (pc = "sent" /\ wire = <<>>)
  /\ earlier' = received
  /\ pc' = "tables" /\ err' = "" /\ at' = 0 /\ block' = NoBlock
  /\ wire' = <<>> /\ received' = <<>> /\ lost' = ""
  /\ UNCHANGED <<job, data, buffer>>

BlkNext ==
  \/ SendTable \/ EndTables \/ NextChunk \/ EndData \/ WriteNext \/ EndBlock
  \/ Receive \/ ConnectionLost \/ CallAgain

BlkSpec == BlkInit /\ [][BlkNext]_codec

-----------------------------------------------------------------------------
(* Properties.  job.means is what the values mean, column by column and in  *)
(* every table (a Fail for one that must be refused); for a job with sent,  *)
(* the blocks.  job.refused is why a peer may refuse what it is sent.       *)

Promised ==
  LET rows(k) == (k - 1) * job.size
      upto(c, k) == IF k * job.size < Len(c) THEN k * job.size ELSE Len(c)
      chunk(k) == [i \in DOMAIN job.means |-> SubSeq(job.means[i], rows(k) + 1, upto(job.means[i], k))]
      chunks == IF job.means = <<>> THEN 0 ELSE (Len(job.means[1]) + job.size - 1) \div job.size
  IN  IF job.sent # <<>> THEN job.means
      ELSE [i \in DOMAIN job.tables |-> job.tables[i].means] \o << <<>> >>
           \o [k \in 1..chunks |-> chunk(k)] \o << <<>> >>

\* The values that a peer gets are those the caller gave, in their order, in
\* blocks of insert_block_size rows, all of them once the call has returned; and
\* those of a block that a server sent are those it meant.
ReadsWhatWasWritten ==
  /\ IsPrefix(received, Promised)
  /\ pc = "sent" /\ wire = <<>> => received = Promised

\* A peer is never out of step: each column ends where the next one begins, with
\* every type, block info, and serialization the revision allows.
InStep == lost # "" => lost = job.refused

\* A call fails for the reason that one of its values has, or for a table whose
\* rows are dicts and lists, and only then; what it had written of the block by
\* then is never seen.  One call fails for what an earlier one did: some dicts are
\* lists now, in a table or in the Nested columns of the caller's rows.
FailsForItsData ==
  LET columns == job.means \o FlattenSeq([i \in DOMAIN job.tables |-> job.tables[i].means])
  IN  pc = "failed" =>
        \/ err = "ConnectionError"
        \/ err = "TypeError" /\ earlier # <<>> /\ data # [tables |-> job.tables, rows |-> job.rows]
        \/ err = "TypeError" /\ \E i \in DOMAIN job.tables :
             {Tag(r) : r \in ToSet(job.tables[i].rows)} = RowLike
        \/ \E i \in DOMAIN columns : \E r \in DOMAIN columns[i] : columns[i][r] = Fail(err)

\* The second attempt sends what the first one sent, although the first has
\* changed the caller's rows and may have left half a block behind.
RetrySendsTheSame == IsPrefix(earlier, received) \/ IsPrefix(received, earlier)
=============================================================================
