------------------------------- MODULE Buffers -------------------------------
(***************************************************************************)
(* asynch/proto/streams/buffered.py, streams/compressed.py and             *)
(* asynch/proto/compression: how the items of a packet become bytes, are   *)
(* buffered, compressed, cut into pieces by the network, and read again.   *)
(*                                                                         *)
(* A packet is [head, body], two sequences of items: the head is written   *)
(* to the raw stream, the body is the block, which compression wraps.  An  *)
(* item is [k, v, n]: a varint or an int of n bytes with a number v, a str *)
(* or a fixed string of n bytes with a sequence of bytes v.                *)
(*                                                                         *)
(* A symbol on the wire is a byte [b], or in a frame its hash, its method, *)
(* its size, the size before compression, or a compressed byte [z]: a      *)
(* field of several bytes that arrives in part is as good as missing.      *)
(***************************************************************************)
EXTENDS Integers, Sequences, SequencesExt

CONSTANTS
  Scripts,    \* the sequences of packets that may be sent
  WriteMax,   \* max_buffer_size of a writer
  ReadMax     \* buffer_max_size of a reader

\* How many numbers n bytes hold.
Capacity[n \in Nat] == IF n = 0 THEN 1 ELSE 256 * Capacity[n - 1]

Octet == 0..255
Sendable(item) ==
  \/ item.k = "varint" /\ item.v \in Nat
  \/ item.k = "str" /\ item.v \in Seq(Octet)
  \/ item.k = "int" /\ item.n \in Nat \ {0} /\ item.v \in 0 .. Capacity[item.n] - 1
  \/ item.k = "fixed" /\ item.n \in Nat \ {0} /\ item.v \in Seq(Octet) /\ Len(item.v) <= item.n

IsSequence(s) == Len(s) \in Nat /\ s = [i \in 1..Len(s) |-> s[i]]
SendableItems(items) == IsSequence(items) /\ \A i \in DOMAIN items : Sendable(items[i])

\* A block is never without a byte: it has at least its two counts.
SendablePackets(packets) ==
  /\ IsSequence(packets)
  /\ \A i \in DOMAIN packets :
       /\ SendableItems(packets[i].head)
       /\ SendableItems(packets[i].body) /\ packets[i].body # <<>>

ASSUME BuffersAssumption ==
  /\ WriteMax \in Nat \ {0} /\ ReadMax \in Nat \ {0}
  /\ \A packets \in Scripts : SendablePackets(packets)

VARIABLES
  script,      \* the packets, and whether compression is on: [packets, packed]
  calls,       \* the calls of the writers that are still to be made
  raw,         \* BufferedWriter.buffer
  body,        \* CompressedBufferedWriter.buffer
  compressor,  \* the buffer that the compressor collects in
  network,     \* written to the socket and not read from it
  cut,         \* the connection is lost: no more is written
  altered,     \* a symbol of a frame was changed on its way
  inbox,       \* what BufferedReader.buffer has left
  unpacked,    \* what CompressedBufferedReader.buffer has left
  frame,       \* the symbols read of a frame that is incomplete
  part,        \* the bytes read of an item that is incomplete
  got,         \* the values read
  over,        \* the socket has returned b"", its end
  failure      \* the exception of the reader

bytes == <<script, calls, raw, body, compressor, network, cut, altered,
           inbox, unpacked, frame, part, got, over, failure>>

-----------------------------------------------------------------------------
(* Encodings *)

Octets(s) == [i \in DOMAIN s |-> [b |-> s[i]]]

\* leb128.i, the signed encoding, of a count: from 64 on it needs a bit more than
\* leb128.u, which reads it.
Leb128[n \in Nat] ==
  IF n < 64 THEN <<n>> ELSE <<(n % 128) + 128>> \o Leb128[n \div 128]

LittleEndian[n \in Nat] ==
  [v \in Nat |-> IF n = 0 THEN <<>> ELSE <<v % 256>> \o LittleEndian[n - 1][v \div 256]]

\* The number whose digits, the least first, are in the bytes of s.
FromDigits(s, base) ==
  LET ending[k \in 0..Len(s)] ==
        IF k = 0 THEN 0 ELSE (s[Len(s) - k + 1].b % base) + base * ending[k - 1]
  IN  ending[Len(s)]
Unleb128(s) == FromDigits(s, 128)
Number_(s)  == FromDigits(s, 256)

\* The calls of write_bytes that write an item.
Written(item) ==
  CASE item.k = "varint" -> <<Octets(Leb128[item.v])>>
    [] item.k = "str"    -> <<Octets(Leb128[Len(item.v)]), Octets(item.v)>>
    [] item.k = "fixed"  -> <<Octets(item.v \o [i \in 1..item.n - Len(item.v) |-> 0])>>
    [] item.k = "int"    -> <<Octets(LittleEndian[item.n][item.v])>>

\* The prefix of a str ends at its first byte without the high bit.
Heads(s) == {i \in DOMAIN s : "b" \in DOMAIN s[i] /\ s[i].b < 128}
Head_(s) == IF Heads(s) = {} THEN Len(s) ELSE CHOOSE i \in Heads(s) : \A j \in Heads(s) : i <= j
Whole_(item, s) ==
  CASE item.k = "varint" -> Heads(s) # {}
    [] item.k = "str"    -> Heads(s) # {} /\ Len(s) = Head_(s) + Unleb128(SubSeq(s, 1, Head_(s)))
    [] OTHER             -> Len(s) = item.n

\* What an item is read as; s may be cut short.
Plain_(s) == [i \in DOMAIN s |-> s[i].b]
Value(item, s) ==
  CASE item.k = "varint" -> Unleb128(s)
    [] item.k = "str"    -> Plain_(SubSeq(s, Head_(s) + 1, Len(s)))
    [] item.k = "fixed"  -> Plain_(s)
    [] item.k = "int"    -> Number_(s)

-----------------------------------------------------------------------------
(* Frames: CityHash128 is any function that tells two frames apart *)

NoFailure == ""

FrameHeader == 3      \* hash, method, size
Method == "LZ4"       \* or ZSTD, which differs in nothing else
Compressed(data) ==
  LET rest == <<[method |-> Method], [size |-> 1 + Len(data)], [raw |-> Len(data)]>>
              \o [i \in DOMAIN data |-> [z |-> data[i].b]]
  IN  <<[hash |-> rest]>> \o rest
Decompressed(f) == [i \in 1..Len(f) - FrameHeader - 1 |-> [b |-> f[i + FrameHeader + 1].z]]

\* The size is taken to leave out the header of the compressed data.
FrameMissingHeader(f) == IF Len(f) < FrameHeader THEN FrameHeader - Len(f)
                         ELSE FrameHeader + 1 + f[FrameHeader].size - Len(f)

FrameMissing(f) == IF Len(f) < FrameHeader THEN FrameHeader - Len(f)
                   ELSE FrameHeader + f[FrameHeader].size - Len(f)
Known == {"LZ4", "ZSTD"}
\* The checksum is not looked at.
FrameErrorUnchecked(f) ==
  IF Len(f) > 1 /\ f[2].method \notin Known THEN "UnknownCompressionMethod"
  ELSE IF Len(f) < FrameHeader THEN "struct.error"
  ELSE IF Len(f) = FrameHeader + 1 THEN "EOFError"
  ELSE NoFailure

FrameError(f) ==
  IF Len(f) > 1 /\ f[2].method \notin Known THEN "UnknownCompressionMethod"
  ELSE IF Len(f) < FrameHeader THEN "struct.error"
  ELSE IF f[1] # [hash |-> Tail(f)] THEN "ChecksumDoesntMatchError"
  ELSE IF Len(f) = FrameHeader + 1 THEN "EOFError"
  ELSE NoFailure

-----------------------------------------------------------------------------
(* Writing *)

Items(packets) == FlattenSeq([i \in DOMAIN packets |-> packets[i].head \o packets[i].body])
CallsOf(p) ==
  LET pieces(items) == FlattenSeq([i \in DOMAIN items |-> Written(items[i])])
      to(where, items) == [j \in DOMAIN pieces(items) |-> [to |-> where, data |-> pieces(items)[j]]]
  IN  to("raw", p.head) \o to("body", p.body) \o <<[to |-> "finalize", data |-> <<>>]>>

BufStarts(s) ==
  /\ script = s
  /\ calls = FlattenSeq([i \in DOMAIN script.packets |-> CallsOf(script.packets[i])])
  /\ raw = <<>> /\ body = <<>> /\ compressor = <<>> /\ network = <<>>
  /\ cut = FALSE /\ altered = FALSE
  /\ inbox = <<>> /\ unpacked = <<>> /\ frame = <<>> /\ part = <<>>
  /\ got = <<>> /\ over = FALSE /\ failure = NoFailure

BufInit == \E s \in [packets : Scripts, packed : BOOLEAN] : BufStarts(s)

Reading == <<inbox, unpacked, frame, part, got, over, failure>>
Call == calls # <<>> /\ ~cut /\ calls' = Tail(calls)

\* write_bytes: a buffer that is full is flushed.
WriteRaw ==
  /\ Call /\ (Head(calls).to = "raw" \/ (Head(calls).to = "body" /\ ~script.packed))
  /\ LET full == raw \o Head(calls).data
     IN  IF Len(full) >= WriteMax
         THEN network' = network \o full /\ raw' = <<>>
         ELSE raw' = full /\ UNCHANGED network
  /\ UNCHANGED <<script, body, compressor, cut, altered>> /\ UNCHANGED Reading

\* The same for a block, flushed into the compressor.
WriteBody ==
  /\ Call /\ Head(calls).to = "body" /\ script.packed
  /\ LET full == body \o Head(calls).data
     IN  IF Len(full) >= WriteMax
         THEN compressor' = compressor \o full /\ body' = <<>>
         ELSE body' = full /\ UNCHANGED compressor
  /\ UNCHANGED <<script, raw, network, cut, altered>> /\ UNCHANGED Reading

\* The raw buffer is flushed only behind a frame.
FinalizeUnflushed ==
  /\ Call /\ Head(calls).to = "finalize"
  /\ IF script.packed THEN network' = network \o raw \o Compressed(compressor \o body) /\ raw' = <<>>
     ELSE UNCHANGED <<network, raw>>
  /\ body' = <<>> /\ compressor' = <<>>
  /\ UNCHANGED <<script, cut, altered>> /\ UNCHANGED Reading

\* One frame for the whole block; its hash and its slices of compress_block_size
\* go through the raw buffer, which is flushed last.
Finalize ==
  /\ Call /\ Head(calls).to = "finalize"
  /\ network' = network \o raw \o (IF script.packed THEN Compressed(compressor \o body) ELSE <<>>)
  /\ raw' = <<>> /\ body' = <<>> /\ compressor' = <<>>
  /\ UNCHANGED <<script, cut, altered>> /\ UNCHANGED Reading

-----------------------------------------------------------------------------
(* The network: it ends anywhere, and may change a frame *)

ConnectionCut ==
  /\ ~cut /\ cut' = TRUE
  /\ \E n \in 0..Len(network) : network' = SubSeq(network, 1, n)
  /\ UNCHANGED <<script, calls, raw, body, compressor, altered>> /\ UNCHANGED Reading

Changed(x) ==
  CASE "hash" \in DOMAIN x   -> {[hash |-> <<>>]}
    [] "method" \in DOMAIN x -> {[method |-> "ZSTD"], [method |-> "other"]}
    [] "size" \in DOMAIN x   -> {[size |-> x.size - 1], [size |-> x.size + 1]}
    [] "raw" \in DOMAIN x    -> {[raw |-> x.raw + 1]}
    [] "z" \in DOMAIN x      -> {[z |-> (x.z + 1) % 256]}
    [] OTHER                 -> {}
Alter ==
  /\ ~altered /\ altered' = TRUE
  /\ \E i \in DOMAIN network : \E x \in Changed(network[i]) : network' = [network EXCEPT ![i] = x]
  /\ UNCHANGED <<script, calls, raw, body, compressor, cut>> /\ UNCHANGED Reading

-----------------------------------------------------------------------------
(* Reading *)

Writing == <<script, calls, raw, body, compressor, cut, altered>>

Expected  == Items(script.packets)
HeadItems == FlattenSeq([i \in DOMAIN script.packets |->
               [j \in DOMAIN (script.packets[i].head \o script.packets[i].body) |->
                  j \in DOMAIN script.packets[i].head]])
More      == failure = NoFailure /\ Len(got) < Len(Expected)
Item      == Expected[Len(got) + 1]
InFrame   == script.packed /\ ~HeadItems[Len(got) + 1]

\* _refill_buffer: only a buffer that was read to its end.
Refill ==
  /\ More /\ inbox = <<>> /\ ~over
  /\ InFrame => unpacked = <<>>
  /\ \/ \E n \in 1..(IF Len(network) < ReadMax THEN Len(network) ELSE ReadMax) :
          /\ inbox' = SubSeq(network, 1, n)
          /\ network' = SubSeq(network, n + 1, Len(network))
          /\ UNCHANGED over
     \/ network = <<>> /\ cut /\ over' = TRUE /\ UNCHANGED <<inbox, network>>
  /\ UNCHANGED Writing /\ UNCHANGED <<unpacked, frame, part, got, failure>>

\* As much of source as the item takes; read is part of it, rest what is left.
Taking(source) ==
  LET sizes == {n \in 1..Len(source) : Whole_(Item, part \o SubSeq(source, 1, n))}
      n == IF sizes = {} THEN Len(source) ELSE CHOOSE k \in sizes : \A j \in sizes : k <= j
  IN  [read |-> part \o SubSeq(source, 1, n), rest |-> SubSeq(source, n + 1, Len(source))]
Keep(t) ==
  IF Whole_(Item, t.read)
  THEN got' = Append(got, Value(Item, t.read)) /\ part' = <<>>
  ELSE part' = t.read /\ UNCHANGED got

ReadRaw ==
  /\ More /\ ~InFrame /\ inbox # <<>>
  /\ LET t == Taking(inbox) IN Keep(t) /\ inbox' = t.rest
  /\ UNCHANGED Writing /\ UNCHANGED <<network, unpacked, frame, over, failure>>

ReadUnpacked ==
  /\ More /\ InFrame /\ unpacked # <<>>
  /\ LET t == Taking(unpacked) IN Keep(t) /\ unpacked' = t.rest
  /\ UNCHANGED Writing /\ UNCHANGED <<network, inbox, frame, over, failure>>

\* _read_compressed_data, as far as the bytes at hand go.
ReadFrame ==
  /\ More /\ InFrame /\ unpacked = <<>> /\ inbox # <<>>
  /\ LET n == IF FrameMissing(frame) < Len(inbox) THEN FrameMissing(frame) ELSE Len(inbox)
         f == frame \o SubSeq(inbox, 1, n)
         done == Len(f) >= FrameHeader /\ FrameMissing(f) = 0
         e == IF done \/ FrameError(f) = "UnknownCompressionMethod" THEN FrameError(f) ELSE NoFailure
     IN  /\ inbox' = SubSeq(inbox, n + 1, Len(inbox))
         /\ failure' = e
         /\ IF done /\ e = NoFailure THEN unpacked' = Decompressed(f) /\ frame' = <<>>
            ELSE frame' = f /\ UNCHANGED unpacked
  /\ UNCHANGED Writing /\ UNCHANGED <<network, part, got, over>>

\* At the end of the stream a frame, an int and a varint without a byte fail; a
\* varint is what came of it, and a string too, be it nothing.
ReadAtEnd ==
  /\ More /\ over /\ inbox = <<>>
  /\ InFrame => unpacked = <<>>
  /\ LET e == IF InFrame THEN FrameError(frame)
              ELSE IF Item.k = "int" THEN "struct.error"
              ELSE IF Item.k \in {"varint", "str"} /\ part = <<>> THEN "OperationalError"
              ELSE NoFailure
     IN  /\ failure' = e
         /\ got' = IF e = NoFailure THEN Append(got, Value(Item, part)) ELSE got
         /\ part' = <<>>
  /\ UNCHANGED Writing /\ UNCHANGED <<network, inbox, unpacked, frame, over>>

BufNext ==
  \/ WriteRaw \/ WriteBody \/ Finalize \/ ConnectionCut \/ Alter
  \/ Refill \/ ReadRaw \/ ReadUnpacked \/ ReadFrame \/ ReadAtEnd

BufSpec == BufInit /\ [][BufNext]_bytes

-----------------------------------------------------------------------------
(* Properties *)

Sent == [i \in DOMAIN Expected |->
           LET x == Expected[i]
           IN  IF x.k = "fixed" THEN x.v \o [j \in 1..x.n - Len(x.v) |-> 0] ELSE x.v]

\* However the network cuts the stream into pieces, whatever the size of the
\* buffers, and with compression or without it, the values read are those sent,
\* in their order.  When the connection is lost, the value it breaks off in may
\* be a shorter string or a smaller varint, and a fixed string after it nothing
\* at all; an int never is wrong, nor is anything of a block that was compressed,
\* even if the network has changed it.
ReadsWhatWasSent ==
  LET wrong == {i \in DOMAIN got : got[i] # Sent[i]}
      shorter(i) == IF Expected[i].k = "varint" THEN got[i] < Sent[i]
                    ELSE Expected[i].k \in {"str", "fixed"} /\ IsPrefix(got[i], Sent[i])
  IN  \A i \in wrong :
        /\ over /\ (HeadItems[i] \/ ~script.packed)
        /\ shorter(i)
        /\ (\E j \in wrong : j < i) => Expected[i].k = "fixed" /\ got[i] = <<>>

\* The reader fails only because the connection was lost or a frame changed.
FailsForTheNetwork ==
  failure # NoFailure => over \/ (altered /\ failure \in {"ChecksumDoesntMatchError", "UnknownCompressionMethod"})

\* When the writer has returned and the reader waits for more bytes, it has read
\* everything: no byte waits in a buffer of either side.
NothingIsStuck ==
  calls = <<>> /\ network = <<>> /\ inbox = <<>> /\ ~cut /\ ~altered
  /\ (~More \/ ~InFrame \/ unpacked = <<>>) => got = Sent
=============================================================================
