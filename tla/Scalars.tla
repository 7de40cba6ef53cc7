------------------------------- MODULE Scalars -------------------------------
(***************************************************************************)
(* asynch/proto/columns/*.py, the columns without inner columns: what each *)
(* of them checks, converts, packs, unpacks and converts back.             *)
(*                                                                         *)
(* A Python value is a record with one field, named for its type:          *)
(*   none, bool, int, float   a number is a small integer                  *)
(*   text, bytes              a sequence of bytes; byte 255 is not UTF-8   *)
(*   repr                     a str that parses to the value it holds      *)
(*   date                     days since 1970-01-01                        *)
(*   naive, aware             a datetime, in hundredths of a second of     *)
(*                            wall clock and of UTC, which its clock shows *)
(*   zoned                    an aware one: UTC, how far its clock is ahead *)
(*   time, delta, dec         hundredths of a second, of one               *)
(*   uuid                     its high and its low 64 bits                 *)
(*   ip4, ip6, enum           an address, the name of an Enum member       *)
(*   list, dict               a sequence of values, of pairs of values     *)
(*   typed                    a value with the name of its type, as a pair *)
(*   name                     a str that names a type                      *)
(*   fail                     the exception raised instead of a value      *)
(* A field name that is not `int' decides every isinstance() of the code;  *)
(* bool is the subclass of int it is in Python, a datetime that of date.   *)
(*                                                                         *)
(* The wire is a sequence of tokens <<w, v>>: the struct format or the     *)
(* encoding used, and the value packed with it.  A reader that finds a     *)
(* token of another encoding is out of step with the writer.  Only formats *)
(* of 8 and 16 bits overflow here.                                         *)
(*                                                                         *)
(* A column is a record: t its type, p the type's parameters, of its inner *)
(* columns, null and nv the attributes nullable and null_value, o the      *)
(* options it was built with.                                              *)
(***************************************************************************)
EXTENDS Integers, Sequences, SequencesExt

CONSTANTS
  Offset      \* how far each timezone's wall clock is ahead of UTC

ASSUME ScalarsAssumption == \A z \in DOMAIN Offset : Offset[z] \in Int

Nil      == [none |-> TRUE]
Bool(b)  == [bool |-> b]
Int_(n)  == [int |-> n]
Text(s)  == [text |-> s]
Bytes(s) == [bytes |-> s]
List(s)  == [list |-> s]
Dict(s)  == [dict |-> s]
Fail(e)  == [fail |-> e]

Tag(v)    == CHOOSE f \in DOMAIN v : TRUE
IsA(v, T) == Tag(v) \in T

IntLike == {"int", "bool"}
StrLike == {"text", "repr"}
DateTimes == {"naive", "aware", "zoned"}
Bad(v)  == IsA(v, {"fail"})

Number(v) == IF IsA(v, {"bool"}) THEN (IF v.bool THEN 1 ELSE 0)
             ELSE IF IsA(v, {"float"}) THEN v.float ELSE v.int
Parsed(v) == IF IsA(v, {"repr"}) THEN v.repr
             ELSE IF IsA(v, {"text"}) THEN Fail("ValueError") ELSE v

Sign(n)     == IF n < 0 THEN -1 ELSE 1
Abs_(n)     == Sign(n) * n
Trunc(a, b) == Sign(a) * (Abs_(a) \div b)

-----------------------------------------------------------------------------
(* The types *)

SInts  == {"Int8", "Int16", "Int32", "Int64", "Int128", "Int256", "Interval"}
UInts  == {"UInt8", "UInt16", "UInt32", "UInt64", "UInt128", "UInt256"}
Big    == {"Int128", "Int256", "UInt128", "UInt256"}
Floats == {"Float32", "Float64", "BFloat16"}
Enums  == {"Enum8", "Enum16"}
Dates  == {"Date", "Date32"}
Clocks == {"DateTime", "DateTime64"}
Times  == {"Time", "Time64"}
Texts  == {"String", "FixedString"}

Scalar == SInts \cup UInts \cup Floats \cup Enums \cup Dates \cup Clocks
          \cup Times \cup Texts \cup {"Bool", "Decimal", "UUID", "IPv4",
          "IPv6", "QBit", "AggregateFunction", "Nothing", "Null"}

\* FormatColumn.format, and the width of the integers that have none.
Format ==
  [Int8 |-> "b", Int16 |-> "h", Int32 |-> "i", Int64 |-> "q", Interval |-> "q",
   UInt8 |-> "B", UInt16 |-> "H", UInt32 |-> "I", UInt64 |-> "Q",
   Int128 |-> "i128", Int256 |-> "i256", UInt128 |-> "u128", UInt256 |-> "u256",
   Float32 |-> "f", Float64 |-> "d", BFloat16 |-> "bf16", Bool |-> "?",
   Enum8 |-> "b", Enum16 |-> "h", Date |-> "H", Date32 |-> "i",
   DateTime |-> "I", DateTime64 |-> "q", Time |-> "i", Time64 |-> "q",
   IPv4 |-> "I", Nothing |-> "B", Null |-> "B"]

\* create_decimal_column picks the integer that holds the precision.
Width(c) ==
  IF c.t # "Decimal" THEN Format[c.t]
  ELSE CASE c.p.precision <= 9  -> "i"
         [] c.p.precision <= 18 -> "q"
         [] c.p.precision <= 38 -> "i128"
         [] OTHER               -> "i256"

Signed == {"i", "q", "i128", "i256"}
\* The most negative number of a signed format is refused.
FitsSymmetric(w, n) ==
  CASE w = "b" -> n \in -127..127
    [] w = "h" -> n \in -32767..32767
    [] w = "B" -> n \in 0..255
    [] w = "H" -> n \in 0..65535
    [] w \in {"i", "q", "i128", "i256"} -> TRUE
    [] OTHER -> n >= 0

Fits(w, n) ==
  CASE w = "b" -> n \in -128..127
    [] w = "h" -> n \in -32768..32767
    [] w = "B" -> n \in 0..255
    [] w = "H" -> n \in 0..65535
    [] w \in Signed -> TRUE
    [] OTHER -> n >= 0

\* IntColumn chops only bytes that fit the type, sign and magnitude apart.
Chop(w, n) ==
  CASE w \in {"b", "B"} -> Sign(n) * (Abs_(n) % 256)
    [] w \in {"h", "H"} -> Sign(n) * (Abs_(n) % 65536)
    [] OTHER -> n

\* Column.py_types.
PyTypes(t) ==
  CASE t \in SInts \cup UInts -> IntLike
    [] t \in Enums  -> {"enum"} \cup IntLike \cup StrLike
    [] t \in Floats -> {"float"} \cup IntLike
    [] t \in Dates  -> {"date"} \cup DateTimes \cup StrLike
    [] t \in Clocks -> DateTimes \cup IntLike \cup StrLike
    [] t \in Times  -> {"time", "delta"} \cup IntLike \cup StrLike
    [] t \in Texts  -> StrLike
    [] t = "Bool"   -> {"bool"}
    [] t = "UUID"   -> {"uuid"} \cup StrLike
    [] t \in {"Nothing", "Null"} -> {}
    [] t = "IPv4"   -> {"ip4"} \cup IntLike \cup StrLike
    [] t = "IPv6"   -> {"ip6", "bytes"} \cup StrLike
    [] t \in {"Array", "Tuple", "QBit"} -> {"list"}
    [] t \in {"Map", "JSON", "Object"} -> {"dict"}
    [] OTHER -> {"float", "bytes", "date", "time", "delta",
                 "dec", "uuid", "ip4", "ip6", "enum", "list", "dict", "typed"}
                \cup DateTimes \cup IntLike \cup StrLike

ReadsBytes(c) == c.t = "IPv6" \/ (c.t \in Texts /\ c.o.strings_as_bytes)

\* isinstance(value, py_types).
InstanceOf(c, v) ==
  IsA(v, IF c.t \in Texts /\ c.o.strings_as_bytes THEN {"bytes"} ELSE PyTypes(c.t))

-----------------------------------------------------------------------------
(* Checks: check_item_type, then the check_item of the column *)

\* The characters of the integer part of str(value), its minus sign included.
IntPart(v) ==
  LET n == IF IsA(v, {"dec"}) THEN Trunc(v.dec, 100) ELSE Number(v)
      negative == (IF IsA(v, {"dec"}) THEN v.dec ELSE n) < 0
      digits == CHOOSE d \in 1..9 : /\ Abs_(n) < 10 ^ d
                                    /\ d = 1 \/ Abs_(n) >= 10 ^ (d - 1)
  IN  CASE IsA(v, {"text"}) -> Len(v.text)
        [] IsA(v, {"bool"}) -> IF v.bool THEN 4 ELSE 5
        [] OTHER -> digits + (IF negative THEN 1 ELSE 0)

NegativeUInt(v)     == IsA(v, IntLike) /\ Number(v) < 0
DecimalRefused(p, v) == IntPart(v) > p.precision
IPv4Refused(v)      == NegativeUInt(v) \/ Bad(Parsed(v))
IPv6Refused(v)      == Bad(Parsed(v)) \/ (IsA(v, {"bytes"}) /\ Len(v.bytes) # 16)

Refused(c, v) ==
  /\ c.o.types_check
  /\ CASE c.t = "Decimal" -> DecimalRefused(c.p, v)
       [] ~InstanceOf(c, v) -> TRUE
       [] c.t \in UInts   -> NegativeUInt(v)
       [] c.t = "IPv4"    -> IPv4Refused(v)
       [] c.t = "IPv6"    -> IPv6Refused(v)
       [] OTHER           -> FALSE
\* isinstance() has nothing to test a value of these against.
Refusal(c) == Fail(IF c.t \in {"Nothing", "Null"} THEN "TypeError" ELSE "mismatch")

-----------------------------------------------------------------------------
(* before_write_items: one value, None replaced already *)

\* Duplicate names and values: the last option of the type wins.
ByName(p, name) ==
  LET at == {i \in DOMAIN p.options : p.options[i][1] = name}
  IN  IF at = {} THEN Fail("LogicalError")
      ELSE Int_(p.options[CHOOSE i \in at : \A j \in at : j <= i][2])
ByValue(p, n) ==
  LET at == {i \in DOMAIN p.options : p.options[i][2] = n}
  IN  IF at = {} THEN Fail("LogicalError")
      ELSE Text(p.options[CHOOSE i \in at : \A j \in at : j <= i][1])

EnumRaw(p, v) ==
  CASE IsA(v, {"enum"}) -> ByName(p, v.enum)
    [] IsA(v, {"text"}) -> ByName(p, v.text)
    [] IsA(v, IntLike)  -> LET name == ByValue(p, Number(v))
                           IN  IF Bad(name) THEN name ELSE ByName(p, name.text)
    [] OTHER            -> Fail("LogicalError")

FirstDay == [Date |-> 0, Date32 |-> -25567]
LastDay  == [Date |-> 65535, Date32 |-> 120529]

DateRaw(t, v) ==
  LET d == Parsed(v)
      day == CASE IsA(d, {"date"})  -> d.date
               [] IsA(d, {"naive"}) -> d.naive \div 8640000
               [] IsA(d, {"aware"}) -> d.aware \div 8640000
               [] IsA(d, {"zoned"}) -> (d.zoned[1] + d.zoned[2]) \div 8640000
  IN  IF ~IsA(d, {"date"} \cup DateTimes) THEN Fail("AttributeError")
      ELSE IF day \in FirstDay[t]..LastDay[t] THEN Int_(day) ELSE Int_(0)

\* The timezone of create_datetime_column, "" when it leaves it to the client.
Zone(c) ==
  IF c.p.tz # "" THEN c.p.tz
  ELSE IF ~c.o.use_client_time_zone /\ c.o.local_tz # c.o.server_tz
       THEN c.o.server_tz ELSE ""
WallClock(c) == Offset[IF Zone(c) # "" THEN Zone(c) ELSE c.o.local_tz]

\* A datetime rounds down, for timetuple() does; a Decimal of seconds to zero.
Units(c) == IF c.t \in {"DateTime", "Time"} THEN 1 ELSE 10 ^ c.p.scale
Ticks(c, cs) == IF c.t \in Clocks THEN (cs * Units(c)) \div 100
                ELSE Trunc(cs * Units(c), 100)
Hundredths(c, n) == Trunc(n * 100, Units(c))

ClockRaw(c, v) ==
  LET d == Parsed(v)
  IN  CASE IsA(v, IntLike)    -> v
        [] IsA(d, {"naive"})  -> Int_(Ticks(c, d.naive - WallClock(c)))
        [] IsA(d, {"aware"})  -> Int_(Ticks(c, d.aware))
        [] IsA(d, {"zoned"})  -> Int_(Ticks(c, d.zoned[1]))
        [] OTHER              -> Fail("AttributeError")

TimeRaw(c, v) ==
  LET d == Parsed(v)
  IN  CASE IsA(v, IntLike)    -> v
        [] IsA(d, {"time"})   -> Int_(Ticks(c, d.time))
        [] IsA(d, {"delta"})  -> Int_(Ticks(c, d.delta))
        [] OTHER              -> Fail("ValueError")

\* str() of a bool is no number.
DecimalRaw(c, v) ==
  CASE IsA(v, {"dec"}) -> Int_(Trunc(v.dec * 10 ^ c.p.scale, 100))
    [] IsA(v, {"int", "float"}) -> Int_(Number(v) * 10 ^ c.p.scale)
    [] OTHER -> Fail("InvalidOperation")

\* With types_check IntColumn.__init__ replaces the conversion of every column
\* derived from it, EnumColumn's too.
IntRaw(c, v) == IF IsA(v, IntLike) THEN Int_(Chop(Width(c), Number(v))) ELSE Fail("TypeError")

\* UUID() calls replace() of what is no str: bytes, dates and times have another.
UuidRaw(v) ==
  LET u == Parsed(v)
      zero == IsA(v, IntLike) /\ Number(v) = 0
  IN  CASE IsA(u, {"uuid"}) -> u
        [] zero             -> [uuid |-> <<0, 0>>]
        [] Bad(u)           -> Fail("CannotParseUuid")
        [] IsA(v, {"none", "bytes", "date", "time"} \cup DateTimes) -> Fail("TypeError")
        [] OTHER            -> Fail("AttributeError")

IPv4Raw(v) ==
  LET a == Parsed(v)
  IN  CASE IsA(v, IntLike) -> v
        [] IsA(a, {"ip4"}) -> Int_(a.ip4)
        [] OTHER           -> Fail("CannotParseDomain")

IPv6Raw(v) ==
  LET a == Parsed(v)
  IN  CASE IsA(v, {"bytes"}) -> v
        [] IsA(a, {"ip6"})   -> Bytes([i \in 1..16 |-> IF i = 16 THEN a.ip6 ELSE 0])
        [] OTHER             -> Fail("CannotParseDomain")

Convert(c, v) ==
  CASE c.t \in SInts \cup UInts \cup Enums /\ c.o.types_check -> IntRaw(c, v)
    [] c.t \in Enums   -> EnumRaw(c.p, v)
    [] c.t \in Dates   -> DateRaw(c.t, v)
    [] c.t \in Clocks  -> ClockRaw(c, v)
    [] c.t \in Times   -> TimeRaw(c, v)
    [] c.t = "Decimal" -> DecimalRaw(c, v)
    [] c.t = "UUID"    -> UuidRaw(v)
    [] c.t = "IPv4"    -> IPv4Raw(v)
    [] c.t = "IPv6"    -> IPv6Raw(v)
    [] OTHER           -> v

-----------------------------------------------------------------------------
(* write_items: packing a column of converted values *)

Wrote(out)     == [out |-> out, err |-> ""]
Stopped(e)     == [out |-> <<>>, err |-> e]
Then(a, b)     == IF a.err # "" THEN a ELSE [out |-> a.out \o b.out, err |-> b.err]

\* struct.pack and the loops that fill a list first write all or nothing.
Whole(tokens) ==
  LET bad == {i \in DOMAIN tokens : Bad(tokens[i][2])}
  IN  IF bad = {} THEN Wrote(tokens)
      ELSE Stopped(tokens[CHOOSE i \in bad : \A j \in bad : i <= j][2].fail)

\* '?' takes the truth of any object, the other formats a number.
Packed(c, v) ==
  LET w == Width(c)
  IN  CASE w = "?" -> Bool(CASE IsA(v, {"bool"}) -> v.bool
                             [] IsA(v, {"int"})  -> v.int # 0
                             [] IsA(v, {"none"}) -> FALSE
                             [] IsA(v, {"text"}) -> v.text # <<>>
                             [] IsA(v, {"list"}) -> v.list # <<>>
                             [] OTHER            -> TRUE)
        [] c.t \in Floats -> IF IsA(v, IntLike \cup {"float"})
                             THEN [float |-> Number(v)] ELSE Fail("pack")
        [] ~IsA(v, IntLike) -> Fail(IF c.t \in Big THEN "AttributeError" ELSE "pack")
        [] OTHER -> IF Fits(w, Number(v)) THEN Int_(Number(v)) ELSE Fail("pack")

\* BFloat16 keeps the upper half of a float32: eight significant bits.
Upper(n) ==
  LET e == CHOOSE k \in 0..23 : /\ Abs_(n) \div 2 ^ k < 256
                                /\ k = 0 \/ Abs_(n) \div 2 ^ (k - 1) >= 256
  IN  Sign(n) * (Abs_(n) \div 2 ^ e) * 2 ^ e

Encoded(c, v) ==
  CASE IsA(v, {"bytes"})                         -> v.bytes
    [] IsA(v, {"text"}) /\ ~ReadsBytes(c)        -> v.text
    [] OTHER                                     -> <<>>
Encodable(c, v) == IF ReadsBytes(c) THEN IsA(v, {"bytes"}) ELSE IsA(v, {"text", "bytes"})

\* write_fixed_strings pads with zeros, and stops at the first long string.
FixedLength(c) == IF c.t = "IPv6" THEN 16 ELSE c.p.length
Padded(c, s)   == [i \in 1..FixedLength(c) |-> IF i <= Len(s) THEN s[i] ELSE 0]
FixedStrings(c, items) ==
  LET long == {i \in DOMAIN items : Len(Encoded(c, items[i])) > FixedLength(c)}
      upto == IF long = {} THEN Len(items)
              ELSE (CHOOSE i \in long : \A j \in long : i <= j) - 1
  IN  [out |-> [i \in 1..upto |-> <<"fix", Bytes(Padded(c, Encoded(c, items[i])))>>],
       err |-> IF long = {} THEN "" ELSE "TooLargeStringSize"]

\* One plane of bits for each bit of an element, the sign first: the set of its
\* 1 bits.
ElementBits(spec) == CASE spec = "BFloat16" -> 16 [] spec = "Float32" -> 32 [] OTHER -> 64
PlaneBit(p, e) ==   \* (total_bits - 1) - (element_index ^ 7)
  8 * ((p.dimension + 7) \div 8) - 1 - (8 * (e \div 8) + 7 - (e % 8))
BitOf(p, n, bit) == IF bit = ElementBits(p.element) - 1 THEN n < 0
                    ELSE bit < 31 /\ (Abs_(n) \div 2 ^ bit) % 2 = 1
Plane(p, vector, bit) ==
  {PlaneBit(p, e) : e \in {x \in 0..p.dimension - 1 : BitOf(p, Number(vector[x + 1]), bit)}}
QBitItems(p, items) ==
  IF \E i \in DOMAIN items : Len(items[i].list) # p.dimension THEN Stopped("ValueError")
  ELSE Wrote(FlattenSeq([b \in 1..ElementBits(p.element) |->
         [i \in DOMAIN items |->
            <<"plane", Plane(p, items[i].list, ElementBits(p.element) - b)>>]]))

\* The states of count, sum and avg.
StateItems(p, items) ==
  LET num(v) == IF p.state = "d" THEN [float |-> Number(v)] ELSE v
  IN  Wrote(FlattenSeq([i \in DOMAIN items |->
    CASE p.function = "count" -> << <<"varint", items[i]>> >>
      [] p.function = "sum"   -> << <<p.state, num(items[i])>> >>
      [] p.function = "avg"   -> << <<p.state, num(items[i].list[1])>>,
                                    <<"varint", items[i].list[2]>> >>]))

StringItems(c, items) ==
  CASE \E i \in DOMAIN items : ~Encodable(c, items[i]) ->
         Stopped(IF ReadsBytes(c) THEN "ValueError" ELSE "AttributeError")
    [] c.t = "String" ->
         Wrote([i \in DOMAIN items |-> <<"str", Bytes(Encoded(c, items[i]))>>])
    [] OTHER -> FixedStrings(c, items)

UuidItems(items) ==
  Wrote(FlattenSeq([i \in DOMAIN items |->
    LET u == IF IsA(items[i], {"uuid"}) THEN items[i].uuid ELSE <<0, 0>>
    IN  << <<"Q", Int_(u[1])>>, <<"Q", Int_(u[2])>> >>]))

BFloat16Items(c, items) ==
  Whole([i \in DOMAIN items |-> <<"bf16",
    LET v == Packed(c, items[i])
    IN  IF ~Bad(v) THEN [float |-> Upper(v.float)]
        ELSE Fail(IF IsA(items[i], {"bytes"} \cup StrLike) THEN "ValueError" ELSE "TypeError")>>])

WriteItems(c, items) ==
  CASE c.t = "QBit" -> QBitItems(c.p, items)
    [] c.t = "AggregateFunction" -> StateItems(c.p, items)
    [] c.t \in Texts \cup {"IPv6"} -> StringItems(c, items)
    [] c.t = "UUID" -> UuidItems(items)
    [] c.t = "BFloat16" -> BFloat16Items(c, items)
    [] OTHER -> Whole([i \in DOMAIN items |-> <<Width(c), Packed(c, items[i])>>])

-----------------------------------------------------------------------------
(* read_items and after_read_items *)

Read(val, rest)  == [val |-> val, rest |-> rest, err |-> ""]
Unread(e)        == [val |-> <<>>, rest |-> <<>>, err |-> e]

\* n tokens of the encodings that enc names in turn.
Take(wire, n, enc(_)) ==
  IF n > Len(wire) THEN Unread("eof")
  ELSE IF \E i \in 1..n : wire[i][1] # enc(i) THEN Unread("out of step")
  ELSE Read([i \in 1..n |-> wire[i][2]], SubSeq(wire, n + 1, Len(wire)))

Stripped(s) ==
  LET full == {i \in DOMAIN s : s[i] # 0}
  IN  IF full = {} THEN <<>>
      ELSE SubSeq(s, 1, CHOOSE i \in full : \A j \in full : j <= i)
Decoded(c, s) ==
  CASE ReadsBytes(c) -> Bytes(s)
    [] \E i \in DOMAIN s : s[i] = 255 -> Bytes(s)
    [] OTHER -> Text(s)

BitSum(planes, at) ==
  (IF at \in Head(planes) THEN -1 ELSE 1)
  * FoldLeft(LAMBDA n, plane : 2 * n + (IF at \in plane THEN 1 ELSE 0), 0, Tail(planes))

EnumValue(p, n) ==
  LET name == ByValue(p, n) IN IF Bad(name) THEN Fail("KeyError") ELSE name
ClockValue(c, n) == IF c.p.tz = "" THEN [naive |-> Hundredths(c, n) + WallClock(c)]
                    ELSE [aware |-> Hundredths(c, n)]

Restore(c, v) ==
  CASE c.t \in {"Nothing", "Null"} -> Nil
    [] c.t \in Enums  -> EnumValue(c.p, v.int)
    [] c.t \in Dates  -> [date |-> v.int]
    [] c.t \in Clocks -> ClockValue(c, v.int)
    [] c.t \in Times  -> [delta |-> Hundredths(c, v.int)]
    [] c.t = "Decimal" -> [dec |-> Trunc(v.int * 100, 10 ^ c.p.scale)]
    [] c.t = "IPv4"   -> [ip4 |-> v.int]
    [] c.t = "IPv6"   -> [ip6 |-> v.bytes[16]]
    [] c.t = "String" -> Decoded(c, v.bytes)
    [] c.t = "FixedString" -> Decoded(c, IF ReadsBytes(c) THEN v.bytes ELSE Stripped(v.bytes))
    [] OTHER -> v

Pairs(s) == [i \in 1..(Len(s) \div 2) |-> <<s[2 * i - 1], s[2 * i]>>]

ReadUuids(n, wire) ==
  LET r == Take(wire, 2 * n, LAMBDA i : "Q")
  IN  [r EXCEPT !.val = [i \in DOMAIN Pairs(@) |->
         [uuid |-> <<Pairs(@)[i][1].int, Pairs(@)[i][2].int>>]]]

ReadVectors(p, n, wire) ==
  LET bits == ElementBits(p.element)
      r == Take(wire, bits * n, LAMBDA i : "plane")
      planes(row) == [b \in 1..bits |-> r.val[(b - 1) * n + row]]
  IN  IF r.err # "" THEN r
      ELSE Read([row \in 1..n |-> List([e \in 1..p.dimension |->
             [float |-> BitSum(planes(row), PlaneBit(p, e - 1))]])], r.rest)

ReadStates(p, n, wire) ==
  LET avg == Take(wire, 2 * n, LAMBDA i : IF i % 2 = 1 THEN p.state ELSE "varint")
  IN  CASE p.function = "avg"   -> [avg EXCEPT !.val = [i \in DOMAIN Pairs(@) |-> List(Pairs(@)[i])]]
        [] p.function = "count" -> Take(wire, n, LAMBDA i : "varint")
        [] OTHER                -> Take(wire, n, LAMBDA i : p.state)

\* The items of a column, before after_read_items.
ReadItems(c, n, wire) ==
  CASE c.t = "UUID" -> ReadUuids(n, wire)
    [] c.t = "QBit" -> ReadVectors(c.p, n, wire)
    [] c.t = "AggregateFunction" -> ReadStates(c.p, n, wire)
    [] OTHER ->
         Take(wire, n, LAMBDA i : CASE c.t = "String" -> "str"
                                    [] c.t \in {"FixedString", "IPv6"} -> "fix"
                                    [] OTHER -> Width(c))
=============================================================================
