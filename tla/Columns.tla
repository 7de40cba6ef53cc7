------------------------------- MODULE Columns -------------------------------
(***************************************************************************)
(* asynch/proto/columns: the columns with inner columns, and how a column  *)
(* is built from its type, prepared, written and read.                     *)
(*                                                                         *)
(* A type is a tree: t its name, of the types in its parentheses, p what   *)
(* else is there.  Splitting the text of a type into this tree is left     *)
(* out, but for create_map_column, whose split fails on some types.        *)
(***************************************************************************)
EXTENDS Scalars, FiniteSets, TLC

CONSTANTS
  Types,      \* the tree of a type named in a Variant, a Dynamic or a JSON
  TypeOrder,  \* their names, in the order of sorted()
  PathOrder   \* the paths of JSON values, in the order of sorted()

ASSUME ColumnsAssumption == DOMAIN Types \subseteq ToSet(TypeOrder)

Type(t, of, p) == [t |-> t, of |-> of, p |-> p]
Plain(t)       == Type(t, <<>>, <<>>)
Shared         == "SharedVariant"
NoScale        == -1
TypeNamed(name) == IF name \in DOMAIN Types THEN Types[name] ELSE Plain(name)
Sorted(S, order) == SelectSeq(order, LAMBDA x : x \in S)

-----------------------------------------------------------------------------
(* get_column_by_spec *)

\* ENUM is left out: create_enum_column cuts the options of the alias wrongly.
TypeAliases ==
  LET all(names, t) == [n \in names |-> t]
  IN  all({"TINYINT", "INT1", "BYTE", "TINYINT SIGNED", "INT1 SIGNED"}, "Int8")
      @@ all({"SMALLINT", "SMALLINT SIGNED"}, "Int16")
      @@ all({"INT", "INTEGER", "MEDIUMINT", "MEDIUMINT SIGNED", "INT SIGNED",
              "INTEGER SIGNED"}, "Int32")
      @@ all({"BIGINT", "SIGNED", "BIGINT SIGNED"}, "Int64")
      @@ all({"TINYINT UNSIGNED", "INT1 UNSIGNED"}, "UInt8")
      @@ all({"SMALLINT UNSIGNED", "YEAR"}, "UInt16")
      @@ all({"MEDIUMINT UNSIGNED", "INT UNSIGNED", "INTEGER UNSIGNED"}, "UInt32")
      @@ all({"UNSIGNED", "BIGINT UNSIGNED", "BIT", "SET"}, "UInt64")
      @@ all({"FLOAT", "REAL", "SINGLE"}, "Float32")
      @@ all({"DOUBLE", "DOUBLE PRECISION"}, "Float64")
      @@ all({"BOOL", "BOOLEAN"}, "Bool")
      @@ all({"CHAR", "NCHAR", "CHARACTER", "VARCHAR", "NVARCHAR", "VARCHAR2", "TEXT",
              "TINYTEXT", "MEDIUMTEXT", "LONGTEXT", "BLOB", "CLOB", "TINYBLOB",
              "MEDIUMBLOB", "LONGBLOB", "BYTEA", "VARBINARY", "BINARY LARGE OBJECT",
              "BINARY VARYING", "NCHAR VARYING", "NCHAR LARGE OBJECT"}
             \cup {"CHARACTER LARGE OBJECT", "CHARACTER VARYING", "CHAR LARGE OBJECT",
              "CHAR VARYING", "NATIONAL CHAR", "NATIONAL CHARACTER", "NATIONAL CHAR VARYING",
              "NATIONAL CHARACTER LARGE OBJECT", "NATIONAL CHARACTER VARYING"}, "String")
      @@ all({"DEC", "NUMERIC", "FIXED"}, "Decimal")
      @@ [BINARY |-> "FixedString", TIMESTAMP |-> "DateTime", INET4 |-> "IPv4",
          INET6 |-> "IPv6", GEOMETRY |-> "Geometry"]

Geometries == {"LineString", "MultiLineString", "MultiPolygon", "Point", "Polygon", "Ring"}
GeoAliases ==
  LET arrays == [LineString |-> "Point", MultiLineString |-> "LineString",
                 Ring |-> "Point", Polygon |-> "Ring", MultiPolygon |-> "Polygon"]
  IN  [g \in DOMAIN arrays |-> Type("Array", <<Plain(arrays[g])>>, <<>>)]
      @@ [Point |-> Type("Tuple", <<Plain("Float64"), Plain("Float64")>>, [names |-> <<>>]),
          Geometry |-> Type("Variant", <<>>, [among |-> Geometries])]

\* String(n) loses its length; other aliases keep what is in parentheses.
NormalizeAlias(s) ==
  IF s.t \notin DOMAIN TypeAliases THEN s
  ELSE IF TypeAliases[s.t] = "String" THEN Plain("String")
  ELSE [s EXCEPT !.t = TypeAliases[s.t]]

\* comma_re splits at a comma unless the next parenthesis closes: a comma
\* inside the key or the value is one too many when an argument after it has
\* parentheses of its own.
HasParens(s) == s.of # <<>> \/ s.p # <<>>
RECURSIVE ExtraSplit(_)
ExtraSplit(s) == \E i \in DOMAIN s.of :
                   ExtraSplit(s.of[i]) \/ (i > 1 /\ HasParens(s.of[i]))

NullScalar(t, o) ==
  CASE t \in Texts -> IF o.strings_as_bytes THEN Bytes(<<>>) ELSE Text(<<>>)
    [] t = "IPv6" -> Bytes(<<>>)
    [] t = "QBit" -> List(<<>>)
    [] t = "AggregateFunction" -> Nil
    [] OTHER -> Int_(0)
NullOf(t, of, o) ==
  CASE t = "Tuple" -> List([i \in DOMAIN of |-> of[i].nv])
    [] t = "Array" -> List(<<>>)
    [] t \in {"Map", "JSON", "Object"} -> Dict(<<>>)
    [] t \in {"Variant", "Dynamic"} -> Nil
    [] OTHER -> NullScalar(t, o)

NewColumn(t, of, p, o) ==
  [t |-> t, of |-> of, p |-> p, null |-> FALSE, nv |-> NullOf(t, of, o),
   sparse |-> FALSE, o |-> o]
Built(col, o)     == [col |-> col, o |-> o, err |-> ""]
Unbuilt(e, o)     == [col |-> <<>>, o |-> o, err |-> e]
With(b, F(_))     == IF b.err # "" THEN b ELSE [b EXCEPT !.col = F(@)]

RECURSIVE Build(_, _)
BuildAll(specs, o) ==
  FoldLeft(LAMBDA acc, s :
             IF acc.err # "" THEN acc
             ELSE LET b == Build(s, acc.o)
                  IN  IF b.err # "" THEN b ELSE [b EXCEPT !.col = Append(acc.col, @)],
           Built(<<>>, o), specs)

\* column_options is one dict for all columns of a type: the scale that a
\* DateTime64 leaves in it is passed to the columns built after it.
Build(spec, o) ==
  LET s == NormalizeAlias(spec)
      one == Build(s.of[1], o)
  IN  CASE s.t = "DateTime64" ->
             LET told == [o EXCEPT !.scale = s.p.scale]
             IN  Built(NewColumn(s.t, <<>>, s.p, told), told)
        [] s.t = "Time64" /\ s.p = <<>> ->
             Built(NewColumn(s.t, <<>>, [scale |-> IF o.scale = NoScale THEN 3 ELSE o.scale], o), o)
        [] s.t \in {"Time64", "Decimal"} /\ s.p # <<>> /\ o.scale # NoScale ->
             Unbuilt("TypeError", o)
        [] s.t = "AggregateFunction" /\ s.p.function \notin {"count", "sum", "avg"} ->
             Unbuilt("NotImplemented", o)
        [] s.t = "Map" /\ (\E i \in DOMAIN s.of : ExtraSplit(s.of[i])) -> Unbuilt("ValueError", o)
        [] s.t = "Nullable" -> With(one, LAMBDA c : [c EXCEPT !.null = TRUE])
        [] s.t = "SimpleAggregateFunction" -> one
        [] s.t = "Nested" -> Build(Type("Array", <<Type("Tuple", s.of, s.p)>>, <<>>), o)
        [] s.t \in DOMAIN GeoAliases -> Build(GeoAliases[s.t], o)
        [] s.t \in {"Array", "LowCardinality", "Tuple", "Map"} ->
             LET b == BuildAll(s.of, o)
             IN  With(b, LAMBDA cs : NewColumn(s.t, cs, s.p, b.o))
        [] s.t = "Variant" ->
             LET names == Sorted(s.p.among \ {"Nothing"}, TypeOrder)
                 b == BuildAll([i \in DOMAIN names |-> TypeNamed(names[i])], o)
             IN  With(b, LAMBDA cs : NewColumn("Variant", cs, [names |-> names], b.o))
        [] s.t = "Dynamic" -> Built(NewColumn("Dynamic", <<>>, [names |-> <<>>], o), o)
        [] s.t = "JSON" ->
             Built(NewColumn("JSON", <<>>, [paths |-> <<>>, mode |-> IF o.v2_json THEN 1 ELSE 0], o), o)
        [] s.t \in Scalar \cup {"Object"} -> Built(NewColumn(s.t, <<>>, s.p, o), o)
        [] OTHER -> Unbuilt("UnknownType", o)

\* The columns a Dynamic or a JSON builds later take what the dict holds then.
RECURSIVE Settle(_, _)
Settle(c, o) == [c EXCEPT !.o.scale = o.scale,
                          !.of = [i \in DOMAIN c.of |-> Settle(c.of[i], o)]]
ColumnBySpec(spec, o) ==
  LET b == Build(spec, o) IN With(b, LAMBDA c : Settle(c, b.o))

-----------------------------------------------------------------------------
(* prepare_items: checks and conversions, None replaced *)

FirstError(items) ==
  LET bad == {i \in DOMAIN items : Bad(items[i])}
  IN  IF bad = {} THEN "" ELSE items[CHOOSE i \in bad : \A j \in bad : i <= j].fail

\* Every value is checked before one is converted.
PreparedItem(c, v) ==
  IF v = Nil
  THEN IF c.null THEN c.nv ELSE Convert(c, IF c.o.null_as_default THEN c.nv ELSE v)
  ELSE Convert(c, v)
Prepared(c, items) ==
  LET verdict(v) == IF v # Nil /\ Refused(c, v) THEN Refusal(c) ELSE v
      checked == [i \in DOMAIN items |-> verdict(items[i])]
  IN  IF FirstError(checked) # "" THEN checked ELSE [i \in DOMAIN items |-> PreparedItem(c, items[i])]

NullsMap(items) == [i \in DOMAIN items |-> <<"B", Int_(IF items[i] = Nil THEN 1 ELSE 0)>>]

Iterable(v) == IsA(v, {"list", "dict"})
Iter(v) == IF IsA(v, {"dict"}) THEN [i \in DOMAIN v.dict |-> v.dict[i][1]] ELSE v.list
Chained(items) == FlattenSeq([i \in DOMAIN items |-> IF items[i] = Nil THEN <<>> ELSE Iter(items[i])])
Keys(items)    == Chained(items)
MapValues(items) ==
  FlattenSeq([i \in DOMAIN items |-> [j \in DOMAIN items[i].dict |-> items[i].dict[j][2]]])

\* zip(*items): as many fields as the shortest item has.
Width_(items)     == CHOOSE n \in {Len(Iter(items[i])) : i \in DOMAIN items} :
                       \A i \in DOMAIN items : n <= Len(Iter(items[i]))
Field(items, i)   == [j \in DOMAIN items |-> Iter(items[j])[i]]

Cumulative(ns) == FoldLeft(LAMBDA acc, n : Append(acc, n + (IF acc = <<>> THEN 0 ELSE Last(acc))),
                           <<>>, ns)
OffsetTokens(items) ==
  LET ends == Cumulative([i \in DOMAIN items |-> IF items[i] = Nil THEN 0 ELSE Len(Iter(items[i]))])
  IN  [i \in DOMAIN ends |-> <<"Q", Int_(ends[i])>>]

-----------------------------------------------------------------------------
(* Variant and Dynamic: the type each item is written as *)

IsPoint(v)  == IsA(v, {"list"}) /\ Len(v.list) = 2
AllOf(v, P(_)) == IsA(v, {"list"}) /\ \A i \in DOMAIN v.list : P(v.list[i])
IsLine(v)   == AllOf(v, IsPoint)
IsLines(v)  == AllOf(v, IsLine)

FitsSpec(name, c, v) ==
  /\ name = "Bool" => IsA(v, {"bool"})
  /\ c.t \in SInts \cup UInts => ~IsA(v, {"bool"})
  /\ c.t # "LowCardinality" => InstanceOf(c, v)
  /\ c.t \in UInts /\ IsA(v, {"int"}) => v.int >= 0
  /\ name = "Point" => IsPoint(v)
  /\ name \in {"LineString", "Ring"} => IsLine(v)
  /\ name \in {"Polygon", "MultiLineString"} => IsLines(v)
  /\ name = "MultiPolygon" => AllOf(v, IsLines)

NullDiscriminator == 255
\* _explicit_item: a value that comes with the name of its type, in a pair or in a
\* dict of a type and a value.
Entry(v, word) == {v.dict[i][2] : i \in {j \in DOMAIN v.dict : v.dict[j][1] = [key |-> <<word>>]}}
Explicit(v) ==
  \/ IsA(v, {"typed"})
  \/ IsA(v, {"dict"}) /\ Entry(v, "type") # {} /\ Entry(v, "value") # {}
TypeAndValue(v) ==
  IF IsA(v, {"typed"}) THEN v.typed
  ELSE LET type == CHOOSE x \in Entry(v, "type") : TRUE
       IN  <<IF IsA(type, {"name"}) THEN type.name ELSE "text", CHOOSE x \in Entry(v, "value") : TRUE>>

\* [d, v]: the discriminator, 0 for the first alternative, and the value.  A pair
\* whose name is not that of an alternative is a list of a str and a value.
Untyped(v) == IF IsA(v, {"typed"}) THEN List(<<Text(<<>>), v.typed[2]>>) ELSE v
Resolved(c, v) ==
  LET named == {i \in DOMAIN c.of : Explicit(v) /\ c.p.names[i] = TypeAndValue(v)[1]}
      fits  == {i \in DOMAIN c.of : FitsSpec(c.p.names[i], c.of[i], Untyped(v))}
      first(S) == (CHOOSE i \in S : \A j \in S : i <= j) - 1
  IN  CASE v = Nil     -> [d |-> NullDiscriminator, v |-> Nil]
        [] named # {}  -> [d |-> first(named), v |-> TypeAndValue(v)[2]]
        [] fits # {}   -> [d |-> first(fits), v |-> Untyped(v)]
        [] OTHER       -> [d |-> NullDiscriminator, v |-> Fail("TypeError")]
Split(c, items) == [i \in DOMAIN items |-> Resolved(c, items[i])]
Share(split, d) ==
  LET mine == SelectSeq(split, LAMBDA r : r.d = d) IN [i \in DOMAIN mine |-> mine[i].v]
SplitError(split) == FirstError([i \in DOMAIN split |-> split[i].v])

Inferred(v) ==
  CASE IsA(v, {"bool"})  -> "Bool"
    [] IsA(v, {"int"})   -> CASE v.int \in 0..255 -> "UInt8"
                              [] v.int \in -128..127 -> "Int8"
                              [] v.int \in 0..65535 -> "UInt16"
                              [] v.int \in -32768..32767 -> "Int16"
                              [] v.int > 0 -> "UInt32"
                              [] OTHER -> "Int32"
    [] IsA(v, {"float"}) -> "Float64"
    [] IsA(v, {"bytes"} \cup StrLike) -> "String"
    [] IsA(v, {"list"})  -> "Array(Dynamic)"
    [] IsA(v, {"dict"})  -> "JSON"
    [] OTHER             -> "TypeError"
\* A list of two that begins with a str passes for a value with its type.
Tagged(v) == CASE v = Nil -> v
               [] Explicit(v) -> [typed |-> TypeAndValue(v)]
               [] IsA(v, {"list"}) /\ Len(v.list) = 2 /\ IsA(v.list[1], {"text"}) ->
                    [typed |-> <<"text", v.list[2]>>]
               [] OTHER -> [typed |-> <<Inferred(v), v>>]
DynamicTypes(items) == {Tagged(items[i]).typed[1] : i \in {j \in DOMAIN items : items[j] # Nil}}
DynamicError(items) == DynamicTypes(items) \cap {"TypeError", Shared} # {}

\* DynamicColumn._make_variant_column.
VariantOf(c, types) ==
  LET names == Sorted(types \cup {Shared}, TypeOrder)
      b == BuildAll([i \in DOMAIN names |-> IF names[i] = Shared THEN Plain("String")
                                            ELSE TypeNamed(names[i])], c.o)
      shared(cs) == [i \in DOMAIN cs |-> IF names[i] # Shared THEN cs[i]
                                         ELSE NewColumn("String", <<>>, <<>>,
                                                [c.o EXCEPT !.strings_as_bytes = TRUE])]
  IN  With(b, LAMBDA cs : NewColumn("Variant", shared(cs), [names |-> names], c.o))

-----------------------------------------------------------------------------
(* JSON: a key is the sequence of its parts, one more for every dot in it *)

RECURSIVE FlattenJson(_, _)
FlattenJson(v, prefix) ==
  FlattenSeq([i \in DOMAIN v.dict |->
    LET path == prefix \o v.dict[i][1].key
        item == v.dict[i][2]
    IN  IF IsA(item, {"dict"}) THEN FlattenJson(item, path) ELSE << <<path, item>> >>])

PathItem(flat, path) ==
  LET at == {i \in DOMAIN flat : flat[i][1] = path}
  IN  IF at = {} THEN Nil ELSE flat[CHOOSE i \in at : \A j \in at : j <= i][2]

RECURSIVE SetPath(_, _, _)
SetPath(target, path, v) ==
  IF ~IsA(target, {"dict"}) THEN Fail("TypeError")
  ELSE LET key == [key |-> <<path[1]>>]
           at  == {i \in DOMAIN target.dict : target.dict[i][1] = key}
           old == IF at = {} THEN Dict(<<>>) ELSE target.dict[CHOOSE i \in at : TRUE][2]
           new == IF Len(path) = 1 THEN v ELSE SetPath(old, Tail(path), v)
       IN  IF Bad(new) THEN new
           ELSE IF at = {} THEN Dict(Append(target.dict, <<key, new>>))
           ELSE Dict([target.dict EXCEPT ![CHOOSE i \in at : TRUE] = <<key, new>>])

-----------------------------------------------------------------------------
(* prepare_state_prefix: what a column must know of its items beforehand *)

RECURSIVE Prepare(_, _)
PrepareAll(c, cs, fields) ==
  LET all == [i \in DOMAIN cs |-> IF i \in DOMAIN fields THEN Prepare(cs[i], fields[i])
                                  ELSE Built(cs[i], cs[i].o)]
      bad == {i \in DOMAIN all : all[i].err # ""}
  IN  IF bad # {} THEN all[CHOOSE i \in bad : \A j \in bad : i <= j]
      ELSE Built([c EXCEPT !.of = [i \in DOMAIN all |-> all[i].col]], c.o)

Prepare(c, items) ==
  CASE c.t \in {"Array", "Map", "Tuple"}
       /\ \E i \in DOMAIN items : items[i] # Nil /\ ~Iterable(items[i]) -> Unbuilt("TypeError", c.o)
    [] c.t = "Array" -> PrepareAll(c, c.of, <<Chained(items)>>)
    [] c.t = "Tuple" ->
         LET rows == [i \in DOMAIN items |-> IF items[i] = Nil THEN c.nv ELSE items[i]]
         IN  PrepareAll(c, c.of, IF rows = <<>> THEN [i \in DOMAIN c.of |-> <<>>]
                                 ELSE [i \in 1..Width_(rows) |-> Field(rows, i)])
    [] c.t = "Map" ->
         LET maps == SelectSeq(items, LAMBDA v : v # Nil)
         IN  PrepareAll(c, c.of, <<Keys(maps), MapValues(maps)>>)
    [] c.t = "Variant" ->
         LET split == Split(c, items)
         IN  IF SplitError(split) # "" THEN Unbuilt(SplitError(split), c.o)
             ELSE PrepareAll(c, c.of, [i \in DOMAIN c.of |-> Share(split, i - 1)])
    [] c.t = "Dynamic" ->
         IF DynamicError(items) THEN Unbuilt("TypeError", c.o)
         ELSE LET types == DynamicTypes(items)
                  made  == VariantOf(c, types)
                  ready == Prepare(made.col, [i \in DOMAIN items |-> Tagged(items[i])])
              IN  IF made.err # "" THEN made ELSE IF ready.err # "" THEN ready
                  ELSE Built([c EXCEPT !.of = <<ready.col>>,
                                       !.p = [names |-> Sorted(types, TypeOrder)]], c.o)
    [] c.t = "JSON" /\ c.p.mode = 0 ->
         IF \E i \in DOMAIN items : ~IsA(items[i], {"dict"}) THEN Unbuilt("AttributeError", c.o)
         ELSE LET flat  == [i \in DOMAIN items |-> FlattenJson(items[i], <<>>)]
                  paths == Sorted(UNION {{flat[i][j][1] : j \in DOMAIN flat[i]} : i \in DOMAIN flat}, PathOrder)
                  blank == NewColumn("Dynamic", <<>>, [names |-> <<>>], c.o)
              IN  PrepareAll([c EXCEPT !.p.paths = paths], [i \in DOMAIN paths |-> blank],
                    [i \in DOMAIN paths |-> [j \in DOMAIN flat |-> PathItem(flat[j], paths[i])]])
    [] OTHER -> Built(c, c.o)

-----------------------------------------------------------------------------
(* write_state_prefix *)

RECURSIVE WritePrefix(_)
PrefixAll(cs) == FlattenSeq([i \in DOMAIN cs |-> WritePrefix(cs[i])])
Names(names)  == [i \in DOMAIN names |-> <<"str", names[i]>>]
Count(s)      == << <<"varint", Int_(Len(s))>> >>

WritePrefix(c) ==
  CASE c.t \in {"Array", "Tuple", "Map"} -> PrefixAll(c.of)
    [] c.t = "LowCardinality" -> << <<"Q", Int_(1)>> >>
    [] c.t = "Object" -> << <<"B", Int_(1)>> >>
    [] c.t = "Variant" -> << <<"Q", Int_(0)>> >> \o PrefixAll(c.of)
    [] c.t = "Dynamic" -> << <<"Q", Int_(1)>> >> \o Count(c.p.names) \o Count(c.p.names)
                          \o Names(c.p.names) \o PrefixAll(c.of)
    [] c.t = "JSON" -> << <<"Q", Int_(c.p.mode)>> >>
                       \o (IF c.p.mode # 0 THEN <<>>
                           ELSE << <<"varint", Int_(1024)>> >> \o Count(c.p.paths)
                                \o Names(c.p.paths) \o PrefixAll(c.of))
    [] OTHER -> <<>>

-----------------------------------------------------------------------------
(* write_data, and _write_data for a column inside an Array *)

RECURSIVE WriteData(_, _), WriteInner(_, _), WriteSizes(_, _), WriteLeaf(_, _)
WriteAll(cs, F(_)) ==
  FoldLeft(LAMBDA acc, i : IF acc.err # "" THEN acc ELSE Then(acc, WriteData(cs[i], F(i))),
           Wrote(<<>>), [i \in DOMAIN cs |-> i])

\* An Array writes the sizes of every depth first, then the innermost nulls,
\* then the innermost items; only the null map of a depth knows a None.
WriteSizes(c, items) ==
  LET sizes == (IF c.null THEN NullsMap(items) ELSE <<>>) \o OffsetTokens(items)
  IN  IF \E i \in DOMAIN items : ~(IF items[i] = Nil THEN c.null ELSE Iterable(items[i]))
      THEN [out |-> <<>>, err |-> "TypeError"]
      ELSE Then(Wrote(sizes), IF c.of[1].t = "Array" THEN WriteSizes(c.of[1], Chained(items))
                              ELSE Wrote(<<>>))
WriteLeaf(c, items) ==
  CASE \E i \in DOMAIN items : items[i] = Nil -> Stopped("TypeError")
    [] c.of[1].t = "Array" -> WriteLeaf(c.of[1], Chained(items))
    [] OTHER -> Then(Wrote(IF c.of[1].null THEN NullsMap(Chained(items)) ELSE <<>>),
                     WriteInner(c.of[1], Chained(items)))

\* LowCardinality: the distinct values in the order they come, and their places.
Distinct(items) == FoldLeft(LAMBDA acc, v : IF Contains(acc, v) THEN acc ELSE Append(acc, v),
                            <<>>, items)
KeyType(n) == CASE n < 256 -> 0 [] n < 65536 -> 1 [] OTHER -> 2     \* int(log2(n) / 8)
KeyWidth   == <<"B", "H", "I">>
AdditionalKeys == 1536      \* has_additional_keys_bit | need_update_dictionary

WriteLowCardinality(c, items) ==
  LET inner  == [c.of[1] EXCEPT !.null = FALSE]
      nulls  == c.of[1].null
      words  == Distinct(SelectSeq(items, LAMBDA v : ~(nulls /\ v = Nil)))
      size   == Len(words) + (IF nulls THEN 1 ELSE 0)
      key(v) == IF nulls /\ v = Nil THEN 0
                ELSE (CHOOSE i \in DOMAIN words : words[i] = v) - (IF nulls THEN 0 ELSE 1)
      keys   == Whole([i \in DOMAIN items |-> <<KeyWidth[KeyType(size) + 1],
                  IF Fits(KeyWidth[KeyType(size) + 1], key(items[i])) THEN Int_(key(items[i]))
                  ELSE Fail("pack")>>])
  IN  IF size = 0 THEN Wrote(<<>>)
      ELSE Then(Wrote(<< <<"Q", Int_(AdditionalKeys + KeyType(size))>>, <<"Q", Int_(size)>> >>),
           Then(IF nulls THEN WriteItems(inner, <<inner.nv>>) ELSE Wrote(<<>>),
           Then(WriteData(inner, words),
           Then(Wrote(<< <<"Q", Int_(Len(items))>> >>), keys))))

WriteTuple(c, items) ==
  LET rows == Prepared(c, items)
  IN  CASE rows = <<>> -> Wrote(<<>>)
        [] FirstError(rows) # "" -> Stopped(FirstError(rows))
        [] \E i \in DOMAIN rows : ~Iterable(rows[i]) -> Stopped("TypeError")
        [] Width_(rows) < Len(c.of) -> Stopped("IndexError")
        [] OTHER -> WriteAll(c.of, LAMBDA i : Field(rows, i))

WriteVariant(c, items) ==
  LET split == Split(c, items)
  IN  IF SplitError(split) # "" THEN Stopped(SplitError(split))
      ELSE Then(Wrote([i \in DOMAIN split |-> <<"B", Int_(split[i].d)>>]),
                WriteAll(c.of, LAMBDA i : Share(split, i - 1)))

WriteDynamic(c, items) ==
  IF DynamicError(items) \/ c.of = <<>>
     \/ DynamicTypes(items) # ToSet(c.p.names) THEN Stopped("RuntimeError")
  ELSE WriteVariant(c.of[1], [i \in DOMAIN items |-> Tagged(items[i])])

\* The paths, and Map(String, String) of nothing for the shared data.
EmptyMaps(n) == [i \in 1..n |-> <<"Q", Int_(0)>>]
WritePaths(c, items) ==
  LET flat == [i \in DOMAIN items |-> FlattenJson(items[i], <<>>)]
  IN  Then(WriteAll(c.of, LAMBDA i : [j \in DOMAIN flat |-> PathItem(flat[j], c.p.paths[i])]),
           Wrote(EmptyMaps(Len(items))))

WriteInner(c, items) ==
  LET ready == Prepared(c, items)
  IN  CASE c.t = "LowCardinality" -> WriteLowCardinality(c, items)
        [] FirstError(ready) # "" -> Stopped(FirstError(ready))
        [] c.t = "Tuple"   -> WriteTuple(c, ready)
        [] c.t = "Variant" -> WriteVariant(c, ready)
        [] c.t = "Dynamic" -> WriteDynamic(c, ready)
        [] c.t = "Map" ->
             IF \E i \in DOMAIN ready : ~IsA(ready[i], {"dict"}) THEN Stopped("AttributeError")
             ELSE Then(Wrote(OffsetTokens(ready)),
                  Then(WriteData(c.of[1], Keys(ready)), WriteData(c.of[2], MapValues(ready))))
        [] c.t \in {"JSON", "Object"} -> Wrote([i \in DOMAIN ready |-> <<"str", [json |-> ready[i]]>>])
        [] OTHER -> WriteItems(c, ready)

WriteData(c, items) ==
  CASE c.t = "Tuple" -> WriteTuple(c, items)
    [] c.t = "Array" ->
         LET rows == Prepared([c EXCEPT !.null = FALSE], items)
         IN  IF FirstError(rows) # "" THEN Stopped(FirstError(rows))
             ELSE Then(WriteSizes(c, rows), WriteLeaf(c, rows))
    [] c.t = "Variant" -> WriteVariant(c, items)
    [] c.t = "Dynamic" -> WriteDynamic(c, items)
    [] c.t = "JSON" /\ c.p.mode = 0 -> WritePaths(c, items)
    [] OTHER -> Then(Wrote(IF c.null THEN NullsMap(items) ELSE <<>>), WriteInner(c, items))

\* write_column: what it sends, and the exception it raises instead.
WriteColumn(spec, items, o) ==
  LET made  == ColumnBySpec(spec, o)
      ready == Prepare(made.col, items)
      raised(e) == IF e \in {"mismatch", "pack"} THEN "TypeMismatch" ELSE e
  IN  IF made.err # "" THEN Stopped(made.err)
      ELSE IF ready.err # "" THEN Stopped(raised(ready.err))
      ELSE LET w == Then(Wrote(WritePrefix(ready.col)), WriteData(ready.col, items))
           IN  [w EXCEPT !.err = raised(@)]

-----------------------------------------------------------------------------
(* read_state_prefix *)

RECURSIVE ReadPrefix(_, _)
PrefixesAll(c, cs, wire) ==
  FoldLeft(LAMBDA acc, x : IF acc.err # "" THEN acc
                           ELSE LET r == ReadPrefix(x, acc.rest)
                                IN  [r EXCEPT !.val = [acc.val EXCEPT !.of = Append(@, r.val)]],
           Read([c EXCEPT !.of = <<>>], wire), cs)

\* The value of one token of encoding w, given to F.
One(wire, w, F(_, _)) ==
  LET r == Take(wire, 1, LAMBDA i : w)
  IN  IF r.err # "" THEN r ELSE F(r.val[1], r.rest)
Expect(wire, w, good, F(_)) ==
  One(wire, w, LAMBDA v, rest : IF v.int \in good THEN F(rest) ELSE Unread("NotImplemented"))
CountedNames(wire, F(_, _)) ==
  One(wire, "varint", LAMBDA n, rest :
    LET r == Take(rest, n.int, LAMBDA i : "str") IN IF r.err # "" THEN r ELSE F(r.val, r.rest))

\* One flag for every column of a type once the block says so.
Flagged(c, wire, F(_, _)) ==
  IF ~c.o.custom THEN F(c, wire)
  ELSE One(wire, "varint", LAMBDA v, rest : F([c EXCEPT !.sparse = (v # Int_(0))], rest))

ReadDynamicPrefix(c, wire) ==
  One(wire, "Q", LAMBDA version, rest :
    IF version.int \notin {1, 2} THEN Unread("NotImplemented")
    ELSE LET named(w) == CountedNames(w, LAMBDA names, more :
               LET made == VariantOf(c, ToSet(names))
               IN  IF made.err # "" THEN Unread(made.err)
                   ELSE PrefixesAll([c EXCEPT !.p = [names |-> names]], <<made.col>>, more))
         IN  IF version.int = 1 THEN One(rest, "varint", LAMBDA v, more : named(more))
             ELSE named(rest))

\* Serialization 0, 2 and 4 have the shared data after the paths; 4 may say how
\* many buckets it has.
ReadJsonPrefix(c, wire) ==
  One(wire, "Q", LAMBDA version, rest :
    LET mode == version.int
        map == ColumnBySpec(Type("Map", <<Plain("String"), Plain("String")>>, <<>>), c.o).col
        paths(names, w) == PrefixesAll([c EXCEPT !.p = [paths |-> names, mode |-> mode]],
                             [i \in DOMAIN names |-> NewColumn("Dynamic", <<>>, [names |-> <<>>], c.o)], w)
        read(names, w) == LET r == paths(names, w)
                          IN  IF r.err # "" \/ mode = 3 THEN r
                              ELSE LET m == ReadPrefix(map, r.rest)
                                   IN  IF m.err # "" THEN m ELSE [m EXCEPT !.val = r.val]
        buckets(names, w) ==
          One(w, "varint", LAMBDA v, more :
            IF v.int \in {1, 2} THEN One(more, "varint", LAMBDA n, last : read(names, last))
            ELSE read(names, more))
    IN  CASE mode = 1 -> Read([c EXCEPT !.p = [paths |-> <<>>, mode |-> 1]], rest)
          [] mode = 0 -> One(rest, "varint", LAMBDA v, more : CountedNames(more, read))
          [] mode \in {2, 3} -> CountedNames(rest, read)
          [] mode = 4 -> CountedNames(rest, buckets)
          [] OTHER -> Unread("NotImplemented"))

ReadPrefix(c, wire) ==
  Flagged(c, wire, LAMBDA x, rest :
    CASE c.t \in {"Array", "Tuple", "Map"} -> PrefixesAll(x, x.of, rest)
      [] c.t = "LowCardinality" -> One(rest, "Q", LAMBDA v, more : Read(x, more))
      [] c.t = "Variant" -> Expect(rest, "Q", {0}, LAMBDA more : PrefixesAll(x, x.of, more))
      [] c.t = "Dynamic" -> ReadDynamicPrefix(x, rest)
      [] c.t = "JSON"    -> ReadJsonPrefix(x, rest)
      [] OTHER           -> Read(x, rest))

-----------------------------------------------------------------------------
(* read_data, and _read_data for a column inside an Array *)

RECURSIVE ReadData(_, _, _), ReadInner(_, _, _, _), ReadArray(_, _, _)
ReadAll(cs, wire, ns) ==
  FoldLeft(LAMBDA acc, i : IF acc.err # "" THEN acc
                           ELSE LET r == ReadData(cs[i], ns[i], acc.rest)
                                IN  [r EXCEPT !.val = Append(acc.val, @)],
           Read(<<>>, wire), [i \in DOMAIN cs |-> i])
Bind(r, F(_, _)) == IF r.err # "" THEN r ELSE F(r.val, r.rest)

TakeNulls(null, n, wire) ==
  IF null THEN Bind(Take(wire, n, LAMBDA i : "B"),
                    LAMBDA v, rest : Read([i \in 1..n |-> v[i] # Int_(0)], rest))
  ELSE Read([i \in 1..n |-> FALSE], wire)
TakeOffsets(n, wire) ==
  Bind(Take(wire, n, LAMBDA i : "Q"), LAMBDA v, rest : Read([i \in 1..n |-> v[i].int], rest))

From(ends, i)  == IF i = 1 THEN 0 ELSE ends[i - 1]
Total(ends)    == IF ends = <<>> THEN 0 ELSE Last(ends)
Slice(s, ends, i) == SubSeq(s, From(ends, i) + 1, ends[i])
Masked(vals, nulls) == [i \in DOMAIN vals |-> IF nulls[i] THEN Nil ELSE vals[i]]

ReadArray(c, n, wire) ==
  Bind(TakeNulls(c.null, n, wire), LAMBDA nulls, w1 :
  Bind(TakeOffsets(n, w1), LAMBDA ends, w2 :
    LET total == Total(ends)
        inner == c.of[1]
        lists(vals, rest) ==
          Read(Masked([i \in 1..n |-> List(Slice(vals, ends, i))], nulls), rest)
    IN  IF inner.t = "Array" THEN Bind(ReadArray(inner, total, w2), lists)
        ELSE Bind(TakeNulls(inner.null, total, w2), LAMBDA hidden, w3 :
               IF total = 0 THEN lists(<<>>, w3)
               ELSE Bind(ReadInner(inner, total, hidden, w3), lists))))

\* index[1:] is added to a tuple: not for the columns that read a list.
ReadLowCardinality(c, n, wire) ==
  LET inner == [c.of[1] EXCEPT !.null = FALSE]
      nulls == c.of[1].null
  IN  IF n = 0 THEN Read(<<>>, wire)
      ELSE One(wire, "Q", LAMBDA kind, w1 :
           One(w1, "Q", LAMBDA size, w2 :
           Bind(ReadData(inner, size.int, w2), LAMBDA words, w3 :
             IF nulls /\ inner.t \in Big THEN Unread("TypeError")
             ELSE One(w3, "Q", LAMBDA count, w4 :
                  Bind(Take(w4, n, LAMBDA i : KeyWidth[(kind.int % 16) + 1]), LAMBDA keys, w5 :
                    Read([i \in 1..n |-> IF nulls /\ keys[i] = Int_(0) THEN Nil
                                         ELSE words[keys[i].int + 1]], w5))))))

ReadTuple(c, n, wire) ==
  Bind(ReadAll(c.of, wire, [i \in DOMAIN c.of |-> n]), LAMBDA fields, rest :
    Read([row \in 1..n |->
            LET vals == [i \in DOMAIN c.of |-> fields[i][row]]
            IN  IF c.p.names # <<>> /\ c.o.namedtuple_as_json
                THEN Dict([i \in DOMAIN vals |-> <<Text(c.p.names[i]), vals[i]>>])
                ELSE List(vals)], rest))

ReadMap(c, n, wire) ==
  IF n = 0 THEN Read(<<Dict(<<>>)>>, wire)
  ELSE Bind(TakeOffsets(n, wire), LAMBDA ends, w1 :
       Bind(ReadAll(c.of, w1, <<Total(ends), Total(ends)>>), LAMBDA kv, rest :
         Read([row \in 1..n |->
                 LET keys == Slice(kv[1], ends, row)
                 IN  Dict([i \in DOMAIN keys |-> <<keys[i], Slice(kv[2], ends, row)[i]>>])], rest)))

ReadVariant(c, n, wire) ==
  Bind(Take(wire, n, LAMBDA i : "B"), LAMBDA ds, w1 :
    LET mine(d, upto) == Cardinality({i \in 1..upto : ds[i] = Int_(d)})
    IN  Bind(ReadAll(c.of, w1, [i \in DOMAIN c.of |-> mine(i - 1, n)]), LAMBDA vals, rest :
          Read([i \in 1..n |-> IF ds[i] = Int_(NullDiscriminator) THEN Nil
                               ELSE vals[ds[i].int + 1][mine(ds[i].int, i)]], rest)))

JsonRow(paths, vals, row) ==
  FoldLeft(LAMBDA acc, i : IF Bad(acc) \/ vals[i][row] = Nil THEN acc
                           ELSE SetPath(acc, paths[i], vals[i][row]),
           Dict(<<>>), [i \in DOMAIN paths |-> i])
\* The shared data of a server that has none: an empty map for every row.
ReadShared(c, n, wire) == IF c.p.mode = 3 THEN Read(<<>>, wire) ELSE TakeOffsets(n, wire)
ReadJson(c, n, wire) ==
  IF c.p.mode = 1
  THEN Bind(Take(wire, n, LAMBDA i : "str"), LAMBDA v, rest : Read([i \in 1..n |-> v[i].json], rest))
  ELSE Bind(ReadAll(c.of, wire, [i \in DOMAIN c.of |-> n]), LAMBDA vals, w1 :
       Bind(ReadShared(c, n, w1), LAMBDA ends, rest :
         LET rows == [row \in 1..n |-> JsonRow(c.p.paths, vals, row)]
         IN  IF FirstError(rows) # "" THEN Unread(FirstError(rows)) ELSE Read(rows, rest)))

\* A server answers an Object('json') with a column of the type it names.
ReadObject(c, n, wire) ==
  One(wire, "B", LAMBDA v, w1 :
  One(w1, "str", LAMBDA name, w2 :
    LET made == ColumnBySpec(TypeNamed(name), c.o)
    IN  IF made.err # "" THEN Unread(made.err)
        ELSE Bind(ReadPrefix(made.col, w2), LAMBDA col, rest : ReadData(col, n, rest))))

ReadItemsOf(c, n, wire) ==
  CASE c.t = "Tuple"   -> ReadTuple(c, n, wire)
    [] c.t = "Map"     -> ReadMap(c, n, wire)
    [] c.t = "Variant" -> ReadVariant(c, n, wire)
    [] c.t = "Dynamic" -> ReadVariant(c.of[1], n, wire)
    [] c.t = "JSON"    -> ReadJson(c, n, wire)
    [] c.t = "Object"  -> ReadObject(c, n, wire)
    [] OTHER           -> ReadItems(c, n, wire)

ReadInner(c, n, nulls, wire) ==
  IF c.t = "LowCardinality" THEN ReadLowCardinality(c, n, wire)
  ELSE Bind(ReadItemsOf(c, n, wire), LAMBDA raw, rest :
         LET vals == [i \in DOMAIN raw |->
                        CASE c.t \notin Scalar -> IF i <= n /\ nulls[i] THEN Nil ELSE raw[i]
                          [] nulls[i]          -> Nil
                          [] OTHER             -> Restore(c, raw[i])]
         IN  IF FirstError(vals) # "" THEN Unread(FirstError(vals)) ELSE Read(vals, rest))

-----------------------------------------------------------------------------
(* SparseSerialization: only the values that are not the default are sent *)

\* A group says how many defaults precede a value; the last one, how many rows
\* follow the last value.  [groups, end] |-> [places, total].
RECURSIVE SparseGroups(_, _, _)
SparseGroups(wire, places, total) ==
  One(wire, "group", LAMBDA g, rest :
    LET next == total + g.size + 1
    IN  IF g.last THEN Read([places |-> places, total |-> next], rest)
        ELSE SparseGroups(rest, Append(places, next), next))
\* null_value as after_read_items makes it: 0 is no value of some types.
Default_(c) ==
  CASE c.t \in Texts  -> c.nv
    [] c.t = "UUID"   -> [uuid |-> <<0, 0>>]
    [] c.t = "IPv6"   -> Fail("AddressValueError")
    [] OTHER          -> Restore(c, c.nv)
Scattered(c, at, vals) ==
  [i \in 1..at.total - 1 |->
     IF Contains(at.places, i) THEN vals[CHOOSE k \in DOMAIN at.places : at.places[k] = i]
     ELSE Default_(c)]

ReadData(c, n, wire) ==
  LET whole(k, w) == Bind(TakeNulls(c.null, k, w), LAMBDA nulls, rest : ReadInner(c, k, nulls, rest))
  IN  CASE c.t = "Array"   -> ReadArray(c, n, wire)
        [] c.t = "Tuple"   -> ReadTuple(c, n, wire)
        [] c.t = "Variant" -> ReadVariant(c, n, wire)
        [] c.t = "Dynamic" -> ReadVariant(c.of[1], n, wire)
        [] c.t = "JSON"    -> ReadJson(c, n, wire)
        [] c.sparse ->
             Bind(SparseGroups(wire, <<>>, 0), LAMBDA at, w1 :
             Bind(whole(Len(at.places), w1), LAMBDA vals, rest :
               IF Bad(Default_(c)) THEN Unread(Default_(c).fail)
               ELSE Read(Scattered(c, at, vals), rest)))
        [] OTHER -> whole(n, wire)

\* read_column.
ReadColumn(spec, n, o, wire) ==
  LET made == ColumnBySpec(spec, o)
  IN  IF made.err # "" THEN Unread(made.err)
      ELSE Bind(ReadPrefix(made.col, wire), LAMBDA c, rest : ReadData(c, n, rest))
=============================================================================
