------------------------------- MODULE MCWire -------------------------------
(***************************************************************************)
(* Instances of Blocks for TLC: every type, a few values of each, and what *)
(* each value must come back as.  A sample is <<in, out, checked>>: what   *)
(* the caller gives, what the peer must read, and what it must read when   *)
(* types_check is on; a Fail for a value that must be refused.             *)
(*                                                                         *)
(* And of Buffers, which carries what Blocks writes: a behaviour is one of *)
(* the two.                                                                *)
(***************************************************************************)
EXTENDS Blocks, Buffers

Offsets == [Local |-> 720000, Server |-> 1080000, Paris |-> 360000]

O == [types_check |-> FALSE, strings_as_bytes |-> FALSE, null_as_default |-> FALSE,
      server_tz |-> "Server", local_tz |-> "Local", use_client_time_zone |-> FALSE,
      namedtuple_as_json |-> TRUE, custom |-> FALSE, v2_json |-> FALSE, scale |-> NoScale]
Checked(o) == [o EXCEPT !.types_check = TRUE]

No        == Fail("TypeMismatch")
Same(v)   == <<v, v, v>>
As(v, w)  == <<v, w, w>>
Not(v, e) == <<v, Fail(e), No>>
Of(w, S)  == {<<s, w, w>> : s \in S}

A == Text(<<97>>)
AB == Text(<<97, 98>>)
E == Text(<<>>)
X == <<120>>
Raw == Bytes(<<255>>)

-----------------------------------------------------------------------------
(* The plain types *)

Sized(lo, hi) ==
  {Same(Int_(lo)), Same(Int_(hi)), As(Bool(TRUE), Int_(1)), Not(A, "TypeMismatch"),
   <<Nil, No, Fail("TypeError")>>, <<Int_(lo - 1), No, No>>,
   \* types_check chops the bits that do not fit: an unsigned overflow wraps
   <<Int_(hi + 1), No, IF lo < 0 THEN No ELSE Int_(0)>>}
Wide  == {Same(Int_(-3)), Same(Int_(70000)), Not(E, "TypeMismatch")}
WideU == {Same(Int_(70000)), <<Int_(-1), No, No>>}
Huge  == {Same(Int_(-3)), Not(A, "AttributeError")}
Uuid  == [uuid |-> <<1, 2>>]
V6    == Bytes([i \in 1..16 |-> IF i = 16 THEN 9 ELSE 0])

Numbers ==
  [Int8 |-> Sized(-128, 127), UInt8 |-> Sized(0, 255),
   Int16 |-> Sized(-32768, 32767), UInt16 |-> Sized(0, 65535),
   Int32 |-> Wide, Int64 |-> Wide, Int128 |-> Huge, Int256 |-> Huge, Interval |-> Wide,
   UInt32 |-> WideU, UInt64 |-> WideU, UInt128 |-> {Same(Int_(70000))}, UInt256 |-> {Same(Int_(70000))},
   Float32 |-> {Same([float |-> 3]), As(Int_(-2), [float |-> -2]), Not(A, "TypeMismatch")},
   Float64 |-> {Same([float |-> 3]), As(Bool(TRUE), [float |-> 1])},
   BFloat16 |-> {Same([float |-> 255]), As([float |-> 257], [float |-> 256]), Not(Raw, "ValueError")},
   Bool |-> {Same(Bool(TRUE)), <<Int_(7), Bool(TRUE), No>>, <<E, Bool(FALSE), No>>},
   UUID |-> {Same(Uuid), As([repr |-> Uuid], Uuid), <<Int_(0), [uuid |-> <<0, 0>>], No>>,
             Not(Int_(1), "AttributeError"), Not(Raw, "TypeError"),
             <<A, Fail("CannotParseUuid"), Fail("CannotParseUuid")>>},
   IPv4 |-> {Same([ip4 |-> 7]), As(Int_(7), [ip4 |-> 7]), As([repr |-> [ip4 |-> 7]], [ip4 |-> 7]),
             Not(A, "CannotParseDomain"), <<Int_(-1), No, No>>},
   IPv6 |-> {Same([ip6 |-> 7]), As([repr |-> [ip6 |-> 7]], [ip6 |-> 7]), As(V6, [ip6 |-> 9]),
             Not(A, "CannotParseDomain")},
   String |-> {Same(A), Same(E), <<Raw, Raw, No>>, Not(Int_(1), "AttributeError")},
   INTEGER |-> {Same(Int_(-3))}, TEXT |-> {Same(A)}, INET4 |-> {Same([ip4 |-> 7])},
   Nothing |-> {<<Int_(0), Nil, Fail("TypeError")>>}, Null |-> {<<Int_(0), Nil, Fail("TypeError")>>}]

-----------------------------------------------------------------------------
(* Types with parameters.  Local is two hours ahead of UTC, Server three and *)
(* Paris one.                                                                *)

Enum(w)    == Type(w, <<>>, [options |-> << <<<<97>>, -1>>, <<<<98>>, 5>>, <<<<99>>, 5>> >>])
Fixed      == Type("FixedString", <<>>, [length |-> 2])
Clock(tz)  == Type("DateTime", <<>>, [tz |-> tz])
Clock64(s, tz) == Type("DateTime64", <<>>, [tz |-> tz, scale |-> s])
Time64(s)  == Type("Time64", <<>>, [scale |-> s])
Dec(p, s)  == Type("Decimal", <<>>, [precision |-> p, scale |-> s])
QBit(e, d) == Type("QBit", <<>>, [element |-> e, dimension |-> d])
State(f, w) == Type("AggregateFunction", <<>>, [function |-> f, state |-> w])
Floats_(s) == List([i \in DOMAIN s |-> [float |-> s[i]]])

Naive(n) == [naive |-> n]
Aware(n) == [aware |-> n]
Zoned(n, ahead) == [zoned |-> <<n, ahead>>]
Noon     == 4320000
With_(spec, vals) == [spec |-> spec, vals |-> vals]

Parametric ==
  { \* with types_check the values of an Enum are not looked up any more
    With_(Enum("Enum8"), {<<Text(<<97>>), Text(<<97>>), Fail("TypeError")>>, As(Int_(-1), Text(<<97>>)),
                          As(Int_(5), Text(<<99>>)), <<[enum |-> <<97>>], Text(<<97>>), Fail("TypeError")>>,
                          <<Text(<<122>>), Fail("LogicalError"), Fail("TypeError")>>}),
    With_(Enum("Enum16"), {<<Text(<<98>>), Text(<<99>>), Fail("TypeError")>>}),
    With_(Fixed, {Same(A), Same(AB), As(Text(<<97, 0>>), A), <<Raw, Raw, No>>,
                  <<Text(<<97, 97, 97>>), Fail("TooLargeStringSize"), Fail("TooLargeStringSize")>>}),
    With_(Plain("Date"), {Same([date |-> 0]), Same([date |-> 65535]), As([date |-> 65536], [date |-> 0]),
                          As([repr |-> [date |-> 9]], [date |-> 9]), As(Naive(Noon), [date |-> 0]),
                          \* a day is that of its own clock
                          As(Zoned(8639999, 360000), [date |-> 1]), Not(Int_(1), "AttributeError")}),
    With_(Plain("Date32"), {Same([date |-> -25567]), Same([date |-> 120529]), As([date |-> -25568], [date |-> 0])}),
    With_(Clock(""), {Same(Naive(4320000)), As(Aware(4320000), Naive(4320000 + 1080000)),
                      As(Zoned(4320000, 360000), Naive(4320000 + 1080000)),
                      As(Int_(7), Naive(1080700)), As([repr |-> Naive(4320000)], Naive(4320000)),
                      As(Naive(4320099), Naive(4320000)), Not([date |-> 1], "AttributeError")}),
    With_(Clock("Paris"), {As(Naive(4320000), Aware(4320000 - 360000)), Same(Aware(4320000))}),
    With_(Clock64(1, ""), {As(Naive(4320055), Naive(4320050)), As(Int_(7), Naive(1080070)),
                           As(Naive(-5), Naive(-10))}),
    With_(Clock64(2, "Paris"), {Same(Aware(4320055)), As([repr |-> Naive(4320055)], Aware(3960055))}),
    With_(Plain("Time"), {As([time |-> 150], [delta |-> 100]), As([delta |-> -150], [delta |-> -100]),
                          As(Int_(2), [delta |-> 200]), As([repr |-> [delta |-> -250]], [delta |-> -200]),
                          <<A, Fail("ValueError"), Fail("ValueError")>>}),
    With_(Time64(1), {As([time |-> 155], [delta |-> 150]), As([delta |-> -155], [delta |-> -150])}),
    With_(Plain("Time64"), {Same([delta |-> -155])}),
    \* the minus sign counts as a digit
    With_(Dec(2, 1), {Same([dec |-> 110]), <<[dec |-> -1010], [dec |-> -1010], No>>,
                      As(Int_(7), [dec |-> 700]), As([dec |-> 115], [dec |-> 110]),
                      <<Int_(700), [dec |-> 70000], No>>,
                      <<A, Fail("InvalidOperation"), Fail("InvalidOperation")>>,
                      Not(Bool(TRUE), "InvalidOperation")}),
    With_(Dec(12, 0), {As([dec |-> 199], [dec |-> 100]), As(Bool(TRUE), Fail("InvalidOperation"))}),
    With_(Dec(20, 2), {Same([dec |-> -101])}),
    With_(Dec(40, 2), {Same([dec |-> -101])}),
    With_(QBit("Float32", 3), {Same(Floats_(<<1, -2, 0>>)), <<Floats_(<<1>>), Fail("ValueError"), Fail("ValueError")>>}),
    With_(QBit("BFloat16", 9), {Same(Floats_(<<1, 0, 2, 0, 3, 0, 4, 0, 5>>))}),
    With_(QBit("Float64", 1), {Same(Floats_(<<3>>))}),
    With_(State("count", "d"), {Same(Int_(300))}),
    With_(State("sum", "Q"), {Same(Int_(7))}), With_(State("sum", "d"), {As(Int_(7), [float |-> 7])}),
    With_(State("avg", "q"), {Same(List(<<Int_(-7), Int_(2)>>))}),
    With_(Type("SimpleAggregateFunction", <<Plain("Int8")>>, <<>>), {Same(Int_(3))}),
    With_(Type("BINARY", <<>>, [length |-> 2]), {Same(A)}),
    With_(Type("DEC", <<>>, [precision |-> 2, scale |-> 1]), {Same([dec |-> 110])})
  } \cup {With_(Plain(t), Numbers[t]) : t \in DOMAIN Numbers}

-----------------------------------------------------------------------------
(* Jobs *)

Job(structure, rows, means, o) ==
  [structure |-> structure, tables |-> <<>>, rows |-> rows, columnar |-> FALSE, size |-> 2,
   o |-> o, info |-> TRUE, buckets |-> TRUE, customs |-> TRUE, named |-> TRUE,
   sent |-> <<>>, retried |-> FALSE, means |-> means, refused |-> ""]

Col(name, spec) == [name |-> name, type |-> spec]

UpTo(S, n) == UNION {[1..k -> S] : k \in 1..n}

OneColumn(sample, n, o) ==
  {Job(<<Col(X, sample.spec)>>, [i \in DOMAIN s |-> List(<<s[i][1]>>)],
       << [i \in DOMAIN s |-> s[i][IF o.types_check THEN 3 ELSE 2]] >>, o) : s \in UpTo(sample.vals, n)}

ScalarJobs == UNION {OneColumn(sample, 2, o) : sample \in Parametric, o \in {O, Checked(O)}}

-----------------------------------------------------------------------------
(* Types with inner types: a value means what its parts mean, and is refused *)
(* for what one of them is refused for.                                      *)

Joined(s, k, F(_)) == LET v == [i \in DOMAIN s |-> s[i][k]]
                      IN  IF FirstError(v) # "" THEN Fail(FirstError(v)) ELSE F(v)
Combine(s, In(_), Out(_)) == <<In([i \in DOMAIN s |-> s[i][1]]), Joined(s, 2, Out), Joined(s, 3, Out)>>
Made(seqs, F(_)) == {Combine(s, F, F) : s \in seqs}

NullableOf(e) == With_(Type("Nullable", <<e.spec>>, <<>>), e.vals \cup {Same(Nil)})
LcOf(e)       == With_(Type("LowCardinality", <<e.spec>>, <<>>), e.vals)
ArrayOf(e)    == With_(Type("Array", <<e.spec>>, <<>>), Made(UpTo(e.vals, 2) \cup {<<>>}, List))
MapOf(k, v)   ==
  With_(Type("Map", <<k.spec, v.spec>>, <<>>),
        LET dict(s) == Dict(Pairs(s))
            one == {<<a, b>> : a \in k.vals, b \in v.vals}
        IN  Made({<<>>} \cup one \cup {p[1] \o p[2] : p \in {q \in one \X one : q[1][1] # q[2][1]}}, dict))
PairOf(a, b, names) ==
  With_(Type("Tuple", <<a.spec, b.spec>>, [names |-> names]),
        LET named(v) == IF names = <<>> THEN List(v)
                        ELSE Dict([i \in DOMAIN v |-> <<Text(names[i]), v[i]>>])
        IN  {Combine(s, List, named) : s \in a.vals \X b.vals})
Names2 == << <<97>>, <<98>> >>

Pick(t, S) == With_(Plain(t), S)
I8   == Pick("Int8", {Same(Int_(1)), Same(Int_(-2)), Not(E, "TypeMismatch")})
I16  == Pick("Int16", {Same(Int_(300)), Same(Int_(1))})
One16 == Pick("Int16", {Same(Int_(300))})
Str  == Pick("String", {Same(A), Same(E), Not(Int_(1), "AttributeError")})
Key  == Pick("String", {Same(A), Same(AB)})
Real == Pick("Float64", {Same([float |-> 1])})
Day  == Pick("Date", {Same([date |-> 9])})
Ten  == With_(Dec(2, 1), {Same([dec |-> 110])})

Composite ==
  {NullableOf(I8), NullableOf(Str), NullableOf(Day), ArrayOf(I8), ArrayOf(NullableOf(I8)),
   ArrayOf(ArrayOf(I16)), LcOf(Str), LcOf(NullableOf(Key)), LcOf(NullableOf(Day)), LcOf(I16),
   ArrayOf(LcOf(Key)), MapOf(Key, I16), MapOf(LcOf(Key), ArrayOf(One16)), MapOf(Key, NullableOf(Ten)),
   PairOf(I8, Str, <<>>), PairOf(I16, NullableOf(Key), Names2), PairOf(ArrayOf(One16), LcOf(Key), <<>>),
   ArrayOf(PairOf(I16, Real, <<>>)), ArrayOf(MapOf(Key, One16)), PairOf(PairOf(I16, Real, <<>>), Day, Names2),
   ArrayOf(ArrayOf(NullableOf(Key)))}

\* Nested is an Array of a Tuple by another name; a point, too, is a Tuple.
Points == [PairOf(Real, Real, <<>>) EXCEPT !.spec = Plain("Point")]
Line   == [ArrayOf(Points) EXCEPT !.spec = Plain("LineString")]
Called(e, spec) == [e EXCEPT !.spec = spec]
Nested(a, b) == Called(ArrayOf(PairOf(a, b, Names2)),
                       Type("Nested", <<a.spec, b.spec>>, [names |-> Names2]))
Shapes == {Nested(I16, Key), Points, Called(Line, Plain("Ring")), Called(ArrayOf(Line), Plain("Polygon")),
           Called(ArrayOf(Line), Plain("MultiLineString")), Called(ArrayOf(ArrayOf(Line)), Plain("MultiPolygon"))}

-----------------------------------------------------------------------------
(* Variant, Dynamic and JSON *)

VariantOf_(names) == Type("Variant", <<>>, [among |-> names])
Typed(name, v) == [typed |-> <<name, v>>]
TypedDict(type, v) == Dict(<< <<[key |-> <<"type">>], type>>, <<[key |-> <<"value">>], v>> >>)
NoType == Fail("TypeError")
Pt == List(<<[float |-> 1], [float |-> 1]>>)

Variants ==
  { With_(VariantOf_({"Int8", "String", "Array(Int8)"}),
          {Same(Nil), Same(Int_(1)), Same(A), Same(List(<<Int_(1)>>)), As(Typed("Int8", Int_(2)), Int_(2)),
           As(Typed("String", A), A), <<Typed("Bool", A), No, No>>,
           As(TypedDict([name |-> "Int8"], Int_(2)), Int_(2)), <<TypedDict([name |-> "Bool"], A), NoType, NoType>>,
           <<Bool(TRUE), NoType, NoType>>, <<Int_(300), No, No>>}),
    \* the first type in the order of their names that takes the value has it
    With_(VariantOf_({"UInt8", "Int8", "Bool"}),
          {Same(Int_(-1)), Same(Bool(TRUE)), As(Typed("UInt8", Int_(200)), Int_(200)), <<Int_(200), No, No>>}),
    With_(VariantOf_({"LowCardinality(String)", "UInt8"}), {Same(A), As(Typed("UInt8", Int_(1)), Int_(1))}),
    With_(Plain("Geometry"), {Same(Pt), Same(List(<<Pt>>)), Same(List(<<List(<<Pt>>)>>)), Same(Nil),
                              <<Int_(1), NoType, NoType>>}) }

Dynamics ==
  { With_(Plain("Dynamic"),
          {Same(v) : v \in {Nil, Int_(1), Int_(-1), Int_(300), Int_(-300), Int_(70000), Int_(-70000),
                            [float |-> 1], A, Bool(TRUE), List(<<Int_(1)>>), List(<<A, Nil, Int_(3)>>)}}
          \cup {As(Typed("Int8", Int_(2)), Int_(2)), As(TypedDict([name |-> "Int8"], Int_(2)), Int_(2)),
                As(TypedDict(A, Int_(1)), Fail("UnknownType")),
                <<[date |-> 1], NoType, NoType>>,
                \* a list of two that begins with a str is a type and its value
                <<List(<<A, Int_(1)>>), Fail("UnknownType"), Fail("UnknownType")>>}) }

K(path) == [key |-> path]
J(path, v) == Dict(<< <<K(path), v>> >>)
JsonValues == {Dict(<<>>), J(<<"a">>, Int_(1)), J(<<"a">>, J(<<"b">>, A)), J(<<"b">>, Bool(TRUE)),
               Dict(<< <<K(<<"a">>), Int_(1)>>, <<K(<<"b">>), List(<<Int_(1)>>)>> >>)}
Lossy == {J(<<"a">>, Nil), J(<<"a">>, Dict(<<>>)), J(<<"a", "b">>, Int_(1))}
Jsons1 == Pick("JSON", {})
Jsons == {With_(Plain("JSON"), {Same(v) : v \in JsonValues})}

-----------------------------------------------------------------------------
(* Options *)

V2(o) == [o EXCEPT !.v2_json = TRUE]
AsBytes == [O EXCEPT !.strings_as_bytes = TRUE]
Default == [O EXCEPT !.null_as_default = TRUE]
Client  == [O EXCEPT !.use_client_time_zone = TRUE]
Home    == [O EXCEPT !.server_tz = "Local"]
Untagged == [O EXCEPT !.namedtuple_as_json = FALSE]

Defaults ==
  { With_(t, {As(Nil, out)}) : <<t, out>> \in
      {<<Plain("Int8"), Int_(0)>>, <<Plain("String"), E>>, <<Plain("Float64"), [float |-> 0]>>,
       <<Plain("UUID"), [uuid |-> <<0, 0>>]>>, <<Dec(2, 1), [dec |-> 0]>>, <<Plain("Bool"), Bool(FALSE)>>,
       <<Plain("IPv4"), [ip4 |-> 0]>>, <<Clock("Paris"), Aware(0)>>, <<Plain("Time"), [delta |-> 0]>>,
       <<ArrayOf(I8).spec, List(<<>>)>>, <<MapOf(Key, I8).spec, Dict(<<>>)>>, <<LcOf(Str).spec, E>>,
       <<PairOf(I8, Str, <<>>).spec, List(<<Int_(0), E>>)>>,
       <<Enum("Enum8"), Fail("LogicalError")>>} }
  \cup {Pick("Int8", {As(Nil, Int_(0)), Same(Int_(3))})}

Tailored ==
  UNION {OneColumn(s, 2, Default) : s \in Defaults}
  \cup UNION {OneColumn(s, 1, AsBytes) : s \in
         {Pick("String", {Same(Raw), Not(A, "ValueError")}),
          With_(Fixed, {As(Raw, Bytes(<<255, 0>>))}),
          ArrayOf(Pick("String", {Same(Raw)}))}}
  \cup OneColumn(With_(Clock(""), {Same(Naive(4320000)), As(Aware(4320000), Naive(4320000 + 720000))}), 2, Client)
  \cup OneColumn(With_(Clock(""), {Same(Naive(4320000)), As(Aware(4320000), Naive(4320000 + 720000))}), 2, Home)
  \cup OneColumn(Called(PairOf(I16, Key, <<>>), PairOf(I16, Key, Names2).spec), 1, Untagged)

CompositeJobs == UNION {OneColumn(s, IF Cardinality(s.vals) < 12 THEN 2 ELSE 1, o) : s \in Composite, o \in {O, Checked(O)}}
                 \cup UNION {OneColumn(s, 1, O) : s \in Shapes}
TypedJobs == UNION {OneColumn(s, 2, O) : s \in Variants \cup Dynamics}
             \cup UNION {OneColumn(s, 2, o) : s \in Jsons, o \in {O, V2(O)}}

-----------------------------------------------------------------------------
(* Where the code falls short: what the peer gets instead                    *)

\* One column of one value that comes back as out, or that a peer cannot read.
Single(spec, v, out, o) == Job(<<Col(X, spec)>>, <<List(<<v>>)>>, << <<out>> >>, o)
Garbled(spec, v, o) == [Single(spec, v, v, o) EXCEPT !.refused = "out of step"]

Shortcomings ==
  { \* the dictionary of a LowCardinality(Nullable) is written although no row
    \* of an Array or a Map has a key; the peer reads none
    Garbled(ArrayOf(LcOf(NullableOf(Key))).spec, List(<<>>), O),
    [Garbled(MapOf(LcOf(NullableOf(Key)), I8).spec, Dict(<<>>), O) EXCEPT !.refused = "out of step"],
    \* a None of a Nullable(Tuple) is sent as the default, one of a
    \* Nullable(Array) cannot be sent
    Single(NullableOf(PairOf(I8, Str, <<>>)).spec, Nil, List(<<Int_(0), E>>), O),
    Single(NullableOf(ArrayOf(I8)).spec, Nil, Fail("TypeError"), O),
    \* index[1:] of a list added to a tuple
    [Single(LcOf(NullableOf(Pick("Int128", {}))).spec, Int_(1), Int_(1), O) EXCEPT !.refused = "TypeError"],
    \* the null map of a Nullable(JSON) is written and not read
    Garbled(NullableOf(Jsons1).spec, J(<<"a">>, Int_(1)), V2(O)),
    \* the objects of an Array(JSON) are strings under the prefix of mode 0
    Garbled(ArrayOf(Jsons1).spec, List(<<J(<<"a">>, Int_(1))>>), O),
    \* a path and a longer one in the same object
    [Single(Plain("JSON"), Dict(<< <<K(<<"a">>), Int_(1)>>, <<K(<<"a", "b">>), Int_(2)>> >>), Nil, O)
       EXCEPT !.refused = "TypeError"],
    \* None and an empty object are not sent, a dot divides a key
    Single(Plain("JSON"), J(<<"a">>, Nil), Dict(<<>>), O),
    Single(Plain("JSON"), J(<<"a">>, Dict(<<>>)), Dict(<<>>), O),
    Single(Plain("JSON"), J(<<"a", "b">>, Int_(1)), J(<<"a">>, J(<<"b">>, Int_(1))), O),
    Single(Plain("JSON"), J(<<"a">>, Nil), J(<<"a">>, Nil), V2(O)),
    Single(Plain("JSON"), J(<<"a", "b">>, Int_(1)), J(<<"a", "b">>, Int_(1)), V2(O)),
    \* the scale of a DateTime64 is passed to the column built after it
    Single(PairOf(With_(Clock64(1, ""), {}), Ten, <<>>).spec,
           List(<<Naive(0), [dec |-> 110]>>), Fail("TypeError"), O),
    Single(Type("Tuple", <<Clock64(1, ""), Plain("Time64")>>, [names |-> <<>>]),
           List(<<Naive(Noon), [delta |-> 155]>>), List(<<Naive(Noon), [delta |-> 150]>>), O),
    \* a comma in a type with parentheses is taken for that of the Map
    Single(Type("Map", <<Plain("Int8"), PairOf(I8, Ten, <<>>).spec>>, <<>>), Dict(<<>>),
           Fail("ValueError"), O),
    \* the default of a Date is no date
    Single(Plain("Date"), Nil, Fail("AttributeError"), Default),
    Single(State("uniq", "Q"), Int_(1), Fail("NotImplemented"), O),
    Single(Plain("Int9"), Int_(1), Fail("UnknownType"), O) }

-----------------------------------------------------------------------------
(* Rows, columns, tables, revisions                                          *)

XY == <<Col(X, Plain("Int8")), Col(<<121>>, LcOf(NullableOf(Key)).spec)>>
Row(s) == Dict([i \in DOMAIN s |-> <<Text(XY[i].name), s[i]>>])
One2   == <<Int_(1), A>>
Two2   == <<Int_(2), Nil>>
Ints(s) == [i \in DOMAIN s |-> Int_(s[i])]
Two(rows, x, y) == Job(XY, rows, <<x, y>>, O)

Rowwise ==
  {Two(<<List(One2), List(Two2), List(One2)>>, Ints(<<1, 2, 1>>), <<A, Nil, A>>),
   Two(<<Row(One2), Row(Two2), Row(One2)>>, Ints(<<1, 2, 1>>), <<A, Nil, A>>),
   Two(<<Row(One2), List(Two2)>>, Ints(<<1>>), <<A, Fail("TypeError")>>),
   Two(<<Row(<<Int_(1)>>)>>, <<Fail("KeyError")>>, <<A>>),
   Two(<<List(<<Int_(1)>>)>>, <<Fail("ValueError")>>, <<A>>),
   \* the first row of a chunk says how long they are: a longer one is cut, a
   \* shorter one found out when the columns before it are written
   Two(<<List(One2), List(<<Int_(2), Nil, A>>)>>, Ints(<<1, 2>>), <<A, Nil>>),
   Two(<<List(One2), List(<<Int_(2)>>)>>, Ints(<<1, 2>>), <<A, Fail("ValueError")>>),
   Two(<<List(One2), List(Two2), List(One2), List(<<Int_(2)>>)>>, Ints(<<1, 2, 1, 2>>), <<A, Nil, A, Fail("ValueError")>>),
   Two(<<Int_(1)>>, <<Fail("TypeError")>>, <<A>>),
   Two(<<>>, <<>>, <<>>)}
Columnwise ==
  {[Two(<<List(x), List(y)>>, x, z) EXCEPT !.columnar = TRUE] : <<x, y, z>> \in
     {<<Ints(<<1, 2, 1>>), <<A, Nil, A>>, <<A, Nil, A>> >>,
      <<Ints(<<1, 2, 1>>), <<A, Nil>>, <<A, Nil, Fail("ValueError")>> >>}}
  \cup {[Job(XY, cols, << <<Fail(e)>> >>, O) EXCEPT !.columnar = TRUE] : <<cols, e>> \in
          {<< <<List(Ints(<<1>>))>>, "ValueError">>, << <<List(Ints(<<1>>)), A>>, "TypeError">>}}
Mixed(e, o) == Job(XY, <<List(One2), Row(Two2)>>, <<Ints(<<1>>), <<A, Fail(e)>> >>, o)
Checks(jobs) == {Mixed("KeyError", O), Mixed("TypeError", Checked(O))} \cup jobs \cup {[j EXCEPT !.o = Checked(O)] : j \in jobs}

\* Each revision has what an earlier one has.
Revisions(jobs) ==
  {[j EXCEPT !.named = n > 0, !.info = n > 1, !.customs = n > 2, !.buckets = n > 3] : j \in jobs, n \in 0..4}

Table(structure, rows, means) == [structure |-> structure, rows |-> rows, means |-> means]
WithTable(t) == [Two(<<List(One2)>>, Ints(<<1>>), <<A>>) EXCEPT !.tables = <<t>>]
Tables ==
  {WithTable(Table(XY, <<Row(One2), List(Two2)>>, <<Ints(<<1>>), <<A, Fail("TypeError")>> >>)),
   WithTable(Table(XY, <<Row(One2), Row(Two2)>>, <<Ints(<<1, 2>>), <<A, Nil>> >>)),
   WithTable(Table(<<>>, <<>>, << <<Fail("ValueError")>> >>)),
   WithTable(Table(<<Col(X, Plain("Int8"))>>, <<>>, <<>>)),
   \* a column of no rows is sent with its prefix, which the peer does not read
   [WithTable(Table(XY, <<>>, <<>>)) EXCEPT !.refused = "out of step"]}

\* Made again with the same data, from any point of the first attempt.
Again(jobs) == {[j EXCEPT !.retried = TRUE] : j \in jobs}
NestedXY == <<Col(X, Nested(I16, Key).spec)>>
NestedRow == Dict(<< <<Text(X), List(<<Dict(<< <<Text(<<97>>), Int_(1)>>, <<Text(<<98>>), A>> >>)>>)>> >>)
NestedOut == List(<<Dict(<< <<Text(<<97>>), Int_(1)>>, <<Text(<<98>>), A>> >>)>>)
\* normalize() fails for a row after others were made lists.  Made again, the call
\* with a list among the dicts succeeds, for they are all lists now.
Bare(s)  == Dict([i \in DOMAIN s |-> <<Text(Names2[i]), s[i]>>])
NestedOf(s) == Dict(<< <<Text(X), List(s)>> >>)
After(t) == [WithTable(t) EXCEPT !.tables = <<Table(XY, <<List(One2)>>, <<Ints(<<1>>), <<A>> >>), t>>]
HalfDone ==
  {[After(Table(XY, <<Row(One2), Row(<<Int_(2)>>), Row(Two2)>>,
                <<Ints(<<1, 2>>), <<A, Fail("KeyError")>> >>)) EXCEPT !.o = o] : o \in {O, Checked(O)}}
  \cup {After(Table(XY, <<Row(One2), List(Two2)>>, <<Ints(<<1, 2>>), <<A, Nil>> >>))}
  \cup {Job(NestedXY, <<NestedOf(<<Bare(One2)>>), NestedOf(<<Bare(One2), Bare(<<Int_(2)>>)>>)>>,
            << <<NestedOut, Fail("KeyError")>> >>, O)}

Retries ==
  Again({Two(<<List(One2), List(Two2), List(One2)>>, Ints(<<1, 2, 1>>), <<A, Nil, A>>),
         Two(<<Row(One2), Row(Two2), Row(One2)>>, Ints(<<1, 2, 1>>), <<A, Nil, A>>),
         Two(<<List(One2), List(Two2), List(<<Int_(300), A>>)>>, <<Int_(1), Int_(2), No>>, <<A, Nil, A>>),
         WithTable(Table(XY, <<Row(One2), Row(Two2)>>, <<Ints(<<1, 2>>), <<A, Nil>> >>)),
         Job(NestedXY, <<NestedRow, NestedRow, NestedRow>>, << <<NestedOut, NestedOut, NestedOut>> >>, O)})
  \cup Again(HalfDone)

\* As many words as a key of eight bits can number, and one more.
Many(n, spec) ==
  LET vals == [i \in 1..n |-> Int_(i)]
  IN  [Job(<<Col(X, spec)>>, [i \in 1..n |-> List(<<vals[i]>>)], <<vals>>, O) EXCEPT !.size = 300]
Widths == {Many(n, spec) : n \in {255, 256}, spec \in {LcOf(I16).spec, LcOf(NullableOf(I16)).spec}}
LcRows == LET vals == <<A, Nil, A, AB, Nil>>
          IN  {[Job(<<Col(X, LcOf(NullableOf(Key)).spec)>>, [i \in DOMAIN vals |-> List(<<vals[i]>>)], <<vals>>, O)
                  EXCEPT !.size = n] : n \in {1, 3, 5}}

-----------------------------------------------------------------------------
(* What a server may send and this client never does                         *)

V(n) == <<"varint", Int_(n)>>
Named(s) == <<"str", s>>
Info == <<V(1), <<"B", Int_(0)>>, V(2), <<"i", Int_(-1)>>, V(0)>>
\* cols: [type, flag, tokens] of each column.
Served(info, n, cols) ==
  <<V(2), Named(<<>>)>> \o info \o <<V(Len(cols)), V(n)>>
  \o FlattenSeq([i \in DOMAIN cols |->
       <<Named(X), Named(cols[i][1]), <<"B", Int_(IF cols[i][2] THEN 1 ELSE 0)>> >> \o cols[i][3]])
Server(info, n, cols, means, refused) ==
  [Job(<<>>, <<>>, << means >>, [O EXCEPT !.v2_json = TRUE]) EXCEPT
     !.sent = Served(info, n, cols), !.refused = refused,
     !.means = IF refused = "" THEN << means >> ELSE <<>>]
Sends(n, type, flag, tokens, means) == Server(Info, n, << <<type, flag, tokens>> >>, <<means>>, "")
Refuses(n, type, flag, tokens, e) == Server(Info, n, << <<type, flag, tokens>> >>, <<>>, e)

Gap(n)  == <<"group", [size |-> n, last |-> FALSE]>>
Rest(n) == <<"group", [size |-> n, last |-> TRUE]>>
Sparse  == <<V(1)>>
b_(n)   == <<"b", Int_(n)>>
Utf(s)  == <<"str", Bytes(s)>>
Q(n)    == <<"Q", Int_(n)>>
NoMaps(n) == [i \in 1..n |-> Q(0)]
\* The prefix and the rows of a path that holds an Int8, in two serializations.
PathPrefix(v) == (IF v = 1 THEN <<Q(1), V(1)>> ELSE <<Q(2)>>) \o <<V(1), Named("Int8"), Q(0)>>
PathRow(n)   == <<b_(0)>> \o <<b_(n)>>
Disc(n)  == <<"B", Int_(n)>>
ServedJson(version, head, tail) ==
  Sends(1, Plain("JSON"), FALSE,
        <<Q(version)>> \o head \o <<V(1), Named(<<"a">>)>>
        \o (IF version = 4 THEN <<V(1), V(32)>> ELSE <<>>)
        \o PathPrefix(IF version = 0 THEN 1 ELSE 2) \o <<Disc(0), b_(5)>> \o tail,
        <<J(<<"a">>, Int_(5))>>)

Zeros == {<<Plain("String"), E>>, <<Plain("Bool"), Int_(0)>>, <<Plain("Float64"), Int_(0)>>,
          <<Plain("UUID"), [uuid |-> <<0, 0>>]>>, <<Plain("Date"), [date |-> 0]>>, <<Dec(2, 1), [dec |-> 0]>>,
          <<Plain("IPv4"), [ip4 |-> 0]>>, <<Clock("Paris"), Aware(0)>>, <<Plain("Time"), [delta |-> 0]>>}
ServerJobs ==
  {Sends(3, z[1], TRUE, Sparse \o <<Rest(3)>>, <<z[2], z[2], z[2]>>) : z \in Zeros} \cup
  {Sends(4, Plain("Int8"), TRUE, Sparse \o <<Gap(1), Gap(0), Rest(1), b_(7), b_(8)>>, Ints(<<0, 7, 8, 0>>)),
   \* 0 is what a default Bool and a default Float64 come back as
   Refuses(2, Plain("IPv6"), TRUE, Sparse \o <<Rest(2)>>, "AddressValueError"),
   Sends(2, Plain("Int8"), TRUE, <<V(0), b_(7), b_(8)>>, Ints(<<7, 8>>)),
   Sends(2, NullableOf(I8).spec, TRUE, Sparse \o <<Gap(1), Rest(0), Disc(0), b_(7)>>, Ints(<<0, 7>>)),
   Sends(2, ArrayOf(I8).spec, TRUE, <<V(0), V(0), Q(1), Q(2), b_(7), b_(8)>>,
         <<List(<<Int_(7)>>), List(<<Int_(8)>>)>>),
   Refuses(2, Enum("Enum8"), TRUE, Sparse \o <<Gap(1), Rest(0), b_(5)>>, "KeyError"),
   Sends(2, Enum("Enum8"), FALSE, <<b_(5), b_(-1)>>, <<Text(<<99>>), Text(<<97>>)>>),
   Refuses(1, Enum("Enum8"), FALSE, <<b_(9)>>, "KeyError"),
   ServedJson(0, <<V(1024)>>, NoMaps(1)), ServedJson(2, <<>>, NoMaps(1)),
   ServedJson(3, <<>>, <<>>), ServedJson(4, <<>>, NoMaps(1)),
   Sends(1, Plain("JSON"), FALSE, <<Q(1), <<"str", [json |-> J(<<"a">>, Int_(1))]>> >>, <<J(<<"a">>, Int_(1))>>),
   Refuses(1, Plain("JSON"), FALSE, <<Q(5)>>, "NotImplemented"),
   Sends(1, Plain("JSON"), TRUE, <<V(0), Q(0), V(1024), V(1), Named(<<"a">>), V(0)>> \o <<Q(1), V(1), V(1), Named("Int8")>>
         \o <<V(0), Q(0), V(0), V(0)>> \o <<V(0), V(0), V(0)>> \o <<Disc(0), b_(5)>> \o NoMaps(1), <<J(<<"a">>, Int_(5))>>),
   Sends(1, Plain("Object"), FALSE, <<Disc(1), Named("Array(Int8)"), Q(1), b_(7)>>, <<List(<<Int_(7)>>)>>),
   Refuses(1, Plain("Object"), FALSE, <<Disc(1), Named("Int9"), b_(7)>>, "UnknownType"),
   Sends(2, Plain("Dynamic"), FALSE, PathPrefix(2) \o <<Disc(NullDiscriminator), Disc(0), b_(3)>>, <<Nil, Int_(3)>>),
   Sends(1, Plain("Dynamic"), FALSE, PathPrefix(1) \o <<Disc(1), Utf(<<9>>)>>, <<Bytes(<<9>>)>>),
   Refuses(1, Plain("Dynamic"), FALSE, <<Q(3)>>, "NotImplemented"),
   Refuses(1, VariantOf_({"Int8"}), FALSE, <<Q(1)>>, "NotImplemented"),
   Refuses(1, Plain("Int9"), FALSE, <<b_(1)>>, "UnknownType"),
   Server(<<V(3), V(2), <<"i", Int_(1)>>, <<"i", Int_(2)>> >> \o Info, 0,
          << <<Plain("Int8"), FALSE, <<>> >> >>, <<>>, ""),
   Server(<<V(4)>>, 0, <<>>, <<>>, "ValueError")}

Dated(names) == [n \in names |-> Plain(n)]
WireTypes == Dated({"Bool", "Float64", "Int16", "Int32", "Int8", "JSON", "LineString", "MultiLineString",
                    "MultiPolygon", "Point", "Polygon", "Ring", "String", "UInt16", "UInt32", "UInt8"})
             @@ ("Array(Dynamic)" :> Type("Array", <<Plain("Dynamic")>>, <<>>))
             @@ ("Array(Int8)" :> ArrayOf(I8).spec)
             @@ ("LowCardinality(String)" :> LcOf(Str).spec)
WireOrder == <<"Array(Dynamic)", "Array(Int8)", "Bool", "Float64", "Int16", "Int32", "Int8", "JSON",
               "LineString", "LowCardinality(String)", "MultiLineString", "MultiPolygon", "Point", "Polygon",
               "Ring", "SharedVariant", "String", "UInt16", "UInt32", "UInt8", "text">>
WirePaths == << <<"a">>, <<"a", "b">>, <<"b">> >>
WireJobs ==
  ScalarJobs \cup CompositeJobs \cup TypedJobs \cup Tailored \cup Shortcomings \cup Checks(Rowwise)
  \cup Columnwise \cup Revisions({Two(<<List(One2)>>, Ints(<<1>>), <<A>>)}) \cup Tables \cup Retries
  \cup Widths \cup LcRows \cup ServerJobs

-----------------------------------------------------------------------------
(* Packets: numbers on both sides of where a varint grows, bytes above 127,  *)
(* strings without a byte, buffers that are full in the middle of an item    *)

Item_(k, v, n) == [k |-> k, v |-> v, n |-> n]
Var_(n)     == Item_("varint", n, 0)
Packet(h, b) == [head |-> h, body |-> b]
WireScripts ==
  {<<Packet(<<Var_(2), Item_("str", <<>>, 0)>>,
            <<Var_(64), Item_("str", <<65, 200, 66>>, 0), Item_("int", 300, 2), Item_("fixed", <<1>>, 3)>>),
     Packet(<<Var_(300)>>, <<Item_("fixed", <<9>>, 2), Item_("fixed", <<8, 7>>, 2)>>)>>,
   <<Packet(<<Var_(63)>>, <<Var_(127), Var_(128), Var_(16384)>>)>>}

Nothing == [packets |-> <<>>, packed |-> FALSE]
WireInit == \/ BlkInit /\ BufStarts(Nothing)
            \/ BlkStarts(CHOOSE j \in Jobs : TRUE) /\ BufInit
Blk(Step) == script = Nothing /\ Step /\ UNCHANGED bytes
Buf(Step) == script # Nothing /\ Step /\ UNCHANGED codec
WireNext ==
  \/ Blk(SendTable) \/ Blk(EndTables) \/ Blk(NextChunk) \/ Blk(EndData) \/ Blk(WriteNext)
  \/ Blk(EndBlock) \/ Blk(Receive) \/ Blk(ConnectionLost) \/ Blk(CallAgain)
  \/ Buf(WriteRaw) \/ Buf(WriteBody) \/ Buf(Finalize) \/ Buf(ConnectionCut) \/ Buf(Alter)
  \/ Buf(Refill) \/ Buf(ReadRaw) \/ Buf(ReadUnpacked) \/ Buf(ReadFrame) \/ Buf(ReadAtEnd)
WireSpec == WireInit /\ [][WireNext]_<<codec, bytes>>
=============================================================================
