----------------------------- MODULE JsonWriter -----------------------------
(***************************************************************************)
(* binary_writer of json.hpp: the bytes that to_cbor, to_msgpack,          *)
(* to_ubjson and to_bson make of a value, or none for an exception.        *)
(***************************************************************************)
EXTENDS JsonBytes, FiniteSets

Thrown == <<>>

Each(s, Of(_)) == FlattenSeq([i \in DOMAIN s |-> Of(s[i])])
EachMember(f, Of(_)) == Each(Sorted(DOMAIN f), Of)

\* Parts of a value, the value itself among them.
RECURSIVE Parts(_)
Parts(v) ==
    {v} \cup CASE v[1] = "array" -> UNION {Parts(v[2][i]) : i \in DOMAIN v[2]}
               [] v[1] = "object" -> UNION {Parts(v[2][k]) : k \in DOMAIN v[2]}
               [] OTHER -> {}

\* Neither UBJSON nor BSON has numbers beyond int64 (error 407).
TooLarge(v) == \E p \in Parts(v) : p[1] = "unsigned" /\ p[2][1] >= 128

-----------------------------------------------------------------------------
\* CBOR

\* A number up to 23 is part of the first byte; a larger one follows it in 1, 2, 4 or 8 bytes.
CborHead(base, w) ==
    IF Fits(w, 1) /\ w[8] <= 23 THEN <<base + w[8]>>
    ELSE <<base + 24 + Width(w)>> \o Low(w, 2 ^ Width(w))

CborUnsigned(w) == CborHead(0, w)
CborInteger(w) == IF w[1] < 128 THEN CborHead(0, w) ELSE CborHead(32, Complement(w))
CborString(bytes) == CborHead(96, Word(Len(bytes))) \o bytes

RECURSIVE Cbor(_)
CborArray(items) == CborHead(128, Word(Len(items))) \o Each(items, Cbor)
CborObject(f) ==
    CborHead(160, Word(Cardinality(DOMAIN f)))
    \o EachMember(f, LAMBDA k : CborString(k) \o Cbor(f[k]))

\* write_cbor.
Cbor(v) ==
    CASE v = Null -> <<246>>
      [] v[1] = "boolean" -> <<IF v[2] THEN 245 ELSE 244>>
      [] v[1] = "integer" -> CborInteger(v[2])
      [] v[1] = "unsigned" -> CborUnsigned(v[2])
      [] v[1] = "float" -> <<251>> \o v[2]
      [] v[1] = "string" -> CborString(v[2])
      [] v[1] = "array" -> CborArray(v[2])
      [] v[1] = "object" -> CborObject(v[2])

-----------------------------------------------------------------------------
\* MessagePack

MsgpackUnsigned(w) ==
    IF FitsHalf(w, 1) THEN <<w[8]>> ELSE <<204 + Width(w)>> \o Low(w, 2 ^ Width(w))

MsgpackInteger(w) ==
    IF w[1] < 128 THEN MsgpackUnsigned(w)
    ELSE IF FitsSigned(w, 1) /\ w[8] >= 224 THEN <<w[8]>>
    ELSE <<208 + WidthSigned(w)>> \o Low(w, 2 ^ WidthSigned(w))

\* The length is at most "most" and part of the first byte, or it follows "code" in one byte,
\* if there is such a code, the next one in two or the last one in four.
MsgpackHead(n, base, most, code, smallest) ==
    LET w == Word(n)
        k == IF Width(w) < smallest THEN smallest ELSE Width(w)
    IN IF n <= most THEN <<base + n>> ELSE <<code + k - smallest>> \o Low(w, 2 ^ k)

MsgpackString(bytes) == MsgpackHead(Len(bytes), 160, 31, 217, 0) \o bytes

RECURSIVE Msgpack(_)
MsgpackArray(items) == MsgpackHead(Len(items), 144, 15, 220, 1) \o Each(items, Msgpack)
MsgpackObject(f) ==
    MsgpackHead(Cardinality(DOMAIN f), 128, 15, 222, 1)
    \o EachMember(f, LAMBDA k : MsgpackString(k) \o Msgpack(f[k]))

\* write_msgpack.
Msgpack(v) ==
    CASE v = Null -> <<192>>
      [] v[1] = "boolean" -> <<IF v[2] THEN 195 ELSE 194>>
      [] v[1] = "integer" -> MsgpackInteger(v[2])
      [] v[1] = "unsigned" -> MsgpackUnsigned(v[2])
      [] v[1] = "float" -> <<203>> \o v[2]
      [] v[1] = "string" -> MsgpackString(v[2])
      [] v[1] = "array" -> MsgpackArray(v[2])
      [] v[1] = "object" -> MsgpackObject(v[2])

-----------------------------------------------------------------------------
\* UBJSON.  Its prefixes are letters.

LetterOf == [i |-> 105, U |-> 85, I |-> 73, l |-> 108, L |-> 76, D |-> 68, Z |-> 90,
             T |-> 84, F |-> 70, S |-> 83, N |-> 78, array |-> 91, object |-> 123]

PrefixUnsigned(w) ==
    CASE FitsHalf(w, 1) -> "i"
      [] Fits(w, 1) /\ ~FitsHalf(w, 1) -> "U"
      [] FitsHalf(w, 2) /\ ~Fits(w, 1) -> "I"
      [] FitsHalf(w, 4) /\ ~FitsHalf(w, 2) -> "l"
      [] OTHER -> "L"

PrefixInteger(w) ==
    CASE FitsSigned(w, 1) -> "i"
      [] Fits(w, 1) /\ ~FitsSigned(w, 1) -> "U"
      [] FitsSigned(w, 2) /\ ~FitsSigned(w, 1) /\ ~Fits(w, 1) -> "I"
      [] FitsSigned(w, 4) /\ ~FitsSigned(w, 2) -> "l"
      [] OTHER -> "L"

\* ubjson_prefix.
UbjsonPrefix(v) ==
    CASE v = Null -> "Z"
      [] v[1] = "boolean" -> IF v[2] THEN "T" ELSE "F"
      [] v[1] = "unsigned" -> PrefixUnsigned(v[2])
      [] v[1] = "integer" -> PrefixInteger(v[2])
      [] v[1] = "float" -> "D"
      [] v[1] = "string" -> "S"
      [] v[1] \in {"array", "object"} -> v[1]

\* How many bytes follow a prefix of a number.
NumberSize == [i |-> 1, U |-> 1, I |-> 2, l |-> 4, L |-> 8, D |-> 8]

Prefix(letter, add) == IF add THEN <<LetterOf[letter]>> ELSE <<>>

\* write_number_with_ubjson_prefix for an unsigned and for a signed number.
UbjsonUnsigned(w, add) ==
    Prefix(PrefixUnsigned(w), add) \o Low(w, NumberSize[PrefixUnsigned(w)])
UbjsonInteger(w, add) ==
    Prefix(PrefixInteger(w), add) \o Low(w, NumberSize[PrefixInteger(w)])

UbjsonText(bytes) == UbjsonUnsigned(Word(Len(bytes)), TRUE) \o bytes


\* use_type: the values of a container have one prefix, which is written once.
SamePrefix(values, use) ==
    use.type /\ values # {} /\ \A u, v \in values : UbjsonPrefix(u) = UbjsonPrefix(v)

\* What stands between the prefix of a container and its n values.
UbjsonHead(values, n, use) ==
    (IF SamePrefix(values, use)
     THEN <<36, LetterOf[UbjsonPrefix(CHOOSE v \in values : TRUE)]>> ELSE <<>>)
    \o IF use.count THEN <<35>> \o UbjsonUnsigned(Word(n), TRUE) ELSE <<>>

RECURSIVE Ubjson(_, _, _)
UbjsonArray(items, use) ==
    LET values == ToSet(items)
        Item(v) == Ubjson(v, use, ~SamePrefix(values, use))
    IN UbjsonHead(values, Len(items), use) \o Each(items, Item)
       \o IF use.count THEN <<>> ELSE <<93>>

UbjsonObject(f, use) ==
    LET values == {f[k] : k \in DOMAIN f}
        Member(k) == UbjsonText(k) \o Ubjson(f[k], use, ~SamePrefix(values, use))
    IN UbjsonHead(values, Cardinality(DOMAIN f), use) \o EachMember(f, Member)
       \o IF use.count THEN <<>> ELSE <<125>>

\* write_ubjson: use.count and use.type are the arguments use_count and use_type.
Ubjson(v, use, add) ==
    CASE v[1] \in {"null", "boolean"} -> Prefix(UbjsonPrefix(v), add)
      [] v[1] = "integer" -> UbjsonInteger(v[2], add)
      [] v[1] = "unsigned" -> UbjsonUnsigned(v[2], add)
      [] v[1] = "float" -> Prefix("D", add) \o v[2]
      [] v[1] = "string" -> Prefix("S", add) \o UbjsonText(v[2])
      [] v[1] = "array" -> Prefix("array", add) \o UbjsonArray(v[2], use)
      [] v[1] = "object" -> Prefix("object", add) \o UbjsonObject(v[2], use)

-----------------------------------------------------------------------------
\* BSON

\* write_number<std::int32_t, true>.
Int32(n) == Reverse(Low(Word(n), 4))

\* std::to_string(array_index++).
IndexName(i) ==
    LET name[n \in 0 .. i] == IF n < 10 THEN <<48 + n>> ELSE name[n \div 10] \o <<48 + (n % 10)>>
    IN name[i]

BsonNumberSize(v) ==
    IF IF v[1] = "unsigned" THEN FitsHalf(v[2], 4) ELSE FitsSigned(v[2], 4) THEN 4 ELSE 8

BsonType(v) ==
    CASE v = Null -> 10
      [] v[1] = "boolean" -> 8
      [] v[1] \in {"integer", "unsigned"} -> IF BsonNumberSize(v) = 4 THEN 16 ELSE 18
      [] v[1] = "float" -> 1
      [] v[1] = "string" -> 2
      [] v[1] = "array" -> 4
      [] v[1] = "object" -> 3

HeaderSize(name) == 1 + Len(name) + 1

\* The members of an array are named by their indices.
Named(v) ==
    IF v[1] = "object" THEN [i \in 1 .. Cardinality(DOMAIN v[2]) |->
                                LET k == Sorted(DOMAIN v[2])[i] IN <<k, v[2][k]>>]
    ELSE [i \in DOMAIN v[2] |-> <<IndexName(i - 1), v[2][i]>>]

DocumentSize(sizes) == 4 + sizes + 1

\* calc_bson_element_size, without the header, and calc_bson_object_size and _array_size.
RECURSIVE BsonSize(_)
BsonSize(v) ==
    CASE v = Null -> 0
      [] v[1] = "boolean" -> 1
      [] v[1] \in {"integer", "unsigned"} -> BsonNumberSize(v)
      [] v[1] = "float" -> 8
      [] v[1] = "string" -> 4 + Len(v[2]) + 1
      [] OTHER -> DocumentSize(FoldLeft(LAMBDA sum, e : sum + HeaderSize(e[1]) + BsonSize(e[2]),
                                        0, Named(v)))

\* write_bson_element, without the header, and write_bson_object and write_bson_array.
RECURSIVE Bson(_)
BsonElement(e) == <<BsonType(e[2])>> \o e[1] \o <<0>> \o Bson(e[2])
Bson(v) ==
    CASE v = Null -> <<>>
      [] v[1] = "boolean" -> <<IF v[2] THEN 1 ELSE 0>>
      [] v[1] \in {"integer", "unsigned"} -> Reverse(Low(v[2], BsonNumberSize(v)))
      [] v[1] = "float" -> Reverse(v[2])
      [] v[1] = "string" -> Int32(Len(v[2]) + 1) \o v[2] \o <<0>>
      [] OTHER -> Int32(BsonSize(v)) \o Each(Named(v), BsonElement) \o <<0>>

\* A key with a zero byte (error 409).
ZeroInKey(v) ==
    \E p \in Parts(v) : p[1] = "object" /\ \E k \in DOMAIN p[2] : 0 \in ToSet(k)

-----------------------------------------------------------------------------
UbjsonUse == {use \in [count : BOOLEAN, type : BOOLEAN] : use.type => use.count}

\* to_cbor, to_msgpack, to_ubjson, to_bson.  The top of BSON is an object (error 317).
ToCbor(v) == Cbor(v)
ToMsgpack(v) == Msgpack(v)
ToUbjson(v, use) == IF TooLarge(v) THEN Thrown ELSE Ubjson(v, use, TRUE)
ToBson(v) == IF v[1] # "object" \/ ZeroInKey(v) \/ TooLarge(v) THEN Thrown ELSE Bson(v)
=============================================================================
