----------------------------- MODULE JsonReader -----------------------------
(***************************************************************************)
(* binary_reader of json.hpp: the value that from_cbor, from_msgpack,      *)
(* from_ubjson and from_bson make of bytes.                                *)
(*                                                                         *)
(* What reads a part of s from place i on returns a pair of what it has    *)
(* read and the place behind it, or Fail: a parse_error or an              *)
(* out_of_range exception, or a discarded value.  "current" is the byte at *)
(* the place where a part begins.  Half and single precision numbers keep  *)
(* the bytes they have; that they become doubles is left out.              *)
(***************************************************************************)
EXTENDS JsonBytes

Fail == <<"fail">>
Eof == 256
Indefinite == -1

\* get.
At(s, i) == IF i <= Len(s) THEN s[i] ELSE Eof

\* One part after the other: what r is makes the second one.
Then(r, Next(_, _)) == IF r = Fail THEN Fail ELSE Next(r[1], r[2])
As(Type(_), r) == Then(r, LAMBDA x, j : <<Type(x), j>>)

\* n bytes.
Take(s, i, n) == IF i + n - 1 <= Len(s) THEN <<SubSeq(s, i, i + n - 1), i + n>> ELSE Fail

\* get_number and get_string.
GetNumber(s, i, n, signed) == As(LAMBDA b : Widened(b, signed), Take(s, i, n))
GetLittle(s, i, n) == As(LAMBDA b : Widened(Reverse(b), TRUE), Take(s, i, n))
GetString(s, i, n) == Take(s, i, n)

\* A loop over n more values, or up to the byte "end"; and the place behind it.
Loop(n, s, i, end) == IF n = Indefinite THEN At(s, i) # end ELSE n > 0
Less1(n) == IF n = Indefinite THEN n ELSE n - 1
Behind(n, i) == IF n = Indefinite THEN i + 1 ELSE i

\* handle_value of the builder: a later value of a key replaces an earlier one.
Put(members, k, v) == (k :> v) @@ members

-----------------------------------------------------------------------------
\* CBOR

\* A number in the first byte or behind it.
CborNumber(s, i) ==
    LET low == At(s, i) % 32 IN
    CASE low < 24 -> <<Word(low), i + 1>>
      [] low \in 24 .. 27 -> GetNumber(s, i + 1, 2 ^ (low - 24), FALSE)
      [] OTHER -> Fail

CborUnsigned(s, i) == As(Unsigned, CborNumber(s, i))
CborInteger(s, i) == As(LAMBDA w : Integer(Complement(w)), CborNumber(s, i))

\* A length; that of all ones, std::size_t(-1), stands for the indefinite one too.
CborSize(s, i) ==
    IF At(s, i) % 32 = 31 THEN <<Indefinite, i + 1>>
    ELSE As(LAMBDA w : IF w = Filled(8, 255) THEN Indefinite ELSE ToNat(w), CborNumber(s, i))

\* get_cbor_string.  In a string of indefinite length every chunk is a string.
RECURSIVE CborChunks(_, _, _)
CborString(s, i) ==
    CASE At(s, i) \notin 96 .. 127 -> Fail
      [] At(s, i) = 127 -> CborChunks(s, i + 1, <<>>)
      [] OTHER -> Then(CborNumber(s, i), LAMBDA w, j : GetString(s, j, ToNat(w)))
CborChunks(s, i, read) ==
    IF At(s, i) = 255 THEN <<read, i + 1>>
    ELSE Then(CborString(s, i), LAMBDA chunk, j : CborChunks(s, j, read \o chunk))

\* get_cbor_array and get_cbor_object: n more are to come.
RECURSIVE CborValue(_, _), CborArray(_, _, _, _), CborObject(_, _, _, _)
CborArray(s, i, n, items) ==
    IF ~Loop(n, s, i, 255) THEN <<Array(items), Behind(n, i)>>
    ELSE Then(CborValue(s, i), LAMBDA v, j : CborArray(s, j, Less1(n), Append(items, v)))
CborObject(s, i, n, members) ==
    IF ~Loop(n, s, i, 255) THEN <<Object(members), Behind(n, i)>>
    ELSE Then(CborString(s, i), LAMBDA k, j :
             Then(CborValue(s, j), LAMBDA v, l : CborObject(s, l, Less1(n), Put(members, k, v))))

\* false, true, null and floats.
CborSimple(s, i) ==
    CASE At(s, i) \in {244, 245} -> <<Boolean(At(s, i) = 245), i + 1>>
      [] At(s, i) = 246 -> <<Null, i + 1>>
      [] At(s, i) \in 249 .. 251 -> As(Float, Take(s, i + 1, 2 ^ (At(s, i) - 248)))
      [] OTHER -> Fail

\* parse_cbor_internal.
CborValue(s, i) ==
    LET b == At(s, i) IN
    CASE b \in 0 .. 31 -> CborUnsigned(s, i)
      [] b \in 32 .. 63 -> CborInteger(s, i)
      [] b \in 96 .. 127 -> As(String, CborString(s, i))
      [] b \in 128 .. 159 -> Then(CborSize(s, i), LAMBDA n, j : CborArray(s, j, n, <<>>))
      [] b \in 160 .. 191 -> Then(CborSize(s, i), LAMBDA n, j : CborObject(s, j, n, <<>>))
      [] OTHER -> CborSimple(s, i)

-----------------------------------------------------------------------------
\* MessagePack

\* get_msgpack_string.
MsgpackString(s, i) ==
    LET b == At(s, i) IN
    CASE b \in 160 .. 191 -> GetString(s, i + 1, b % 32)
      [] b \in 217 .. 219 -> Then(GetNumber(s, i + 1, 2 ^ (b - 217), FALSE),
                                  LAMBDA w, j : GetString(s, j, ToNat(w)))
      [] OTHER -> Fail

\* The length of an array or a map: in the first byte, or behind it in two or four bytes.
MsgpackSize(s, i) ==
    LET b == At(s, i) IN
    IF b <= 159 THEN <<b % 16, i + 1>>
    ELSE As(ToNat, GetNumber(s, i + 1, IF b \in {220, 222} THEN 2 ELSE 4, FALSE))

\* get_msgpack_array and get_msgpack_object.
RECURSIVE MsgpackValue(_, _), MsgpackArray(_, _, _, _), MsgpackObject(_, _, _, _)
MsgpackArray(s, i, n, items) ==
    IF n = 0 THEN <<Array(items), i>>
    ELSE Then(MsgpackValue(s, i), LAMBDA v, j : MsgpackArray(s, j, n - 1, Append(items, v)))
MsgpackObject(s, i, n, members) ==
    IF n = 0 THEN <<Object(members), i>>
    ELSE Then(MsgpackString(s, i), LAMBDA k, j :
             Then(MsgpackValue(s, j), LAMBDA v, l : MsgpackObject(s, l, n - 1, Put(members, k, v))))

\* Mutation of MsgpackNumber: numbers with a sign are widened without it.
MsgpackNumber_Unsigned(s, i) ==
    LET b == At(s, i) IN
    CASE b \in 0 .. 127 -> <<Unsigned(Word(b)), i + 1>>
      [] b \in 224 .. 255 -> <<Integer(Widened(<<b>>, TRUE)), i + 1>>
      [] b \in 202 .. 203 -> As(Float, Take(s, i + 1, 2 ^ (b - 200)))
      [] b \in 204 .. 207 -> As(Unsigned, GetNumber(s, i + 1, 2 ^ (b - 204), FALSE))
      [] b \in 208 .. 211 -> As(Integer, GetNumber(s, i + 1, 2 ^ (b - 208), FALSE))

MsgpackNumber(s, i) ==
    LET b == At(s, i) IN
    CASE b \in 0 .. 127 -> <<Unsigned(Word(b)), i + 1>>
      [] b \in 224 .. 255 -> <<Integer(Widened(<<b>>, TRUE)), i + 1>>
      [] b \in 202 .. 203 -> As(Float, Take(s, i + 1, 2 ^ (b - 200)))
      [] b \in 204 .. 207 -> As(Unsigned, GetNumber(s, i + 1, 2 ^ (b - 204), FALSE))
      [] b \in 208 .. 211 -> As(Integer, GetNumber(s, i + 1, 2 ^ (b - 208), TRUE))

\* parse_msgpack_internal.
MsgpackValue(s, i) ==
    LET b == At(s, i) IN
    CASE b \in 128 .. 143 \cup {222, 223} ->
             Then(MsgpackSize(s, i), LAMBDA n, j : MsgpackObject(s, j, n, <<>>))
      [] b \in 144 .. 159 \cup {220, 221} ->
             Then(MsgpackSize(s, i), LAMBDA n, j : MsgpackArray(s, j, n, <<>>))
      [] b \in 160 .. 191 \cup 217 .. 219 -> As(String, MsgpackString(s, i))
      [] b = 192 -> <<Null, i + 1>>
      [] b \in {194, 195} -> <<Boolean(b = 195), i + 1>>
      [] b \in 0 .. 127 \cup 202 .. 211 \cup 224 .. 255 -> MsgpackNumber(s, i)
      [] OTHER -> Fail

-----------------------------------------------------------------------------
\* UBJSON

\* The letters of the integers, how many bytes follow, and whether they have a sign.
IntegerSize == 85 :> 1 @@ 105 :> 1 @@ 73 :> 2 @@ 108 :> 4 @@ 76 :> 8
HasSign(letter) == letter # 85

\* get_ignore_noop: the first place from i on without an N.
RECURSIVE SkipNoop(_, _)
SkipNoop(s, i) == IF At(s, i) = 78 THEN SkipNoop(s, i + 1) ELSE i

UbjsonInteger(s, i) ==
    IF At(s, i) \notin DOMAIN IntegerSize THEN Fail
    ELSE GetNumber(s, i + 1, IntegerSize[At(s, i)], HasSign(At(s, i)))

\* get_ubjson_string: a negative length reads nothing.
UbjsonString(s, i) ==
    Then(UbjsonInteger(s, i),
         LAMBDA w, j : GetString(s, j, IF w[1] >= 128 THEN 0 ELSE ToNat(w)))

\* get_ubjson_size_value: a number with its sign, taken for std::size_t; -1 is npos.
UbjsonSizeValue(s, i) ==
    As(LAMBDA w : IF w = Filled(8, 255) THEN Indefinite ELSE ToNat(w),
       UbjsonInteger(s, SkipNoop(s, i)))

\* get_ubjson_size_type: a pair of the size and the type, 0 for none, and the place behind,
\* or that of "current" where the size is not known.  A size from 2^24 on fails: start_array
\* throws, or the input ends before (values without bytes aside).
UbjsonSizeType(s, i) ==
    LET first == SkipNoop(s, i)
        second == SkipNoop(s, first + 2)
        Sized(type, r) == Then(r, LAMBDA n, j :
            IF n = Large THEN Fail ELSE << <<n, type>>, IF n = Indefinite THEN j - 1 ELSE j>>)
    IN CASE At(s, first) = 36 ->
                IF At(s, first + 1) = Eof \/ At(s, second) # 35 THEN Fail
                ELSE Sized(At(s, first + 1), UbjsonSizeValue(s, second + 1))
         [] At(s, first) = 35 -> Sized(0, UbjsonSizeValue(s, first + 1))
         [] OTHER -> << <<Indefinite, 0>>, first>>

\* get_ubjson_array and get_ubjson_object.  With a type every value lacks its prefix.
RECURSIVE UbjsonTyped(_, _, _), UbjsonArray(_, _, _, _, _), UbjsonObject(_, _, _, _, _)
UbjsonValue(s, i) == UbjsonTyped(s, i + 1, At(s, i))
UbjsonNext(s, i, n, type) ==
    CASE n = Indefinite -> Then(UbjsonValue(s, i), LAMBDA v, j : <<v, SkipNoop(s, j)>>)
      [] n # Indefinite /\ type = 0 -> UbjsonValue(s, SkipNoop(s, i))
      [] OTHER -> UbjsonTyped(s, i, type)
UbjsonArray(s, i, n, type, items) ==
    IF ~Loop(n, s, i, 93) \/ (n # Indefinite /\ type = 78) THEN <<Array(items), Behind(n, i)>>
    ELSE Then(UbjsonNext(s, i, n, type),
              LAMBDA v, j : UbjsonArray(s, j, Less1(n), type, Append(items, v)))
UbjsonObject(s, i, n, type, members) ==
    IF ~Loop(n, s, i, 125) THEN <<Object(members), Behind(n, i)>>
    ELSE Then(UbjsonString(s, i), LAMBDA k, j :
             Then(UbjsonNext(s, IF n = Indefinite THEN SkipNoop(s, j) ELSE j, n, type),
                  LAMBDA v, l : UbjsonObject(s, l, Less1(n), type, Put(members, k, v))))

\* get_ubjson_value: what follows prefix b.
UbjsonTyped(s, i, b) ==
    CASE b \in {84, 70} -> <<Boolean(b = 84), i>>
      [] b = 90 -> <<Null, i>>
      [] b \in DOMAIN IntegerSize ->
             As(LAMBDA w : IF HasSign(b) THEN Integer(w) ELSE Unsigned(w),
                GetNumber(s, i, IntegerSize[b], HasSign(b)))
      [] b \in {100, 68} -> As(Float, Take(s, i, IF b = 100 THEN 4 ELSE 8))
      [] b = 67 -> IF At(s, i) > 127 THEN Fail ELSE <<String(<<At(s, i)>>), i + 1>>
      [] b = 83 -> As(String, UbjsonString(s, i))
      [] b = 91 -> Then(UbjsonSizeType(s, i), LAMBDA t, j : UbjsonArray(s, j, t[1], t[2], <<>>))
      [] b = 123 -> Then(UbjsonSizeType(s, i), LAMBDA t, j : UbjsonObject(s, j, t[1], t[2], <<>>))
      [] OTHER -> Fail

-----------------------------------------------------------------------------
\* BSON

\* get_bson_cstr.
BsonCstr(s, i) ==
    LET ends == {j \in i .. Len(s) : s[j] = 0}
    IN IF ends = {} THEN Fail
       ELSE LET end == CHOOSE j \in ends : \A l \in ends : j <= l
            IN <<SubSeq(s, i, end - 1), end + 1>>

\* get_bson_string: the zero byte at its end is read and not looked at.
BsonString(s, i) ==
    Then(GetLittle(s, i, 4), LAMBDA w, j :
        IF w[1] >= 128 \/ ToNat(w) = 0 THEN Fail
        ELSE Then(GetString(s, j, ToNat(w) - 1), LAMBDA bytes, l :
                 IF At(s, l) = Eof THEN Fail ELSE <<bytes, l + 1>>))

\* parse_bson_element_list: the members up to a zero byte; a list of pairs of key and value.
RECURSIVE BsonList(_, _, _), BsonElement(_, _, _)
BsonList(s, i, read) ==
    CASE At(s, i) = 0 -> <<read, i + 1>>
      [] At(s, i) = Eof -> Fail
      [] OTHER -> Then(BsonCstr(s, i + 1), LAMBDA k, j :
                      Then(BsonElement(s, j, At(s, i)), LAMBDA v, l :
                          BsonList(s, l, Append(read, <<k, v>>))))

\* parse_bson_internal and parse_bson_array: the size of the document is read and not looked
\* at, the keys of an array neither.
BsonDocument(s, i) == Then(Take(s, i, 4), LAMBDA size, j : BsonList(s, j, <<>>))
BsonObject(s, i) ==
    As(LAMBDA list : Object(FoldLeft(LAMBDA f, e : Put(f, e[1], e[2]), <<>>, list)), BsonDocument(s, i))
BsonArray(s, i) ==
    As(LAMBDA list : Array([n \in DOMAIN list |-> list[n][2]]), BsonDocument(s, i))

\* parse_bson_element_internal.
BsonElement(s, i, type) ==
    CASE type = 1 -> As(LAMBDA b : Float(Reverse(b)), Take(s, i, 8))
      [] type = 2 -> As(String, BsonString(s, i))
      [] type = 3 -> BsonObject(s, i)
      [] type = 4 -> BsonArray(s, i)
      [] type = 8 -> <<Boolean(At(s, i) # 0), i + 1>>
      [] type = 10 -> <<Null, i>>
      [] type \in {16, 18} -> As(Integer, GetLittle(s, i, IF type = 16 THEN 4 ELSE 8))
      [] OTHER -> Fail

-----------------------------------------------------------------------------
\* sax_parse, strict: nothing may be left over.
Whole(s, r) == IF r = Fail \/ At(s, r[2]) # Eof THEN Fail ELSE r[1]

FromCbor(s) == Whole(s, CborValue(s, 1))
FromMsgpack(s) == Whole(s, MsgpackValue(s, 1))
FromUbjson(s) ==
    Whole(s, Then(UbjsonValue(s, SkipNoop(s, 1)), LAMBDA v, j : <<v, SkipNoop(s, j)>>))
FromBson(s) == Whole(s, BsonObject(s, 1))
=============================================================================
